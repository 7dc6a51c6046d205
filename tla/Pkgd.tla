-------------------------------- MODULE Pkgd --------------------------------
(***************************************************************************)
(* The package daemon, repos/sponge/src/sponge_pkgd/main.cc: its roots,    *)
(* the installed and running sets derived from them, the two sandbox       *)
(* configurations and the broadcast it publishes, its answers, and the     *)
(* store it reloads the roots from.                                        *)
(*                                                                         *)
(* All handlers run on one entrypoint, so a handler is one step - except   *)
(* that it blocks while the store is written.  install and remove are two  *)
(* steps, and the machine may stop between them.  The bootstrap runs to    *)
(* its end before a handler is armed.                                      *)
(***************************************************************************)
EXTENDS Packages, FiniteSets

CONSTANTS
    NameOrder,    \* every package name, in the order of strcmp
    Deps,         \* the repository: dependencies of each loadable package
    Autostart,    \* packages whose metadata carries <autostart/>
    Driver,       \* packages of kind "driver"; the others are "app"
    Group,        \* exclusive group of a package, or NoGroup
    NoGroup,
    Staged,       \* packages whose binary is in the image
    Need,         \* declared quota; RAM and caps count as one resource
    Unparsable,   \* packages whose quota text cannot be parsed
    Margin,       \* ADMISSION_MARGIN
    Armed,        \* the kinds whose admission gate is armed
    Budgets,      \* remaining budgets a sandbox may report
    Persistent,   \* the config carries a <vfs> node
    Profile,      \* packages the bake manifest stages, <<>> without <bake/>
    Earlier,      \* root sets that an earlier image may have left in the store
    MaxPackages,  \* MAX_PACKAGES
    WritesFail,   \* the file system may refuse to open or write the store
    Tag           \* values of a request's seq attribute

Name     == ToSet(NameOrder)
Loadable == DOMAIN Deps
Kinds    == {"app", "driver"}
NoBudget == -1
NoName   == "none"

ASSUME RepositoryAssumption ==
    /\ NameOrder \in Seq(Name)
    /\ \A i, j \in DOMAIN NameOrder : NameOrder[i] = NameOrder[j] => i = j
    /\ Loadable \subseteq Name
    /\ Deps \in [Loadable -> Seq(Name)]
    /\ Autostart \subseteq Loadable
    /\ Driver \subseteq Loadable
    /\ Group \in [Loadable -> {Group[p] : p \in Loadable}]
    /\ Staged \subseteq Loadable
    /\ Need \in [Loadable -> Nat]
    /\ Unparsable \subseteq Loadable
    /\ Cardinality(Loadable) <= MaxPackages
    /\ NoName \notin Name

ASSUME DeploymentAssumption ==
    /\ Margin \in Nat
    /\ Armed \subseteq Kinds
    /\ Budgets \subseteq Nat
    /\ Persistent \in BOOLEAN
    /\ WritesFail \in BOOLEAN
    /\ Profile \in Seq(Name)
    /\ MaxPackages \in Nat
    /\ \A S \in Earlier : S \subseteq Name /\ Cardinality(S) <= MaxPackages

VARIABLES
    stage,      \* "down", "seeding", "idle", "saving": where the daemon is
    roots,      \* _roots
    installed,  \* the names in _installed
    running,    \* _running
    plan,       \* _plan, as far as _num_plan
    lastSig,    \* _last_request_sig
    last,       \* the result reported last, which is what is replayed
    started,    \* the <start> nodes of the two published configurations
    broadcast,  \* the "installed" report
    store,      \* the file at STORE_PATH
    free,       \* remaining budget in the latest state report of a sandbox
    job,        \* the request that waits for the store
    held        \* history: the roots a restart is to bring back, or Unsaved

memory == <<roots, installed, running, plan>>
output == <<started, broadcast>>
pkgdVars == <<stage, memory, lastSig, last, output, store, free, job, held>>

NoResult == [op |-> "none", pkg |-> NoName, status |-> "none",
             items |-> {}]
NoJob    == [op |-> "none", pkg |-> NoName, before |-> {}]
Unsaved  == {NoName}

Kind(p) == IF p \in Driver THEN "driver" ELSE "app"

-----------------------------------------------------------------------------
(* Resolution, and the derivation of everything from the roots. *)

Resolution == [p \in Name |-> Resolve(Deps, p)]

Resolved(p) == Resolution[p]

(* Mutant of InstalledFrom: the plan of a failed root counts. *)
InstalledUnchecked(rs) == UNION {ToSet(Resolved(r).plan) : r \in ToSet(rs)}

(* _sync_installed_from_roots: a root that does not resolve is passed over.*)
PlanAfterSync(pl, rs) == IF rs = <<>> THEN pl ELSE Resolved(Last(rs)).plan
InstalledFrom(rs) ==
    UNION {ToSet(Resolved(r).plan) :
              r \in {q \in ToSet(rs) : Resolved(q).verdict = "ok"}}

(* Mutant of RunningAfter: the launched are dropped. *)
RunningAnew(inst) == Autostart \intersect inst

(* _sync_running_state *)
RunningAfter(inst) == (running \intersect inst) \union (Autostart \intersect inst)

Rederive(rs, pl) ==
    /\ roots' = rs
    /\ installed' = InstalledFrom(rs)
    /\ running' = RunningAfter(installed')
    /\ plan' = PlanAfterSync(pl, rs)

(* _add_root: nothing happens for a known root, or when the array is full. *)
WithRoot(p) ==
    IF p \in ToSet(roots) \/ Len(roots) >= MaxPackages
    THEN roots ELSE Append(roots, p)

(* A removed root's place is taken by the last one. *)
WithoutRoot(p) ==
    IF p \notin ToSet(roots) THEN roots
    ELSE LET i == SelectInSeq(roots, LAMBDA q : q = p)
             n == Len(roots)
         IN  SubSeq([roots EXCEPT ![i] = roots[n]], 1, n - 1)

(* Mutant: the configurations are generated from the old running set. *)
PublishEarly ==
    /\ started' = [k \in Kinds |-> {p \in installed' \intersect running : Kind(p) = k}]
    /\ broadcast' = [installed |-> installed', running |-> running']

(* _generate_runtime_config and _generate_installed_report *)
PublishState ==
    /\ started' = [k \in Kinds |-> {p \in installed' \intersect running' : Kind(p) = k}]
    /\ broadcast' = [installed |-> installed', running |-> running']

-----------------------------------------------------------------------------
(* The gates in front of the running set. *)

KnownBudget(p) == Kind(p) \in Armed /\ free[Kind(p)] # NoBudget

(* Mutant: nothing is held back. *)
FitsExactly(p) == free[Kind(p)] >= Need[p]

Fits(p) == free[Kind(p)] >= Need[p] + Margin

(* _admits *)
Admits(p) == KnownBudget(p) => Fits(p)

(* A package of a plan that would enter the running set. *)
Spawned(p) == p \in Autostart \ running

(* The admission pre-flight of _do_install walks the plan up to the first  *)
(* package that decides it: one whose budget is not known ends the walk.   *)
Deciding(p) == Spawned(p) /\ (p \in Unparsable \/ ~KnownBudget(p) \/ ~Fits(p))
Refusal(pkg, pl) ==
    LET i == SelectInSeq(pl, Deciding)
    IN  IF Armed = {} \/ i = 0 THEN NoName
        ELSE IF pl[i] \in Unparsable THEN pkg
        ELSE IF KnownBudget(pl[i]) THEN pl[i] ELSE NoName

(* _exclusive_peer: the running package that holds p's group. *)
Peers(p) ==
    {o \in (installed \intersect running) \ {p} :
        Group[p] # NoGroup /\ Group[o] = Group[p]}

-----------------------------------------------------------------------------
(* Answers.  Whatever is reported is also what a duplicate will be given.  *)
(* The four request channels differ only in where the answer goes; they    *)
(* share the signature, the last answer and everything else.               *)

Result(op, pkg, status) == [NoResult EXCEPT !.op = op, !.pkg = pkg, !.status = status]

(* Mutant: the answer to a remove is not cached. *)
ReportUncached(r) == last' = IF r.op = "remove" THEN last ELSE r

Report(r) == last' = r

ListResult ==
    [Result("list", NoName, "ok") EXCEPT !.items = installed]

(* _replay_last_result: every branch reports again what was cached, except *)
(* that a list is read from the present state.  The exclusive-group check  *)
(* of an install is made here.                                             *)
Replayed ==
    LET i == SelectInSeq(plan, LAMBDA p : p \in Autostart \ running /\ Peers(p) # {})
    IN  CASE last.op = "list" /\ last.status = "ok" -> ListResult
          [] last.op = "install" /\ last.status = "ok" /\ i # 0 ->
                Result("install", plan[i], "conflict")
          [] OTHER -> last

-----------------------------------------------------------------------------
(* The store. *)

(* The roots of a torn file are those it held before.                      *)
Absent    == [state |-> "absent", roots |-> {}]
Intact(S) == [state |-> "intact", roots |-> S]
Cut(file) == [file EXCEPT !.state = "torn"]

(* _load_store: whatever cannot be read is an empty root set. *)
Stored == IF store.state = "intact" THEN store.roots ELSE {}

Before(p, o) == \E i, j \in DOMAIN NameOrder :
                   i < j /\ NameOrder[i] = p /\ NameOrder[j] = o

(* The one sequence of S in which _save_store writes it, and in which it   *)
(* is read back.                                                           *)
InNameOrder(S) ==
    {s \in [1..Cardinality(S) -> S] :
        /\ \A i, j \in DOMAIN s : i < j => Before(s[i], s[j])
        /\ \A p \in S : \E i \in DOMAIN s : s[i] = p}

(* _save_store opens the file and truncates it to the new length before it *)
(* writes.  Until then, and as long as the old text is not cut, the old    *)
(* content may still be read back.                                         *)
Truncate ==
    IF ~Persistent THEN UNCHANGED store
    ELSE store' \in {Cut(store), store}

(* A roots' save that succeeds is one a restart is to bring back.          *)
Holds == held' = IF Persistent THEN ToSet(roots) ELSE Unsaved

(* Mutant: the closure is stored, not the roots. *)
SaveClosure == store' = (IF Persistent THEN Intact(installed) ELSE store) /\ Holds

SaveSucceeds ==
    store' = (IF Persistent THEN Intact(ToSet(roots)) ELSE store) /\ Holds

(* The file could not be opened or written: a warning, nothing else. *)
SaveFails == Persistent /\ WritesFail /\ held' = Unsaved /\ UNCHANGED store

-----------------------------------------------------------------------------
(* Start, crash and environment. *)

PkgdInit ==
    /\ stage = "down"
    /\ roots = <<>> /\ installed = {} /\ running = {}
    /\ plan = <<>>
    /\ lastSig = <<>> /\ last = NoResult
    /\ started = [k \in Kinds |-> {}]
    /\ broadcast = [installed |-> {}, running |-> {}]
    /\ store \in {Absent} \union {Intact(S) : S \in Earlier}
    /\ free = [k \in Kinds |-> NoBudget]
    /\ job = NoJob /\ held = Unsaved

(* The profile seeds the roots if none were restored. *)
Seeds == SubSeq(Profile, 1, IF Len(Profile) < MaxPackages THEN Len(Profile)
                                                          ELSE MaxPackages)

Finish(rs) ==
    /\ Rederive(rs, plan)
    /\ PublishState
    /\ stage' = "idle"

BootRestores ==
    /\ stage = "down"
    /\ Stored # {} \/ Seeds = <<>>
    /\ \E rs \in InNameOrder(Stored) : Finish(rs)
    /\ held' = Stored
    /\ UNCHANGED <<lastSig, last, store, free, job>>

BootSeeds ==
    /\ stage = "down"
    /\ Stored = {} /\ Seeds # <<>>
    /\ roots' = Seeds
    /\ stage' = "seeding"
    /\ Truncate
    /\ held' = Unsaved
    /\ UNCHANGED <<installed, running, plan, lastSig, last, output, free, job>>

BootSeeded ==
    /\ stage = "seeding"
    /\ SaveSucceeds \/ SaveFails
    /\ Finish(roots)
    /\ UNCHANGED <<lastSig, last, free, job>>

(* The machine, or the daemon, is restarted: only the store survives. *)
Crash ==
    /\ stage # "down"
    /\ stage' = "down"
    /\ roots' = <<>> /\ installed' = {} /\ running' = {}
    /\ plan' = <<>>
    /\ lastSig' = <<>> /\ last' = NoResult
    /\ started' = [k \in Kinds |-> {}]
    /\ broadcast' = [installed |-> {}, running |-> {}]
    /\ free' = [k \in Kinds |-> NoBudget]
    /\ job' = NoJob
    /\ UNCHANGED <<store, held>>

SandboxReports(k, budget) ==
    /\ k \in Armed /\ stage # "down"
    /\ free' = [free EXCEPT ![k] = budget]
    /\ UNCHANGED <<stage, memory, lastSig, last, output, store, job, held>>

-----------------------------------------------------------------------------
(* Requests.  A request whose op|pkg|seq is that of the request before it  *)
(* is not processed again but answered again.                              *)

PackageOps == {"explain", "install", "remove", "launch"}

Unchanged == UNCHANGED <<output, store, free, held>>

Duplicate(op, pkg, q) ==
    /\ stage = "idle" /\ lastSig = <<op, pkg, q>>
    /\ Report(Replayed)
    /\ Unchanged /\ UNCHANGED <<stage, memory, lastSig, job>>

Fresh(op, pkg, q) ==
    /\ stage = "idle" /\ lastSig # <<op, pkg, q>>
    /\ lastSig' = <<op, pkg, q>>

(* A report that is no <request>: it is answered, but has no signature. *)
HandleMalformed ==
    /\ stage = "idle"
    /\ Report(Result("explain", NoName, "error"))
    /\ Unchanged /\ UNCHANGED <<stage, memory, lastSig, job>>

HandleInvalid(op, pkg, q) ==
    /\ op # "list" /\ (op \notin PackageOps \/ pkg = NoName)
    /\ Fresh(op, pkg, q)
    /\ Report(Result(op, pkg, "error"))
    /\ Unchanged /\ UNCHANGED <<stage, memory, job>>

DoList(pkg, q) ==
    /\ Fresh("list", pkg, q)
    /\ Report(ListResult)
    /\ Unchanged /\ UNCHANGED <<stage, memory, job>>

DoExplain(pkg, q) ==
    /\ Fresh("explain", pkg, q)
    /\ plan' = Resolved(pkg).plan
    /\ Report(Result("explain", pkg,
                     IF Resolved(pkg).verdict = "ok" THEN "ok" ELSE "error"))
    /\ Unchanged /\ UNCHANGED <<stage, roots, installed, running, job>>

(* An install that is turned down, by the resolver or by the admission     *)
(* gate: the latter names the package it decided on.                       *)
InstallRefused(pkg, q) ==
    LET refused == Refusal(pkg, Resolved(pkg).plan)
    IN  /\ Fresh("install", pkg, q)
        /\ plan' = Resolved(pkg).plan
        /\ \/ /\ Resolved(pkg).verdict # "ok"
              /\ Report(Result("install", pkg, "error"))
           \/ /\ Resolved(pkg).verdict = "ok" /\ refused # NoName
              /\ Report(Result("install", refused, "insufficient"))
        /\ Unchanged /\ UNCHANGED <<stage, roots, installed, running, job>>

InstallBegins(pkg, q) ==
    /\ Fresh("install", pkg, q)
    /\ Resolved(pkg).verdict = "ok"
    /\ Refusal(pkg, Resolved(pkg).plan) = NoName
    /\ Rederive(WithRoot(pkg), Resolved(pkg).plan)
    /\ Truncate
    /\ stage' = "saving"
    /\ job' = [op |-> "install", pkg |-> pkg, before |-> installed]
    /\ held' = Unsaved
    /\ UNCHANGED <<last, output, free>>

RemoveMissing(pkg, q) ==
    /\ Fresh("remove", pkg, q)
    /\ pkg \notin installed
    /\ Report(Result("remove", pkg, "error"))
    /\ Unchanged /\ UNCHANGED <<stage, memory, job>>

RemoveBegins(pkg, q) ==
    /\ Fresh("remove", pkg, q)
    /\ pkg \in installed
    /\ Rederive(WithoutRoot(pkg), plan)
    /\ Truncate
    /\ stage' = "saving"
    /\ job' = [op |-> "remove", pkg |-> pkg, before |-> installed]
    /\ held' = Unsaved
    /\ UNCHANGED <<last, output, free>>

(* What the change did: names added, or names dropped. *)
Outcome == [Result(job.op, job.pkg, "ok") EXCEPT
               !.items = IF job.op = "install" THEN installed \ job.before
                                               ELSE job.before \ installed]

(* The rest of _do_install and _do_remove, once the store has answered.    *)
ChangeEnds ==
    /\ stage = "saving"
    /\ SaveSucceeds \/ SaveFails
    /\ stage' = "idle"
    /\ UNCHANGED memory
    /\ PublishState
    /\ Report(Outcome)
    /\ job' = NoJob
    /\ UNCHANGED <<lastSig, free>>

LaunchStatus(p) ==
    CASE p \notin installed   -> "not-installed"
      [] p \in running        -> "already-running"
      [] Peers(p) # {}        -> "conflict"
      [] p \notin Staged      -> "binary-missing"
      [] p \in Unparsable     -> "insufficient"
      [] ~Admits(p)           -> "insufficient"
      [] OTHER                -> "ok"

LaunchRefused(pkg, q) ==
    /\ Fresh("launch", pkg, q)
    /\ LaunchStatus(pkg) # "ok"
    /\ Report(Result("launch", pkg, LaunchStatus(pkg)))
    /\ Unchanged /\ UNCHANGED <<stage, memory, job>>

LaunchStarts(pkg, q) ==
    /\ Fresh("launch", pkg, q)
    /\ LaunchStatus(pkg) = "ok"
    /\ running' = running \union {pkg}
    /\ UNCHANGED <<roots, installed, plan>>
    /\ PublishState
    /\ Report(Result("launch", pkg, "ok"))
    /\ UNCHANGED <<stage, store, free, job, held>>

Boot == BootRestores \/ BootSeeds \/ BootSeeded

Handle(pkg, q) ==
    \/ \E op \in PackageOps \union {"list", "unknown"} :
          Duplicate(op, pkg, q) \/ HandleInvalid(op, pkg, q)
    \/ DoList(pkg, q)
    \/ /\ pkg # NoName
       /\ \/ DoExplain(pkg, q)
          \/ InstallRefused(pkg, q) \/ InstallBegins(pkg, q)
          \/ RemoveMissing(pkg, q)  \/ RemoveBegins(pkg, q)
          \/ LaunchRefused(pkg, q)  \/ LaunchStarts(pkg, q)

PkgdNext ==
    \/ Boot \/ ChangeEnds \/ Crash
    \/ \E k \in Kinds, b \in Budgets : SandboxReports(k, b)
    \/ HandleMalformed
    \/ \E pkg \in Name \union {NoName}, q \in Tag : Handle(pkg, q)

PkgdSpec == PkgdInit /\ [][PkgdNext]_pkgdVars

-----------------------------------------------------------------------------
(* Properties. *)

(* What is assumed of the resolver where it matters: it accepts what can   *)
(* be resolved, and plans what that needs.                                 *)
ResolverIsRight ==
    \A p \in Name :
        /\ Resolved(p).verdict = "ok" <=> Resolvable(Deps, p)
        /\ Resolvable(Deps, p) => ToSet(Resolved(p).plan) = Needs(Deps, {p})

(* A plan lists packages that can be loaded. *)
PlansAreSequences == \A p \in Name : Resolved(p).plan \in Seq(Loadable)

(* "_running is a subset of the installed names" after every state change, *)
(* the comment of _sync_running_state: no sandbox is told to run what is   *)
(* not installed.                                                          *)
RunningIsInstalled == running \subseteq installed

(* Whatever is installed and marked <autostart/> runs, also after a        *)
(* restart and when it came in as a dependency (_sync_running_state).      *)
AutostartRuns == Autostart \intersect installed \subseteq running

(* Nothing is installed that no root needs, nothing a root needs is        *)
(* missing: _sync_installed_from_roots collects the dependencies of        *)
(* removed packages.  A root that does not resolve counts for nothing.     *)
Closure == [r \in Name |-> IF Resolvable(Deps, r) THEN Needs(Deps, {r}) ELSE {}]

InstalledIsNeeded ==
    stage \in {"idle", "saving"} =>
        installed = UNION {Closure[r] : r \in ToSet(roots)}

(* When the daemon is idle, the two sandbox configurations and the         *)
(* broadcast say the same, and what the daemon itself believes: "no call   *)
(* site can ever publish one without the other"                            *)
(* (_generate_runtime_config).                                             *)
PublishedAgrees ==
    stage = "idle" =>
        /\ started = [k \in Kinds |-> {p \in running : Kind(p) = k}]
        /\ broadcast = [installed |-> installed, running |-> running]

(* A restart brings back the roots the latest save has stored, whenever    *)
(* the machine stops after it and however often it has before, with one    *)
(* exception: an emptied set is not told from a first start, and the       *)
(* profile is seeded again.  It is so although the two ends of the store   *)
(* never meet: _save_store writes, _load_store and                         *)
(* _seed_roots_from_bake decide at the next start what to make of it.      *)
RestartBringsBack ==
    [][stage = "down" /\ held # Unsaved
       => ToSet(roots') = IF held = {} THEN ToSet(Seeds) ELSE held]_<<stage, roots>>

(* The recipe that is replayed to a duplicate is still true, however long  *)
(* ago the answer was given: _replay_last_result builds on it.             *)
ReplayIsTrue ==
    LET Answered(op, status) == last.op = op /\ last.status \in status
    IN  stage = "idle" =>
          /\ Answered("install", {"ok"}) =>
                 {last.pkg} \union last.items \subseteq installed
          /\ Answered("remove", {"ok"})    => last.items \intersect installed = {}
          /\ Answered("remove", {"error"}) => last.pkg \notin installed
          /\ Answered("launch", {"not-installed"}) => last.pkg \notin installed
          /\ Answered("launch", {"ok", "already-running"}) => last.pkg \in running

(* "At most one running package may carry the same group at a time",       *)
(* docs/12 section 3, enforced "on both paths that move a package into the *)
(* running set".  No install and no restart asks.                          *)
GroupsAreExclusive ==
    \A p, o \in running :
        p # o /\ Group[p] # NoGroup => Group[p] # Group[o]

(* What the gate of launch does give: two running packages of one group    *)
(* are never both launched ones, whatever was installed, removed, or came  *)
(* and went between the two launches (_exclusive_peer).                    *)
OnlyAutostartCollides ==
    \A p, o \in running \ Autostart :
        p # o /\ Group[p] # NoGroup => Group[p] # Group[o]

(* "A package is never taken away by an operation the user did not name":  *)
(* what runs goes on running as long as it stays installed.                *)
NothingIsStopped ==
    [][stage' # "down" => running \intersect installed' \subseteq running']_pkgdVars

(* An install starts no package that the budget of its sandbox, less the   *)
(* margin, cannot hold by itself: the pre-flight looks at every package    *)
(* the plan would start, before anything is changed.  It does not look at  *)
(* what they need together, which the comment of _do_install promises.     *)
InstallsAreAdmitted ==
    [][LET new == running' \ running
       IN  /\ job' # job /\ job'.op = "install"
           /\ \A p \in new : KnownBudget(p)
           => \A p \in new : Need[p] + Margin <= free[Kind(p)]]_pkgdVars

(* A write that fails loses that one mutation only (docs/12 section 13.3): *)
(* what was stored before can still be restored.                           *)
FailedSaveLosesOneChange ==
    stage = "idle" /\ store.state = "torn" => store.roots = {}
=============================================================================
