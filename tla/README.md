# A verification project for Sponge OS

TLA+ models, model-checking runs and machine-checked proofs about the
components of Sponge OS under `src/repos/sponge/src/`: the supervisor that
kills and replaces the desktop, the package and the configuration daemon, the
log sink, the clients of the daemons (command line, launcher, settings,
terminals, Leitzentrale watcher), and the desktop with the daemons around it.
Paths below are relative to `src/repos/sponge/src/` unless they start
with `src/`.

1. [The system](#1-the-system): components, state, interaction, what is hard
2. [The modules](#2-the-modules) and how they correspond to the code
3. [The runs](#3-the-runs): what each shows, bounds, fairness
4. [The proofs](#4-the-proofs)
5. [Where code and text disagree](#5-where-code-and-text-disagree)
6. [What is not modelled](#6-what-is-not-modelled)
7. [What could come next](#7-what-could-come-next)

## 1. The system

Sponge OS is a desktop on Genode. Every component is a process with one
entrypoint (a thread that runs one signal handler at a time); `sponge_logdisk`
has a second thread, and `sponge_pkgd` boots on one of its own. Components
share no memory and make no calls to one another. They write *reports* and read
*ROMs*, and a `report_rom` relays one to the other. The relay keeps the latest
report of a label: a reader that is late sees the last one only, one that comes
back after a restart sees an old one again, and a report that is equal to the
previous one is still a new report. All the protocols below are built on this
single-slot, latest-wins channel, and most of the hard behaviour comes from it.

| component | state it keeps | operations | talks to |
|---|---|---|---|
| `sponge_supervisor` | phase, tick counts, what the last state report showed, kill version | timer tick, state report | reads the sandbox's state report; writes the sandbox's configuration and the console's arming report |
| `sponge_console` | Gui session | arming report, input | reads the arming report |
| `sponge_pkgd` | roots, installed and running set, plan, last request and answer, store file | explain, list, install, remove, launch; four request channels; restore, seed | writes two sandbox configurations, the "installed" broadcast and answers; reads the sandboxes' budgets |
| `sponge_configd` | flat settings, slots of per-panel settings, store file | get, set, list on two channels; baked defaults; divergence flag | writes the "config" broadcast and answers |
| `sponge_backend_client`, `vct` | the command's requests, polls made | parse, request, poll for the answer, print, time out | the daemons, `lz_watch` |
| `vct_tty` | lines to process, buffer of output | write a line, request, poll, read | `sponge_pkgd` |
| `sponge-de` (panels, launcher, tasklist, shortcuts, settings, theme, background, notifications) | widgets, what was last seen of each ROM, pending launch, tracked windows | polls every 250 ms; user actions | reads broadcasts and window lists, writes requests and layouter rules |
| `sponge_notifier` | bounded list of notifications with a time to live | post, expire, reconfigure | reads posts, writes the list |
| `sponge_logdisk` | pending buffer with two cursors, counters | log line (RPC), drain (entrypoint), tick | writes a file |
| `sponge_themed`, `sponge_decorator_bridge` | last published theme, colour | config / theme change | broadcast in, theme and decorator configuration out |
| `lz_watch` | snapshot of two files | poll, snapshot, revert | reads files and requests, writes divergence |
| `sponge_files`, `sponge_debug`, probes, tools | - | - | user interface, tests, host tools |

**What is hard here**, and what makes each component correct:

- *Supervisor.* It decides on reports that arrive at any time, or never, against
  several windows (boot grace, fault grace, hold, settle) that overlap and
  reset each other. Correct: it kills only after a fault that really held, it
  declares success only after health that really held, no phase but NOMINAL is
  unbounded, a lasting fault is shown to the user and a lasting recovery is
  accepted.
- *Supervisor, sandbox and console.* Two reports published in one handler are
  read by two components in either order, and the display has one owner.
  Correct: the desktop that is rebuilt never meets the console, every kill
  reaches every child, the desktop always comes back.
- *Package daemon.* Everything it publishes is derived from the roots, anew at
  each change, while launches add state that is not derived. It may be
  restarted between any two steps, and answers duplicates from a cache.
  Correct: installed = what the roots need, running is within installed and
  contains what is autostarted, all three outputs agree, nothing stops that the
  user did not stop, two launched packages never share a group, a package that
  does not fit the budget is not started, a restart brings back what was
  stored.
- *Configuration daemon.* Keys come and go (per-panel keys are cloned from
  templates into a finite pool), values arrive from requests, from the baked
  defaults and from the file, and watchers and file lag behind the memory.
  Correct: only accepted values anywhere, each key at most once, watchers are
  told all, a restart brings back one of the states that were meant to be
  stored.
- *Clients.* No request carries a number: an answer is recognised by operation
  and name alone, so a stale one may be taken for the new one. Correct: what a
  client tells its user is true, as far as the answer of the daemon can carry
  it, unless somebody else changed it, and every wait ends.
- *Log sink.* Two threads and a buffer that is read outside the lock. Correct:
  the cursors stay in the buffer and in order, what reaches the file is in
  order and complete as long as nothing was logged during a batch and no batch
  was taken in pieces, the file stays within its cap as long as writes are
  taken whole, and what is pending is drained.
- *Notifier.* Two clocks. Correct: no entry outlives its time, and the popover
  comes to show the list.
- *Themes, settings, panels.* Values travel through chains of readers of which
  each remembers what it saw last. Correct: once the user stops, what is shown
  agrees with what is set.
- *Windows.* Tasklist and layouter write each other's input. Correct: the loop
  comes to rest, in agreement, and the place a minimized window is parked at is
  never taken for its place on the screen, unless it gets a new title there.
- *Shortcuts.* The signal of the first report may be lost, presses are seen
  twice. Correct: the bindings arrive, each press counts at most once.

The full list, with lines, is in `PROJECT.json` under `hazards`.

## 2. The modules

| module | models | extends |
|---|---|---|
| `Supervisor` | `sponge_supervisor/main.cc` | |
| `SupervisorTiming` | an observer of the supervisor's ticks | `Supervisor` |
| `Takeover` | supervisor, relay, sandbox and `sponge_console/main.cc` | `Supervisor` |
| `Packages` | `_resolve`/`_visit` of `sponge_pkgd/main.cc`, and what they should compute | |
| `Resolver` | the resolver run step by step on any graph | `Packages` |
| `Pkgd` | `sponge_pkgd/main.cc` | `Packages` |
| `Configd` | `sponge_configd/main.cc` | |
| `ConfigStore` | the abstract promise of the configuration daemon | |
| `Logdisk` | `sponge_logdisk/main.cc` | |
| `Channels` | the request and answer reports, and both daemons as a client sees them | |
| `CommandLine` | `vct/args.cc` | |
| `Vct` | `vct/`, and the polling of `sponge_backend_client` | `Channels`, `CommandLine` |
| `LzWatch` | `lz_watch/main.cc` | `Vct` |
| `SettingsDialog` | `sponge-de/settings/`, `config/settings_controller.cc`, the panel's menu | `Channels` |
| `Launcher` | `sponge-de/launcher/`, `config/dismisser.cc` | `SettingsDialog` |
| `Tty` | `vct_tty/main.cc` | `Channels` |
| `Clients` | all clients against both daemons | `LzWatch`, `Launcher`, `Tty` |
| `Notifications` | `sponge_notifier/main.cc`, the posters, the popover | |
| `Appearance` | `sponge_themed`, `sponge_decorator_bridge`, `sponge-de/theme`, `config/config_controller.cc`, `panel/panel_collection.cc` | |
| `Windows` | `panel/tasklist_controller.cc`, `background/show_desktop.cc`, the layouter | |
| `Shortcuts` | `config/shortcut_controller.cc`, event_filter | |
| `Desktop` | the four of them, scene by scene | `Notifications`, `Appearance`, `Windows`, `Shortcuts` |
| `SupervisorProofs` | theorems of `Supervisor` and `SupervisorTiming` | `SupervisorTiming` |
| `TakeoverProofs` | theorems of `Takeover` | `Takeover`, `SupervisorProofs` |
| `ResolverProofs`, `PkgdProofs`, `ConfigdProofs`, `LogdiskProofs`, `ClientsProofs`, `DesktopProofs` | theorems | the module named |
| `MC...` | values for the constants | the module named |

A definition whose comment begins with "Mutant" is not part of a
specification. It is a plausible error in the definition that follows it, and
is there to show that a property notices it.

### Supervisor, SupervisorTiming

One action per path through `_handle_tick`, one for `_handle_state`. The code
keeps absolute tick counts and compares differences; the model keeps the
differences ("ages") and lets them stop growing above every deadline, so there
is no unbounded clock and nothing is lost: `PhaseCap`, `UptimeCap`,
`GraceTicks` and `SettleTicks` are the bounds. `faultAge = NoFault` stands for
`_fault_since = 0`. Milliseconds are turned into ticks as the code does,
rounding up, with the poll period 0 replaced by 250. A state report is a
function from the children it names to a record of what the text scan extracts.
Publishing keeps the code's order: the kill version is stepped once the template
has been found and before the substituted text is measured, so a text that is
too long uses one up.

`SupervisorTiming` adds two history variables, `faultRun` and `healthyRun`. The
timing properties speak about these and not about the supervisor's own
bookkeeping, which is what could be wrong.

### Takeover

The relay is the pair of "published" (`systemReport`, `armedReport`) and "read"
(`sandboxConfig`, `session`): a report is pending while they differ. The
sandbox is Genode's `init` (external): it applies what it reads, starts what is
new, and replaces each child whose version differs from the last one. Children
answer, wedge, recover, exit, and are restarted by the sandbox's own heartbeat.
`SandboxLag` and `ConsoleLag` bound, in supervisor ticks, how late a reader may
be; the guard of `SupervisorTick` is where the bound bites.

### Packages, Resolver, Pkgd

`Packages` has the depth-first search as a step function on an explicit stack
and, separately, what it should compute: `Needs` is the least closed set,
`Resolvable` says that all of it exists and none of it depends on itself.
`_done` and `_plan` always list the same names and are one sequence. A failure
unwinds the stack and plans what is on it, as the code does.

`Pkgd` has one action per outcome of a handler. All handlers run on one
entrypoint, so a handler is one step, but for the one place where it blocks:
`_save_store` waits for the file system. `install` and `remove` are therefore
two steps with the stage "saving" between them, in which the machine may stop;
the file has then been cut or not. Every answer goes through `Report`, which
also is what a duplicate will be answered from (`Replayed`). The admission gate
keeps the code's oddities: it ends at the first package whose budget is not
known, checks each against the same remaining budget, and names the package it
decided on. The file is a set of roots, and a start reads it back in the order
it was written in, by name (`InNameOrder`); before the first start it is
absent, or holds what an earlier image left there (`Earlier`). `held` is
history: the roots the latest save has stored, until the next one begins. RAM and caps are one resource, as they are only ever checked by the
same comparison side by side. A torn file parses as empty: the parser throws
and `_load_store` starts afresh. The four request channels share signature,
cached answer and all else, and are one. `plan` is kept because the replay of
an install looks at it.

### Configd, ConfigStore

A key is flat (in the registry from the start) or a panel key (it matches a
template, and exists once it has a slot). `Addressed` is the code's index
confusion: `_do_set` keeps one index, of the flat registry or of the slots, and
tells which by whether it is below the number of slots. Baking goes line by
line, through the same function as the code (`_apply_validated_value`), then
the sentinel, then the store, then the broadcast. `file` is what the file reads
as; a second file is written and renamed, so it changes at once or not at all.
`Quoted` values are those with a quotation mark, which `clock.format` accepts
and which `_save_store` writes as they are (see section 5).

`ConfigStore` is what a reader of the broadcast is promised: a map of settings
that changes one key at a time or by a whole bake, metadata by a bake only,
with a durable copy that a restart brings back - the state before or after the
change that was under way, never a mixture. `Configd!Implements` instantiates
it with the broadcast, the readable file and "has published since it was
started".

### Logdisk

The buffer is a function of positions, a byte is the number of its line. The
thread of the Log sessions is one action, `LogLine`, for it holds the lock
throughout. The main entrypoint is a place (`at`) that walks through `_drain`:
a critical section, the output outside the lock, a second critical section.
Between any two of its steps lines may be logged; while it waits for the file
system the tick may be dispatched inside it, as `HandleTick` says. The wake-up
after a line is not in the model: it goes to a receiver nobody waits at. The
file is its size, `onDisk`, beside the sink's count of it, `fileBytes`. The file
system may take a batch in several writes, each at the position the code
computes, `_file_bytes + off` with both counted up: all but the first land too
far. A line of the sink's own (header, tick) is two bytes, so that it can be
taken in pieces as well (`OwnLineIn`). `whole` is history: every write to the
present file was taken whole. `logged` and `written` are history and are kept as
long as `undisturbed`: nothing overflowed, was refused, was taken in pieces or
was logged during a batch. `RotateExisting` assumes that renaming or
truncating the old file succeeds.

### Channels, Vct and the other clients

`Channels` numbers the requests made (`made`, history) and keeps one slot per
channel in either direction. The daemons are reduced to what a client
sees of them; `Pkgd` and `Configd` model them in full. Of pkgd that is the roots
and what they need (`Requires`): an install adds a root, a removal drops one and
is answered "ok" although the package stays installed where another root needs
it, a refusal may come under the name of a dependency. Of configd it is the last
accepted value of each key. A set of a `Misplaced` key, one whose place in the
registry is below the number of slots, may write a slot and is answered "ok" all
the same; a set of `bake.applied` to "no" writes the `Baked` defaults. Whether
an install resolves, and whether a value is accepted, is left open. The daemons
may answer at any time or never;
a request equal to the last one is answered from the cache (pkgd) or not at all
(configd), whichever channel it came from. A client recognises its answer by
`Matches`, as `Result_match` does. `Sig(req)` is the comparison of the daemons.
The channels of command line, desktop and terminals are separate slots that
lead to the same daemon.

`CommandLine` is a fold over the words. In `Vct` a command is the sequence of
requests it makes and the rendering of the last answer; what it prints is
reduced to its form ("text", "json", "broken" where the JSON does not parse),
whether it reads as success, the return code, and the notification it posts.
The user types any of `CommandLines`.

`LzWatch` runs round after round and handles the request report each time,
whether it is new or not, as the code does. `SettingsDialog` asks on the GUI
thread: while it waits, `GuiFree` stops the launcher, which is the case in the
code. In `Launcher` a second click starts a second chain of polls (`chains`).
`Tty` drops what does not fit its buffer, the last line included.

### The desktop

All handlers of the desktop, timers, signal handlers and queued calls, run one
after the other on one entrypoint (`sponge-de/main.cc:66-1040`, inside
`Libc::with_libc`), so each is one step; comments that speak of two threads
describe an older design. A signal handler only reads and queues, and what it
queued may be applied after a later poll. The scenes of `Desktop` ("notes",
"themes", "panels", "windows", "keys") share no state, so that each behaviour
plays one of them and no interleaving is lost.

`Notifications` counts time in sweeps; its list is a function from the ids,
which grow, so the oldest entry is the one with the least. `HandleExpiry` compares the timer's time
with stamps that count from the first notification (`SinceFirst`). In
`Appearance` settings change at any time; sponge_themed and the bridge read
first and register after (`missed` is history: a change fell between). Of a
panel's keys the height is modelled; position, widgets and clock format take
the same way. `de.default` is the pointer `_default_panel`. In `Windows` a
window has a vertical place and may fill the screen. `Recomputed` is the
tracking of one window, with the inference of "maximized" from its size,
`Updated` the filter that writes rules only when they were the same for two
polls; `Placed` is the layouter (external). In `Shortcuts` event_filter
(external) counts presses per action; that its serial only grows is an
assumption (`shortcut_controller.cc:652-654`).

## 3. The runs

| run | question | distinct states |
|---|---|---|
| `supervisor` | the reports agree with the phase; grace and settle windows as an observer counts them; liveness under a ticking timer | 2,535 |
| `takeover` | order of the display's owners, every kill reaches every child, the desktop comes back | 39,565 |
| `resolver` | order, verdict and termination on every graph of 3 packages with up to 2 dependencies out of 4 names | 84,036 |
| `pkgd` | the properties of the package daemon, with restarts, failing writes, a seeded profile and an unresolvable root | 1,569,715 |
| `configd` | validity, slots, watchers, refinement of `ConfigStore` | 262,424 |
| `logdisk` | cursors, order, cap and drain of the log sink | 592,688 |
| `clients` | truth of what a client tells, and liveness of each | 561,446 |
| `desktop` | agreement of what is shown with what is set | 531,084 |
| `pkgd_torn`, `pkgd_groups`, `configd_set`, `desktop_panels` | one statement of the repository's texts each, found violated | section 5 |

**What they show.** `supervisor`: a kill is preceded by a whole grace
window of faulted ticks of the current NOMINAL phase; a console is taken down
only after its hold or after a settle window; a fault that lasts is shown again
and again, a recovery that lasts ends in NOMINAL. `takeover`: console and
desktop share the display at most while the sandbox has yet to read the
desktop-less configuration, and never on the way back. `pkgd`: the
invariants of section 1 at every idle moment, over every sequence of requests,
restarts, budgets and failed writes; a restart brings back what the latest save
stored, with the one exception of an emptied set, which is seeded again; an
install starts nothing that does not fit by itself, in plans that start two
packages (that both fit together is not so, see section 5); what a duplicate is
told about the installed set and the running set is still true. `configd`: the abstract store, through crashes and failed writes at every
point. `logdisk`: no sequence of lines, overflows, drains, ticks inside drains,
rotations and failures takes the cursors out of the buffer or the count of the
file's bytes beyond the cap; what is lost or reordered is so by overflow, a file
that cannot be had, a line logged during a batch or a batch taken in several
writes, and by nothing else; only the last takes the file beyond its cap, by
less than the size of the buffer; a pending byte leaves the buffer.
`clients`: although answers carry no number, a package vct calls installed is,
one it calls removed is no root any more, a value it calls set is stored, unless
another client asked for the opposite or the key is one configd may take for a
slot; `--manual`
installs only after the answer to its own question; whatever the daemons do, no
client waits for ever; menu and divergence report catch up. `desktop`: no
notification overstays; popover, theme, decorations, panels, background, rules
and bindings come to agree with what was asked for; the place a window is parked
at is not taken for the place to restore it to, but for windows that get a new
title while parked. Whether the default panel is among those shown is left open
where the list has others and not it: header and code disagree (section 5).

**Bounds, and why they are enough.** *Supervisor*: deadlines of two to four
ticks that are not multiples of the poll period, so that rounding shows; skip
counts on both sides of the threshold; three children, one of them excused for
exiting; kill versions modulo 2, or 5 with the sandbox. A wrap is reached in
both. *Takeover*: `ConsoleLag < SettleTicks`. The code relies on that (it waits
a settle window, not for an acknowledgement), so it is an assumption of the
run: a console that is late by more than a settle window does meet the desktop.
`SandboxLag` may exceed the phases. *Pkgd*: five packages and a missing name
give a dependency that is shared, autostarted, missing, a driver, a group of
two, an unreadable quota, and quotas of which, with the larger budget, each fits
and two do not fit together; `MaxPackages` is 5, the number of names that can be a root, so
that a full array never turns one away. The file may hold a root that no longer
resolves. *Configd*: two flat keys below the panel slots' count
(so that the confusion of indices arises) and the sentinel; three panel keys for
two slots (so that the pool overflows); bake lines with an unknown key, an
invalid value and a key that needs a slot; values that one key accepts and
another does not. Only the last answer is kept. While the daemon is down the
broadcast keeps its last value, for the sake of the refinement: the relay does.
*Logdisk*: a buffer of eight bytes and lines of up to two, so that the
assumption that a line is at most a quarter of the buffer is just met; five
lines overflow the buffer and move its rest to the front; a cap one byte above
the buffer makes nearly each batch rotate. *Clients*: two clients at a time, in
five pairs of clients that change what the other one sees; a client begins something when
fewer than two requests were made, and --manual may add a third, so that an
answer may be the answer to the request before; polls are one or two (60 in the
code): what matters is whether the answer comes before or after the last. An
application and the library it needs, both roots or none at the start
(`Restored`), so that a removal may leave the library in place; a plain flat
key, a misplaced one and a slot; values that are accepted and that are not, and
the reset. *Desktop*: three posts, a
time to live of two sweeps, a daemon that starts at once or late; three changes
of settings, lists with and without the default panel, a theme without colour
and one without a file; two windows and four acts; two values of the bindings,
one of which binds a key to two actions, and three presses. `MaxRequests`,
`MaxEdits`, `MaxClicks`, `MaxTime`, `MaxPosts`, `MaxChanges`, `MaxActs`,
`MaxBindings`, `MaxPresses`, `MaxLines`, `Companies`, `Scenes` and
`WritesTried` are the bounds.

**Fairness.** *Supervisor*: weak fairness of the tick. The timer is
`trigger_periodic` and independent of the supervised subtree. Nothing is
assumed of the reports. *Takeover*: in addition, that the sandbox, the console
and the supervisor's report handler run when they were signalled; each has a
thread of its own. Nothing is assumed of the children. *Resolver*: the loop
goes on. *Logdisk*: the tick, which is a periodic timer, and the
entrypoint goes on: the file system answers or refuses. *Clients*: each process
that has something to do is scheduled, and the GUI thread serves its timers;
nothing of the daemons and nothing of the user. *Desktop*: timers fire and
daemons that were signalled run; nothing of the signals to the desktop, its
polls are enough. The other runs assume nothing.

The deadlock check is off where the system may stop: `resolver` ends, and in
`logdisk`, `clients` and `desktop` the bounds of the user's acts end.

## 4. The proofs

Proved by `tlapm`, for every value of the constants that meets the named
assumptions of the modules (`PolicyAssumption`, `TakeoverAssumption`,
`RepositoryAssumption`, `DeploymentAssumption`, `ResolverAssumption`,
`RegistryAssumption`, `BakeAssumption`, `LogdiskAssumption`,
`ChannelsAssumption`, `VctAssumption`, `NotificationsAssumption`,
`WindowsAssumption`, ...), which TLC evaluates in the runs:

| theorem | of | further hypotheses |
|---|---|---|
| `TypeCorrect`, `PhasesBoundedHolds`, `ArmedOnlyInConsoleHolds`, `DesktopConfigHolds`, `BaselineStaysZeroHolds` | `Spec` of `Supervisor` | |
| `KilledOnlyAfterHeldFaultHolds`, `ContainedOnlyAfterSettlingHolds`, `ConsoleReleasedForAReasonHolds` | `TimedSpec` of `SupervisorTiming` | |
| `TakeoverImplementsSupervisor` | `TakeoverSpec` | |
| `DisplayChangesHandsInOrder` | `TakeoverSpec` | `AllPublished`, `ConsoleLag < SettleTicks` |
| `EveryConfigRestartsAll` | `TakeoverSpec` | `AllPublished`, `KillModulus > SandboxLag + 1` |
| `PlanIsInOrder`, `VerdictIsTrue` | `ResolverSpec` | |
| `RunningIsInstalledHolds`, `AutostartRunsHolds`, `PublishedAgreesHolds`, `NothingIsStoppedHolds`, `RestartBringsBackHolds`, `OnlyAutostartCollidesHolds` | `PkgdSpec` | |
| `InstalledIsNeededHolds` | `PkgdSpec` | `ResolverIsRight` |
| `ReplayIsTrueHolds` | `PkgdSpec` | `ResolverIsRight`, `ProfileIsLoadable` |
| `InstallsAreAdmittedHolds` | `PkgdSpec` | `PlansAreSequences` |
| `ConfigdTypeCorrect`, `ValuesAreValidHolds`, `SlotsAreSoundHolds`, `WatchersAgreeHolds` | `ConfigdSpec` | |
| `ImplementsHolds` | `ConfigdSpec` | `Quoted = {}` |
| `LogdiskInvariant`, `LogdiskCursors`, `LogdiskCap`, `LogdiskTypes`, `LogdiskFifo` | `LogdiskSpec` | |
| `ClaimIsTrueHolds`, `ManualPlansFirstHolds` | `ClientsSpec` | |
| `NothingOverstaysHolds`, `RestoreTargetHolds` | `DesktopSpec` | |

Every invariant that a passing run checks, and every action property, is thereby
proved. `PhasesBounded`, `ArmedOnlyInConsole`, `BaselineStaysZero`,
`RunningIsInstalled`, `AutostartRuns`, `OnlyAutostartCollides`, `ConfigdTypeOK` and `LogdiskTypeOK` are
proved and in no run.

**Supervisor.** `PhasesBounded` is not inductive: a phase may be left only
because a window has elapsed, and flapping restarts the windows. `PhaseInv`
(with `HeldBy`) adds what makes it so: in CONTAIN and CONSOLE the age of the
phase is at most its deadline or, while a healthy run shorter than a settle
window is under way, at most its deadline plus that run and one tick. The two
display properties and the baseline are proved together in `DisplayInv`, since
each action touches all three. `TimedInv` ties the observer's counts to the
supervisor's ages from below: in NOMINAL a running fault age is below the
observed fault run, and during a healthy run the healthy age is at most the
observed one. The timing theorems then follow from the guards of `TickKill`,
`TickContained` and `TickConsoleHealed`.

**Takeover.** Each step of the composition is a step of `Supervisor` or a
stutter: the relay, the sandbox, the console and the children touch none of its
variables, and `Takeover` gives it reports that `Spec` allows. What is proved of
`Spec` is cited from there. `ConsoleInv` is the argument of the code's comment
made exact. A console that still has its session in RELEASE is late by at least
the age of the phase (`phaseAge <= consoleLate`), so it is gone when the settle
window is over; that is where `ConsoleLag < SettleTicks` is needed. Without
`AllPublished` a template that is too long would leave the old configuration
in force. `VersionInv` counts how far the published version is ahead of the one
the sandbox has: at most as many steps as ticks it is late, plus one. With more
values than that, a version that wraps does not meet the one it replaces
(`KillModulus` is 2^32 in the code).

**Resolver.** `ResolverInv` says of the search at each step: while it goes on,
or when it has succeeded, the plan is in order and lists none twice, each
package on the stack waits for the one above it, every dependency it is past is
planned or is that one, and all of it is needed by the root, which is at the
bottom of the stack or planned (`Progress`); when it has failed, a missing name
or a cycle is really there (`Sound`). From the empty stack it follows that the
plan is closed and hence `Needs` (`PlanIsComplete`), and from the order that
nothing in it depends on itself. This is induction over the steps of
`ResolverSpec`. The function `Resolve`, which runs the same steps to their end
inside one step of `Pkgd`, is a recursive definition, and that it computes what
the steps do is induction over data: the theorems of `Pkgd` that depend on it
have it as the hypothesis `ResolverIsRight`, which TLC evaluates for the
repositories of the runs (`ResolverAssumption` in `MCPkgd`).

**Package daemon.** `Lifecycle` is the conjunction of `RunningIsInstalled` and
`AutostartRuns`: a step that re-derives the installed set re-derives the running
set from it (`RederivedLifecycle`), and `launch` adds an installed package only.
Theorems without hypothesis hold whatever the resolver returns.
`PublishedAgrees` is inductive by itself, by one lemma for the steps that
publish and one for those that change nothing that was published.
`RestartBringsBack` rests on `HeldIsStored`: what is to be brought back is what
the file reads as; `held` is given up as soon as the file may be cut. `OnlyAutostartCollides` is
inductive because the running set grows by autostarted packages and by what the
gate of launch lets through (`LaunchGate`), and the groups are fixed. `Derived` (installed is what the roots resolve
to), `RootsIn` (the roots in memory and in the file are names) and a right
resolver give `InstalledIsNeeded`. `ReplayIsTrue` needs more than one expects:
an answer "ok" to an install says that the package is installed, but
`_add_root` ignores a root that finds the array full. `RootIsAdded` shows by
counting that a full array of distinct loadable roots lists all that can be
loaded; this is why the profile must list loadable packages once each
(`ProfileIsLoadable`). A profile that does not can fill the array with names
that resolve to nothing. For `InstallsAreAdmitted`, `NothingRefused` says what a
walk without refusal has seen (its least deciding place exists by `LeastOf`),
and `InstallStarts` that an install starts exactly what its plan would start.

**Configuration daemon.** The inductive invariant `Sound` has four parts: the
memory (typing, values accepted, slots distinct and within the pool, a value of
a panel key only with a slot), the file (the same, which is what makes a start
sound), what watchers were told, and control (which stage has which job). The
part about the file is stronger than the property: without "a panel key with a
value in the file has a slot in the file", a restart could bring back a value
without slot, and a later slot for it would show an old value.

`ImplementsHolds` is the refinement of `ConfigStore`, under the hypothesis that
no value has a quotation mark in it (`Quoted = {}`): without the hypothesis the
store loses such a value (section 5). Its invariant `Underway` says what the
memory is between two broadcasts: the abstract state with a part of the baked
lines applied (`PartlyBaked`: for each key, the last valid line so far), or, at
the write, a complete `Baked` or `OneKeySet` of it. What the change starts from
(`Base`) is the stored map during a start and the broadcast otherwise.
`BakingStarts`, `BakingGoesOn` and `BakingEnds` carry the baking, so that no
induction over the lines is needed; `AddressedIsNotReadOnly` shows that a
request never reaches bake metadata although it may write to another key than
it names. Then `BootPlain` is `Restart`, `Saved` is `Restart` or `Change`,
a crash is `Crash`, `CrashInRestart` or not seen, and nothing else is seen.

**Log sink.** `LogdiskInv` is typing, the cursors and the file. `CursorsInOrder`
is not inductive: overflow moves the front up and the end down by the same
amount, and only if the front was at most at the half (`CursorInv`), and a line
is at most a quarter of the buffer (`LogdiskAssumption`, which the sizes of the
code meet), they do not cross. `RoomIsMade` is that lemma; it also says that
`_append_locked` never refuses a line, so the early returns of the code are not
reached. `FileInv` says that a batch
that was let through fits: what is still to be written and the handle's count
together keep within the cap; and that the count is the size of the file for
as long as `whole` holds. A write that lands too far lands at the count plus what
the batch has written, which is less than the buffer beyond the cap. `FifoInv` adds why a tick dispatched inside a
drain starts no second one (`ioActive`), and that while nothing has disturbed
the order the range of the running drain is all that is pending.

**Clients.** `ClientInv` is about the channels (`ChannelInv`) and about the
command (`VctInv`). An answer that lies on a channel of the command line is
still so - the package has a root that needs it, is no root any more, the key has
the value, the reset keys theirs - or some other client has asked for the
opposite since (`AnswerInv`),
and so is the one pkgd would replay (`LastInv`); an answer without number is
therefore no lie even when it is an old one. A request of the command line
stays in its slot while it waits and after (`MailInv`, `PollInv`, `DoneInv`),
for the slot is its own and the commands come one after the other. `RunInv`
says that the second request of a plan follows the answer to the first. The
other clients are cases of one lemma: what they do keeps `ClaimsKept`.

**Desktop.** `NotifierInv`: a stamp counts from the first notification, the
sweep from the daemon's start, and the first is never the later one; so the
stamp of an entry is at most the time it was shown, and a sweep can be early
but not late. `WindowsInv`: whoever is parked and was not lost by retitling is
known to the tracking and to the rules written last, each with a place on the
screen; `Recompute` keeps that for any windows.

**Left to TLC**: liveness (`RecoveryConverges`, `DesktopComesBack`,
`ResolutionEnds`, `PendingIsDrained`, `ClientsComeBack`, the convergence of the
desktop, ...), which the prover cannot do; and what the recursive function
`Resolve` computes, which the theorems have as hypotheses.

## 5. Where code and text disagree

Each of the first four is a run that finds the statement violated.

- `pkgd_torn`: the store is truncated before it is written; a failed write
  loses all roots, not one mutation (`sponge_pkgd/main.cc:2987`).
- `pkgd_groups`: `_do_install` does not ask for the exclusive group
  (`sponge_pkgd/main.cc:1656-1768`), though `src/docs/12-package-format.md:102`
  and `:275-281` say that installs are refused. The shipped `fb_boot` and
  `fb_vesa` are both autostarted in the group `fb`, and both run after two
  installs. The check meant for it stands in the replay of the last result
  (`:2730-2757`).
- `configd_set`: with n slots in use, a set of one of the first n flat keys is
  written to a slot and answered "ok" under the flat key's name
  (`sponge_configd/main.cc:1525`).
- `desktop_panels`: the pointer to the default panel survives the panel;
  a key of a panel that is not shown is applied to it
  (`sponge-de/panel/panel_collection.cc:344`, `panel_collection.h:136`).

Met while modelling, without a run of their own. Supervisor and daemons:

- `sponge_supervisor/main.cc:757`: an exited child that stays in the report is
  meant to be counted once (`:246-255`). The baseline is assigned only when
  nothing exceeds it, so it stays 0 (proved) and one exit latches a fault.
- `sponge_supervisor/main.cc:786`: console and desktop may overlap at takeover,
  until the sandbox has read its configuration; `sponge_console/main.cc:20-25`
  says never.
- `sponge_pkgd/main.cc:3339`: the running total of the admission gate is decremented but never
  compared, though the comment at `:1676-1678` says that "a chain of autostart
  deps is checked against what each leaves the next one"; `_admits` reads the
  report again. Two autostarted packages of one plan are let in although only
  one of them fits; that each fits by itself is `InstallsAreAdmitted`.
- `:3053`: an emptied root set is seeded again at the next boot, though
  `:3045-3047` says that removals stay; `RestartBringsBack` states it with that
  exception.
- `:2744`: a second launch is answered "ok" from the cache, not
  already-running as `sponge_pkgd/README.md:67-71` says.
- `:1666`: the answer to an install may carry version and launcher entry of
  another package: a reference into an array that is rewritten meanwhile.
- `:1729`: a refusal is reported under the dependency's name, which
  `backend_client.cc:24-26` does not recognise.
- `sponge_configd/main.cc:1505`: a refused set leaves its per-panel key visible
  and its slot used; `sponge_configd/README.md:100-102` says only after a
  successful write.
- `:1940-1956`: values are stored unescaped. With `Quoted` non-empty
  `Implements` is violated: after a restart the setting, or all of them, are
  back at their defaults.
- `:1415`: a request equal to the last one of the *other* channel is dropped
  without an answer.
- `sponge_configd/README.md:97` gives a ceiling of 29 per-panel keys; the code
  has 32, the templates have an array of their own.

Log sink, notifier, watcher:

- `sponge_logdisk/main.cc:458`: a write goes to `_file_bytes + off`, and both
  count what the batch has written (`:478-479`). When the file system takes a
  batch in several writes, all but the first land too far: the file has a hole,
  is longer than `_file_bytes` and may be longer than the cap of `:446`, and the
  next batch overwrites its end.
- `sponge_logdisk/main.cc:547`: what is appended during a drain is forgotten
  and not counted, and a compaction moves bytes under a read the comment calls
  stable; `:337`: on overflow the newest bytes are overwritten, the comment
  says the oldest; `:259`: work is signalled to a receiver nobody waits on.
- `sponge_notifier/main.cc:391`: stamps count from the first notification
  (`:230-237`), the sweep from the timer's start: a notification expires early
  by the time the first one came late, `src/docs/05-sponge-de.md:112`
  notwithstanding.
- `lz_watch/main.cc:181`: each poll carries out the last request again; files
  above 8192 bytes read as empty.
- `sponge_themed/main.cc:268`, `sponge_decorator_bridge/main.cc:444`: a change
  between the first read and the registration is missed until the next one.

Clients:

- `vct`: JSON of long lists, of `update` and of the Leitzentrale's operations is
  cut or left open (`src/docs/06-vct.md:47`, `:561-577`, `:633`); `vct shutdown
  --help` powers off and `vct leitzentrale --help` enables it (`:422`, `:45`).
- `vct/commands.cc:893`: "Removed package" is printed for each removal that pkgd
  accepts. `_do_remove` (`sponge_pkgd/main.cc:1771-1810`) drops a root, and the
  package stays installed, and running, where another root needs it.
- `backend_client.cc:52-56`: an error carries no value, so the error of an
  earlier set of the same key is taken for the answer.
- `vct_tty`: the last line the shell's script waits for is dropped with the
  rest when the buffer is full.
- `sponge-de/launcher`: a launch may be reported as a problem although it
  worked, when the answer comes after the last poll; `launcher_state` is not
  told when the popup is opened by the panel's button or closed by a click
  outside. `config/settings_controller.cc:133` opens its channel outside the
  `try`.
- The panel's context menu writes `panel.default.*`, where the comment at
  `panel_widget.cc:799-803` speaks of the flat keys.

Desktop:

- Rules may lack a retitled window for good: a click publishes rules without
  noting what it published (`tasklist_controller.cc:206-215`). Un-maximizing a
  window that fills the screen is undone by inference; the place to restore to
  is lost when a parked window changes its title. `ShowDesktop` never restores
  from the menu, as it is made anew for each call (`show_desktop.h:17`).
- Per-panel keys are emitted at each poll (`config_controller.cc:564-571`), so
  a local change of such a panel is overwritten a quarter of a second later;
  the body of the "config applied" notification is always empty (`:652-665`).
- Only one poster's requests are routed to the notifier
  (`src/repos/sponge/run/sponge-de-workflow.run:251`).
- A non-empty `panel.ids` without "default" destroys the default panel, though
  `panel_collection.h:121-124` says that it is "ALWAYS present even when absent
  from the comma-list" and `:154` that the set always contains it. The comments
  of `panel_collection.cc` say that it may be destroyed. `PanelsFollow` takes no
  side.
- With `panel.ids` empty a desktop in collection mode has no panel
  (`panel_collection.h:14` says the default), and flat keys never reach its
  default panel; the tasklist then has no widget (`sponge-de/main.cc:768-780`,
  `:1020-1023`).
- `shortcut_controller.cc:421-431`: a key that is refused leaves a part of its
  shortcut in the configuration, where the text says the line is skipped. What
  configd accepts never gets there.

## 6. What is not modelled

- *Text*: XML and JSON scanning, number formatting, wording, logging, drawing,
  Qt layout, the parsing of theme files. Where a conversion matters (rounding
  of deadlines, a quoted value, a text too long to publish, JSON left open) it
  is modelled by what it does. String truncation (`String<128>`, `String<160>`
  of the signatures) is not. The supervisor's `text_scan.h` is such text: its
  result is the report record of `Supervisor`.
- *Genode*: report_rom, init, timer, event_filter, layouter and file systems
  are not in the repository and modelled from how the code uses them.
- *In modelled components*: the console's menu and input; the desktop's health
  and diagnosis displays; of a panel all keys but the height; the "config
  applied" notification; the version and launcher entry in pkgd's answers.
- *Not at all*: `sponge_files`, `sponge_debug`, probes, run scenarios, host
  tools. They keep no state another component depends on.
- *Composition*: clients meet daemons reduced to their answers (`Channels`),
  not `Pkgd` and `Configd` themselves: the product is out of TLC's reach. What
  they reduce is named there: the store, restarts, budgets and groups are
  choices of the answer, each name's plan is given (`Requires`), the full root
  array and the contention for slots are left out, and a misplaced key may or may
  not be taken for a slot. A refused install or set changes nothing.

## 7. What could come next

1. The refinement of the daemons of `Channels` by `Pkgd` and `Configd`.
2. `Appearance` and `Shortcuts`: safety lemmas that their convergence rests on.
3. Larger companies of clients, and restarts of the daemons under them.
4. The supervisor's text scan as pure operators against a reference.
