--------------------------------- MODULE Vct ---------------------------------
(***************************************************************************)
(* vct, the command line of Sponge OS (repos/sponge/src/vct).  vct is      *)
(* started with the words of a command, makes the requests the command     *)
(* needs one after the other, prints one answer and exits.                 *)
(*                                                                         *)
(* A command is a sequence of requests and the rendering of the last       *)
(* answer.  What it prints is reduced to its form ("text", "json", or      *)
(* "broken" for JSON that does not parse), to whether it reads as a        *)
(* success, and to the notification it posts.                              *)
(***************************************************************************)
EXTENDS Channels, CommandLine

CONSTANTS
    CommandLines,  \* what the user may type
    PollMax        \* how often a client looks for its answer

ASSUME VctAssumption == PollMax \in Nat \ {0}

VARIABLES
    vct,     \* the process
    lzModel  \* the lz_model report: "none", "clean" or "diverged"

Out(form, ok, rc) == [form |-> form, ok |-> ok, rc |-> rc, post |-> ""]
Text(ok)     == Out("text", ok, IF ok THEN 0 ELSE 1)
Render(a, ok) == [Text(ok) EXCEPT !.form = IF a.json THEN "json" ELSE "text"]
Post(out, title) == [out EXCEPT !.post = title]

(* The JSON of a list is put together in a buffer; what does not fit is    *)
(* left out, the closing brackets first.                                   *)
RenderList(a) == {Render(a, TRUE)}
                 \union (IF a.json THEN {Out("broken", TRUE, 0)} ELSE {})

-----------------------------------------------------------------------------
(* Commands that print and exit                                            *)

HelpOutcomes    == {Text(TRUE)}
VersionOutcomes == {Text(TRUE)}

(* InitStateReader: the state report of init, read until it names a child. *)
StateReports == {"none", "no children", "children"}
Available(s) == s # "none"

StatusOutcomes(a) ==
    {IF a.resources /\ ~Available(s) THEN Text(FALSE) ELSE Render(a, TRUE) : s \in StateReports}

ComponentListOutcomes(a) ==
    {IF Available(s) THEN Render(a, TRUE) ELSE Text(FALSE) : s \in StateReports}

(* for_each_repo_pkg, load_repo_pkg: an index that is there and parses.    *)
SearchOutcomes(a) ==
    IF a.positional = "" THEN {Text(FALSE)}
    ELSE {Render(a, FALSE)} \union RenderList(a)

(* A package that is current leaves its JSON row open.                     *)
UpdateOutcomes(a) ==
    {Render(a, FALSE)}
    \union (IF a.json THEN {Out("json", TRUE, 0), Out("broken", TRUE, 0)} ELSE {Text(TRUE)})

(* bake list and the refusals of bake show and bake reset.  The manifest   *)
(* of the media is missing, of another profile, or of the one asked for.   *)
Manifests == {"missing", "other", "selected"}

ProfileSelected(a, m) == m = "selected" \/ (m = "other" /\ a.profile = "")

BakeListOutcomes(a) == {Render(a, TRUE)}

BakeRefusals(a) ==
    {IF m = "missing" THEN Render(a, FALSE) ELSE Text(FALSE)
        : m \in {n \in Manifests : ~ProfileSelected(a, n)}}

BakeShowOutcomes(a) == BakeRefusals(a) \union RenderList(a)

DiffOutcomes(a) == {Render(a, lzModel # "none")}

(* CommandRouter::dispatch: what is not a command is answered with help.   *)
Commands == {"status", "help", "version", "install", "remove", "launch", "shutdown",
             "reboot", "search", "update", "list", "config", "bake", "theme",
             "leitzentrale"}

Command(a) ==
    IF a.subcommand = "component" /\ a.positional = "list" THEN "component"
    ELSE IF a.subcommand \in Commands THEN a.subcommand ELSE "help"

-----------------------------------------------------------------------------
(* The requests of a command                                               *)

Pkg(op, name)        == [channel |-> "request", op |-> op, name |-> name, value |-> NoValue]
Conf(op, name, value) ==
    [channel |-> "config_request", op |-> op, name |-> name, value |-> value]
Lz(op) == [channel |-> LzChannel, op |-> op, name |-> "", value |-> NoValue]

(* Mutant of InstallRequests: the plan is shown after the install. *)
InstallsThenExplains(a) ==
    IF a.positional = "" THEN <<>>
    ELSE IF a.manual THEN <<Pkg("install", a.positional), Pkg("explain", a.positional)>>
    ELSE <<Pkg("install", a.positional)>>

InstallRequests(a) ==
    IF a.positional = "" THEN <<>>
    ELSE IF a.manual THEN <<Pkg("explain", a.positional), Pkg("install", a.positional)>>
    ELSE IF a.explain THEN <<Pkg("explain", a.positional)>>
    ELSE <<Pkg("install", a.positional)>>

RemoveRequests(a) == IF a.positional = "" THEN <<>> ELSE <<Pkg("remove", a.positional)>>
LaunchRequests(a) == IF a.positional = "" THEN <<>> ELSE <<Pkg("launch", a.positional)>>
ListRequests      == <<Pkg("list", "")>>

ConfigRequests(a) ==
    IF a.positional = "list" THEN <<Conf("list", "", NoValue)>>
    ELSE IF a.positional = "" THEN <<>>
    ELSE IF a.positional2 = "" THEN <<Conf("get", a.positional, NoValue)>>
    ELSE <<Conf("set", a.positional, a.positional2)>>

ThemeRequests(a) ==
    IF a.positional = "apply" /\ a.positional2 # ""
    THEN <<Conf("set", "theme.active", a.positional2)>> ELSE <<>>

LzOff  == {"off", "disable", "false"}
LzSync == [word \in {"keep", "revert"} |-> IF word = "keep" THEN "snapshot" ELSE "revert"]

LeitzentraleRequests(a) ==
    IF a.positional = "status" THEN <<Conf("get", "leitzentrale.enabled", NoValue)>>
    ELSE IF a.positional \in LzOff THEN <<Conf("set", "leitzentrale.enabled", "false")>>
    ELSE IF a.positional = "" THEN <<Conf("set", "leitzentrale.enabled", "true")>>
    ELSE IF a.positional \in DOMAIN LzSync THEN <<Lz(LzSync[a.positional])>>
    ELSE <<>>

(* bake reset, for a media whose profile is selected. *)
BakeRequests(a) ==
    IF ~a.help /\ a.positional = "reset" THEN <<Conf("set", "bake.applied", "no")>> ELSE <<>>

Requests(a) ==
    LET c == Command(a)
    IN  CASE c = "install"      -> InstallRequests(a)
          [] c = "remove"       -> RemoveRequests(a)
          [] c = "launch"       -> LaunchRequests(a)
          [] c = "list"         -> ListRequests
          [] c = "config"       -> ConfigRequests(a)
          [] c = "theme"        -> ThemeRequests(a)
          [] c = "leitzentrale" -> LeitzentraleRequests(a)
          [] c = "bake"         -> BakeRequests(a)
          [] OTHER              -> <<>>

(* How a command without a request ends, or one that refuses to make it.   *)
BakeOutcomes(a) ==
    IF a.help \/ a.positional = "" THEN {Text(TRUE)}
    ELSE IF a.positional = "list" THEN BakeListOutcomes(a)
    ELSE IF a.positional = "show" THEN BakeShowOutcomes(a)
    ELSE IF a.positional = "reset" THEN BakeRefusals(a)
    ELSE {Text(FALSE)}

LocalOutcomes(a) ==
    LET c == Command(a)
    IN  CASE c = "help"      -> HelpOutcomes
          [] c = "version"   -> VersionOutcomes
          [] c = "status"    -> StatusOutcomes(a)
          [] c = "component" -> ComponentListOutcomes(a)
          [] c = "search"    -> SearchOutcomes(a)
          [] c = "update"    -> UpdateOutcomes(a)
          [] c = "bake"      -> BakeOutcomes(a)
          [] c = "leitzentrale" /\ a.positional = "diff" -> DiffOutcomes(a)
          [] OTHER           -> IF Requests(a) = <<>> THEN {Text(FALSE)} ELSE {}

-----------------------------------------------------------------------------
(* The answer of a command                                                 *)

RenderExplain(a, ok) == IF ok /\ a.json THEN RenderList(a) ELSE {Render(a, ok)}

RenderManual(ok) == {Text(ok)}

RenderInstall(a, ok) ==
    IF ok /\ a.json THEN RenderList(a)
    ELSE {IF ok THEN Post(Text(TRUE), "install completed") ELSE Render(a, FALSE)}

RenderRemove(a, ok) ==
    IF ok /\ a.json THEN RenderList(a)
    ELSE {IF ok THEN Post(Text(TRUE), "remove completed") ELSE Render(a, FALSE)}

RenderLaunch(a, ok) == {Render(a, ok)}
RenderPackages(a, ok) == IF ok THEN RenderList(a) ELSE {Render(a, FALSE)}

RenderConfigValue(a, ok) == {Render(a, ok)}
RenderConfigList(a, ok)  == IF ok THEN RenderList(a) ELSE {Render(a, FALSE)}

RenderTheme(a, ok) == {Render(a, ok)}
RenderBakeReset(a, ok) == {Render(a, ok)}

(* leitzentrale: any answer to "status" is shown; the JSON of a sync       *)
(* operation that worked is left open.                                     *)
RenderLeitzentrale(a, ok) ==
    IF a.positional = "status" THEN {Render(a, TRUE)}
    ELSE IF a.positional \in DOMAIN LzSync /\ ok /\ a.json THEN {Out("broken", TRUE, 0)}
    ELSE {Render(a, ok)}

(* What is printed for the answer to the request of operation op. *)
Rendered(a, op, ok) ==
    LET c == Command(a)
    IN  IF op = "explain" THEN RenderExplain(a, ok)
        ELSE
        CASE c = "install"       -> IF a.manual THEN RenderManual(ok) ELSE RenderInstall(a, ok)
          [] c = "remove"        -> RenderRemove(a, ok)
          [] c = "launch"        -> RenderLaunch(a, ok)
          [] c = "list"          -> RenderPackages(a, ok)
          [] c = "config"        -> IF op = "list" THEN RenderConfigList(a, ok)
                                    ELSE RenderConfigValue(a, ok)
          [] c = "theme"         -> RenderTheme(a, ok)
          [] c = "bake"          -> RenderBakeReset(a, ok)
          [] c = "leitzentrale"  -> RenderLeitzentrale(a, ok)

(* ... and when no answer came: install --manual and --explain tell so in  *)
(* words.                                                                  *)
Unanswered(a, op) ==
    IF op = "explain" \/ (Command(a) = "install" /\ a.manual) THEN Text(FALSE)
    ELSE Render(a, FALSE)

-----------------------------------------------------------------------------
(* The process                                                             *)

IsPower(a) == Command(a) \in {"shutdown", "reboot"}
NotRunning == [at |-> "off", args |-> NoArgs, todo |-> <<>>, polls |-> 0, own |-> 0,
               heard |-> 0, out |-> Text(TRUE)]

VctInit == vct = NotRunning /\ lzModel = "none"

(* Main::run *)
StartCommand(tokens) ==
    /\ vct.at = "off"
    /\ LET a == Parse(tokens)
       IN  vct' = [NotRunning EXCEPT !.at = "run", !.args = a, !.todo = Requests(a)]
    /\ UNCHANGED <<channelVars, lzModel>>

Exit(out) == vct' = [vct EXCEPT !.at = "done", !.todo = <<>>, !.polls = 0, !.out = out]

FinishLocally ==
    /\ vct.at = "run" /\ ~IsPower(vct.args)
    /\ \E o \in LocalOutcomes(vct.args) : Exit(o)
    /\ UNCHANGED <<channelVars, lzModel>>

(* PowerCommand: the system report is out before anything is waited for.   *)
RequestPower ==
    /\ vct.at = "run" /\ IsPower(vct.args)
    /\ vct' = [vct EXCEPT !.at = "power",
                          !.out = Post(Render(vct.args, TRUE), vct.args.subcommand)]
    /\ UNCHANGED <<channelVars, lzModel>>

(* The machine is still there when the wait is over. *)
PowerUnavailable ==
    /\ vct.at = "power"
    /\ Exit(Post(Render(vct.args, FALSE), vct.out.post))
    /\ UNCHANGED <<channelVars, lzModel>>

Ask ==
    /\ vct.at = "run" /\ vct.todo # <<>>
    /\ LET r == Head(vct.todo) IN Publish(r.channel, r.op, r.name, r.value)
    /\ vct' = [vct EXCEPT !.at = "poll", !.own = Len(made'), !.polls = 0]
    /\ UNCHANGED lzModel

(* ReportRomClient finds a matching result, or the loop of _run_sync_op a  *)
(* result of its operation.                                                *)
Asked == made[vct.own]
Heard == answer[Asked.channel]
Found == IF Asked.channel = LzChannel THEN Heard.op = Asked.op ELSE Matches(Asked, Heard)

TakeAnswer ==
    /\ vct.at = "poll" /\ Found
    /\ IF Heard.status = "ok" /\ Len(vct.todo) > 1
       THEN vct' = [vct EXCEPT !.at = "run", !.todo = Tail(@), !.heard = Heard.asked]
       ELSE \E o \in IF Len(vct.todo) > 1 THEN {Text(FALSE)}
                     ELSE Rendered(vct.args, Asked.op, Heard.status = "ok") :
               vct' = [vct EXCEPT !.at = "done", !.todo = <<>>, !.polls = 0, !.out = o,
                                  !.heard = Heard.asked]
    /\ UNCHANGED <<channelVars, lzModel>>

(* Mutant of PollAgain: the polls are not counted. *)
PollForever ==
    /\ vct.at = "poll" /\ ~Found
    /\ UNCHANGED <<vct, channelVars, lzModel>>

PollAgain ==
    /\ vct.at = "poll" /\ ~Found /\ vct.polls + 1 < PollMax
    /\ vct' = [vct EXCEPT !.polls = @ + 1]
    /\ UNCHANGED <<channelVars, lzModel>>

GiveUp ==
    /\ vct.at = "poll" /\ ~Found /\ vct.polls + 1 >= PollMax
    /\ Exit(Unanswered(vct.args, Asked.op))
    /\ UNCHANGED <<channelVars, lzModel>>

(* init reaps the process. *)
Reap ==
    /\ vct.at = "done"
    /\ vct' = NotRunning
    /\ UNCHANGED <<channelVars, lzModel>>

VctWorks == FinishLocally \/ RequestPower \/ PowerUnavailable \/ Ask \/ TakeAnswer
            \/ PollAgain \/ GiveUp \/ Reap

=============================================================================
