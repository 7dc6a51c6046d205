------------------------------- MODULE Clients -------------------------------
(***************************************************************************)
(* The clients of the two daemons, together: the command line, the         *)
(* launcher and the settings of the desktop, the shells of the terminals,  *)
(* and lz_watch.  They share nothing but the daemons; what one of them     *)
(* asks for is what another one finds changed.                             *)
(***************************************************************************)
EXTENDS LzWatch, Launcher, Tty

CONSTANT Companies   \* bound: which clients work side by side in one behaviour

ASSUME CompaniesAssumption ==
    \A company \in Companies : company \subseteq {"vct", "lz_watch", "dialog", "launcher", "tty"}

VARIABLE users   \* the clients of this behaviour

clientsVars == <<channelVars, vct, lzModel, lzVars, dialog, launcherVars, tty, users>>

ClientsInit ==
    /\ ChannelsInit /\ VctInit /\ LzInit /\ DialogInit /\ LauncherInit /\ TtyInit
    /\ users \in Companies

OthersThanVct      == <<lzVars, dialog, launcherVars, tty, users>>
OthersThanLz       == <<dialog, launcherVars, tty, users>>
OthersThanLauncher == <<vct, lzModel, lzVars, tty, users>>
OthersThanTty      == <<vct, lzModel, lzVars, dialog, launcherVars, users>>

VctRuns      == VctWorks /\ UNCHANGED OthersThanVct
LzWatchRuns  == "lz_watch" \in users /\ LzRound /\ UNCHANGED OthersThanLz
DialogRuns   == DialogWaits /\ UNCHANGED <<launcherVars, OthersThanLauncher>>
MenuRuns     == "launcher" \in users /\ PollInstalled /\ UNCHANGED OthersThanLauncher
LaunchRuns   == PollLaunchResult /\ UNCHANGED OthersThanLauncher
TtyRuns      == TtyWorks /\ UNCHANGED OthersThanTty
DaemonsRun   == DaemonStep /\ UNCHANGED <<vct, lzModel, OthersThanVct>>

(* What the user does.  A client that begins something has Room. *)
UsesVct ==
    /\ "vct" \in users /\ Room
    /\ \E tokens \in CommandLines : StartCommand(tokens)
    /\ UNCHANGED OthersThanVct

UsesLeitzentrale ==
    /\ "lz_watch" \in users
    /\ \E f \in Files, t \in Texts : EditModel(f, t)
    /\ UNCHANGED OthersThanLz

UsesSettings ==
    /\ "dialog" \in users
    /\ \/ OpenSettingsDialog
       \/ CloseSettingsDialog
       \/ Room /\ \E w \in TabWrites \union MenuWrites : RequestSet(w)
    /\ UNCHANGED <<launcherVars, OthersThanLauncher>>

UsesLauncher ==
    /\ "launcher" \in users
    /\ \/ ToggleLauncher \/ PanelButton \/ ClickOutside \/ DismissTopmost \/ RetryWindowEnds
       \/ Room /\ \E p \in Packages, works \in BOOLEAN : ClickApp(p, works)
    /\ UNCHANGED OthersThanLauncher

UsesTty ==
    /\ "tty" \in users
    /\ (Room /\ \E commands \in TtyLines : WriteLine(commands)) \/ ReadLine
    /\ UNCHANGED OthersThanTty

ClientsNext == VctRuns \/ LzWatchRuns \/ DialogRuns \/ MenuRuns \/ LaunchRuns \/ TtyRuns
               \/ DaemonsRun \/ UsesVct \/ UsesLeitzentrale \/ UsesSettings \/ UsesLauncher
               \/ UsesTty

(* A process that has something to do is scheduled, and the GUI thread     *)
(* serves its timers.  Nothing is assumed of the daemons, and nothing of   *)
(* the user.                                                               *)
ClientsFairness ==
    /\ WF_clientsVars(VctRuns)
    /\ WF_clientsVars(DialogRuns)
    /\ WF_clientsVars(MenuRuns)
    /\ WF_clientsVars(LaunchRuns)
    /\ WF_clientsVars(TtyRuns)
    /\ WF_clientsVars(LzWatchRuns)

ClientsSpec == ClientsInit /\ [][ClientsNext]_clientsVars /\ ClientsFairness

-----------------------------------------------------------------------------
(* Properties                                                              *)

(* Somebody else than vct asked for this to change. *)
AskedElsewhere(op, name) ==
    \E n \in 1..Len(made) : /\ made[n].channel \notin {"request", "config_request"}
                            /\ made[n].op = op /\ made[n].name = name

(* ... or for something that sets this key: a reset does, and so may a set *)
(* of a misplaced key.                                                     *)
SetElsewhere(key) ==
    \/ AskedElsewhere("set", key)
    \/ key \in DOMAIN Baked /\ AskedElsewhere("set", Reset)
    \/ key \in Slots /\ \E m \in Misplaced : AskedElsewhere("set", m)

HasValue(key, value) == (key \in DOMAIN store /\ store[key] = value) \/ SetElsewhere(key)

(* What vct reports as done is so, as long as no other client of the       *)
(* daemons asked for the opposite: a package it calls installed is; one it *)
(* calls removed is no longer installed for its own sake, and stays only   *)
(* where another root needs it; a value it calls set is the value of its   *)
(* key, unless configd may have taken the key for a slot; a reset has      *)
(* brought back the baked values of the flat keys.  This although answers  *)
(* are recognised by operation and name alone, may be those of an earlier  *)
(* request, and may be late (Result_match::pkg, Result_match::config,      *)
(* backend_client.cc).                                                     *)
ClaimIsTrue ==
    vct.at = "done" /\ vct.out.ok /\ vct.own # 0 /\ vct.heard # 0 =>
        LET r == Asked
        IN  /\ r.op = "install" => r.name \in Installed \/ AskedElsewhere("remove", r.name)
            /\ r.op = "remove"  => r.name \notin roots \/ AskedElsewhere("install", r.name)
            /\ r.op = "set" /\ r.name # Reset =>
                  r.name \in Misplaced \/ HasValue(r.name, r.value)
            /\ r.op = "set" /\ r.name = Reset =>
                  \A k \in DOMAIN Baked \ Slots : HasValue(k, Baked[k])

(* vct install --manual installs only what it has shown the plan of: the   *)
(* install is asked for when the explanation of the same package has been  *)
(* answered, in the same run, with "ok" (InstallCommand::execute,          *)
(* commands.cc).                                                           *)
ManualPlansFirst ==
    [][(/\ vct.at = "run" /\ vct'.at = "poll" /\ vct.args.manual
        /\ made'[vct'.own].op = "install") =>
          /\ vct.own # 0 /\ vct.heard # 0
          /\ Asked.op = "explain" /\ Asked.name = made'[vct'.own].name]_clientsVars

(* Every client comes back from its wait, whether the daemons answer or    *)
(* not: a command ends, a setting is answered, a launch the user clicked   *)
(* is settled, a line of a terminal is replied to (the poll budgets of     *)
(* backend_client.cc and launcher_controller.cc).                          *)
ClientsComeBack ==
    /\ (vct.at = "run") ~> (vct.at = "done")
    /\ dialog.asking ~> ~dialog.asking
    /\ (launch.pending # NoLaunch) ~> (launch.pending = NoLaunch)
    /\ (tty.at # "idle") ~> (tty.at = "idle")

(* The menu comes to show what pkgd announces, again and again, although   *)
(* settings are written on the same thread and it waits with them          *)
(* (LauncherController::poll).                                             *)
MenuFollowsPkgd == []<>("launcher" \in users => menu.apps = Signature(Announced))

(* What `vct leitzentrale diff` shows comes to agree with the files, again *)
(* and again, although only every third round writes the report            *)
(* (Lz_watch::_emit_model).                                                *)
ReportAgrees         == lzModel = ModelReport(model, baseline)
DivergenceIsReported == []<>("lz_watch" \in users => ReportAgrees)

=============================================================================
