------------------------------ MODULE MCClients ------------------------------
EXTENDS Clients

(* An application and the library it needs. *)
MCPackages    == {"editor", "lib"}
MCRequires    == [p \in MCPackages |-> {p, "lib"}]
MCAutostarted == {"lib"}
MCRestored    == {{}, {"editor", "lib"}}

(* A flat key that may be taken for the slot of another, and one that is   *)
(* not.                                                                    *)
MCMisplaced == {"panel.position"}
MCSlots     == {"panel.default.position"}
MCBaked     == [k \in {"theme.active", Reset} |-> IF k = Reset THEN "yes" ELSE "dim"]

MCCompanies == {{"vct", "tty"}, {"vct", "dialog"}, {"tty", "launcher"},
                {"dialog", "launcher"}, {"vct", "lz_watch"}}

(* One command line of every kind. *)
MCCommandLines ==
    {<<"install", "editor", "-m">>, <<"remove", "lib">>,
     <<"config", "theme.active", "dark">>, <<"config", "panel.default.position", "left">>,
     <<"bake", "reset">>,
     <<"leitzentrale", "keep">>, <<"leitzentrale", "diff">>,
     <<"reboot">>}

Cmd(op, name) == [op |-> op, name |-> name]
MCTtyLines == {<<Cmd("", ""), Cmd("remove", "editor")>>}

(* A plain key, a misplaced one, and the reset; any of them may be refused. *)
MCWritesTried == {Wr("theme.active", "light"), Wr("panel.position", "top"),
                  Wr("bake.applied", "no")}

=============================================================================
