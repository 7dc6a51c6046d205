------------------------------- MODULE LzWatch -------------------------------
(***************************************************************************)
(* lz_watch (repos/sponge/src/lz_watch): watches the files of the          *)
(* Leitzentrale's model, reports which of them differ from a baseline, and *)
(* takes a new baseline or restores the old one on request.                *)
(*                                                                         *)
(* A file holds a small text, none, or one longer than MAX_FILE.           *)
(***************************************************************************)
EXTENDS Vct

CONSTANTS
    Files,     \* WATCHED_FILES
    Contents,  \* small texts
    MaxEdits   \* bound: edits made in the Leitzentrale

ASSUME LzWatchAssumption == MaxEdits \in Nat

VARIABLES
    model,     \* the files of the model
    baseline,  \* what was read of each when the baseline was taken
    round,     \* polls since the report was last written
    edits      \* history: edits made

lzVars == <<model, baseline, round, edits>>

Empty   == "empty"
TooLong == "long"
Texts   == Contents \union {Empty, TooLong}

(* _read_file: a missing file and one beyond MAX_FILE read as nothing. *)
ReadFile(content) == IF content \in {Empty, TooLong} THEN Empty ELSE content

Snapshot(m)       == [f \in Files |-> ReadFile(m[f])]
Diverged(m, base) == \E f \in Files : ReadFile(m[f]) # base[f]
ModelReport(m, base) == IF Diverged(m, base) THEN "diverged" ELSE "clean"

LzInit ==
    /\ model \in [Files -> Contents]
    /\ baseline = Snapshot(model)
    /\ round = 0 /\ edits = 0

(* _handle_request, which every round calls: the request that is there is  *)
(* carried out, whether it was before or not.                              *)
LzAnswers(op) ==
    [answer EXCEPT ![LzChannel] = [op |-> op, name |-> "", value |-> NoValue,
                                   status |-> "ok", asked |-> mail[LzChannel]]]

(* _revert: a file that cannot be written is only warned about. *)
Reverts(kept) == [f \in Files |-> IF f \in kept THEN model[f] ELSE baseline[f]]

(* Mutant of LzRound: the report is only written with an answer. *)
LzRoundSilent ==
    /\ round' = (round + 1) % 3
    /\ UNCHANGED <<channelVars, lzModel, vct, model, baseline, edits>>

(* One round of _poll_loop. *)
LzRound ==
    LET op == IF mail[LzChannel] = 0 THEN "" ELSE made[mail[LzChannel]].op
    IN  /\ \/ /\ op = "snapshot"
              /\ baseline' = Snapshot(model)
              /\ UNCHANGED model
           \/ /\ op = "revert"
              /\ \E kept \in SUBSET Files : model' = Reverts(kept)
              /\ UNCHANGED baseline
           \/ op = "" /\ UNCHANGED <<model, baseline>>
        /\ answer' = IF op = "" THEN answer ELSE LzAnswers(op)
        /\ lzModel' = IF op # "" \/ round = 0 THEN ModelReport(model', baseline') ELSE lzModel
        /\ round' = (round + 1) % 3
        /\ unread' = unread \ {LzChannel}
        /\ UNCHANGED <<made, mail, daemonVars, vct, edits>>

(* The user works in the Leitzentrale. *)
EditModel(f, t) ==
    /\ edits < MaxEdits
    /\ edits' = edits + 1
    /\ model' = [model EXCEPT ![f] = t]
    /\ UNCHANGED <<channelVars, vct, lzModel, baseline, round>>

=============================================================================
