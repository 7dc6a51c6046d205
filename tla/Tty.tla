--------------------------------- MODULE Tty ---------------------------------
(***************************************************************************)
(* vct_tty (repos/sponge/src/vct_tty): the device the shell of a terminal  *)
(* writes its vct command lines to.  Every line is taken to pkgd over a    *)
(* channel of its own, while the write is held up, and the answer is left  *)
(* in a buffer, with a last line the shell's script waits for.             *)
(***************************************************************************)
EXTENDS Channels, SequencesExt

CONSTANTS
    TtyLines,  \* what a shell may write: the commands each line is taken for
    TtyPolls,  \* how often the client looks for its answer
    OutSize    \* OUT_SIZE, in lines

ASSUME TtyAssumption == TtyPolls \in Nat \ {0} /\ OutSize \in Nat

VARIABLE tty  \* todo: commands still to process; own, polls: the request; out: unread lines

TtyInit == tty = [at |-> "idle", todo |-> <<>>, own |-> 0, polls |-> 0, out |-> <<>>]

(* _emit drops what does not fit. *)
Emitted(out, lines) ==
    LET all == out \o lines
    IN  SubSeq(all, 1, IF Len(all) < OutSize THEN Len(all) ELSE OutSize)

(* _emit_result prints a headline and the sub-nodes that have a name; the  *)
(* list of packages sits one level deeper and none of it is printed.  Then *)
(* _finish_response.                                                       *)
Responds(t, line) == [t EXCEPT !.at = IF Len(t.todo) > 1 THEN "line" ELSE "idle",
                               !.todo = Tail(@), !.polls = 0,
                               !.out = Emitted(@, <<line, "done">>)]

(* _write: a line longer than LINE_LEN is processed as two. *)
WriteLine(commands) ==
    /\ tty.at = "idle"
    /\ tty' = [tty EXCEPT !.at = "line", !.todo = commands]
    /\ UNCHANGED channelVars

(* _process_line *)
ProcessLine ==
    /\ tty.at = "line"
    /\ LET cmd == Head(tty.todo)
       IN  IF cmd.op = ""
           THEN tty' = Responds(tty, "usage") /\ UNCHANGED channelVars
           ELSE /\ Publish("tty_request", cmd.op, cmd.name, NoValue)
                /\ tty' = [tty EXCEPT !.at = "poll", !.own = Len(made')]

TtyFound == Matches(made[tty.own], answer["tty_request"])

TtyAnswered ==
    /\ tty.at = "poll" /\ TtyFound
    /\ tty' = Responds(tty, "answer")
    /\ UNCHANGED channelVars

TtyPolled ==
    /\ tty.at = "poll" /\ ~TtyFound
    /\ tty' = IF tty.polls + 1 < TtyPolls THEN [tty EXCEPT !.polls = @ + 1]
              ELSE Responds(tty, "no answer")
    /\ UNCHANGED channelVars

(* _read: a shell that waits reads until the last line. *)
ReadLine ==
    /\ tty.at = "idle" /\ tty.out # <<>>
    /\ tty' = [tty EXCEPT !.out = Tail(@)]
    /\ UNCHANGED channelVars

TtyWorks == ProcessLine \/ TtyAnswered \/ TtyPolled

=============================================================================
