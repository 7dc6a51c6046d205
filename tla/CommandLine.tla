----------------------------- MODULE CommandLine -----------------------------
(***************************************************************************)
(* How vct reads its command line (repos/sponge/src/vct/args.cc).  A token *)
(* is a string.  An empty string is an argument that was not given.        *)
(***************************************************************************)
EXTENDS Integers, Sequences, SequencesExt, TLC

CONSTANT MaxArgs   \* MAX_ARGS

ASSUME CommandLineAssumption == MaxArgs \in Nat

(* Args, as parse_args starts with it. *)
NoArgs == [subcommand |-> "status", positional |-> "", positional2 |-> "",
           explain |-> FALSE, manual |-> FALSE, json |-> FALSE,
           resources |-> FALSE, help |-> FALSE, lang |-> "", profile |-> ""]

(* The tokens of the form --option=value that may be given, split up as    *)
(* language_from_equals_form and value_from_equals_form do.                *)
EqualsForms == "--lang=ko"      :> [option |-> "lang", value |-> "ko"]
            @@ "--profile=kiosk" :> [option |-> "profile", value |-> "kiosk"]

Flag == "--explain"   :> "explain"   @@ "-x" :> "explain"
     @@ "--manual"    :> "manual"    @@ "-m" :> "manual"
     @@ "--json"      :> "json"
     @@ "--resources" :> "resources"
     @@ "--help"      :> "help"      @@ "-h" :> "help"

(* The words that only change what is logged. *)
Silent == {"--verbose", "-v"}

(* A word goes to the first place that is free.  "status" counts as free.  *)
Positioned(out, t) ==
    IF out.subcommand = "status" THEN [out EXCEPT !.subcommand = t]
    ELSE IF out.positional = "" THEN [out EXCEPT !.positional = t]
    ELSE IF out.positional2 = "" THEN [out EXCEPT !.positional2 = t]
    ELSE out

(* apply_token *)
ApplyToken(out, t) ==
    IF t \in DOMAIN Flag THEN [out EXCEPT ![Flag[t]] = TRUE]
    ELSE IF t \in Silent THEN out
    ELSE IF t \in {"--version", "-V"} THEN [out EXCEPT !.subcommand = "version"]
    ELSE IF t \in DOMAIN EqualsForms
         THEN [out EXCEPT ![EqualsForms[t].option] = EqualsForms[t].value]
    ELSE Positioned(out, t)

(* One round of the loop of parse_args.  "awaits" is the option whose      *)
(* value the next token is; an option that ends the line has none.         *)
Consumed(reader, t) ==
    IF reader.awaits # ""
    THEN [args |-> [reader.args EXCEPT ![reader.awaits] = t], awaits |-> ""]
    ELSE IF t = "--lang" THEN [reader EXCEPT !.awaits = "lang"]
    ELSE IF t = "--profile" THEN [reader EXCEPT !.awaits = "profile"]
    ELSE [reader EXCEPT !.args = ApplyToken(@, t)]

(* parse_args and collect_arg_token: tokens beyond MaxArgs are dropped.    *)
Parse(tokens) ==
    LET kept == IF Len(tokens) > MaxArgs THEN SubSeq(tokens, 1, MaxArgs) ELSE tokens
        out  == FoldLeft(Consumed, [args |-> NoArgs, awaits |-> ""], kept).args
    IN  IF out.help /\ out.subcommand = "status"
        THEN [out EXCEPT !.subcommand = "help"] ELSE out

=============================================================================
