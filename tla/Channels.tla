------------------------------ MODULE Channels ------------------------------
(***************************************************************************)
(* The request channels of Sponge OS: pairs of a request report and a      *)
(* result report that report_rom relays between the clients and the two    *)
(* daemons.                                                                *)
(*                                                                         *)
(* A channel is a slot in either direction.  A request carries no number:  *)
(* the client recognises its answer by what it repeats of the request.     *)
(* "made" is history: it numbers the requests, and "asked" says for which  *)
(* one of them an answer was computed.                                     *)
(*                                                                         *)
(* The daemons are reduced to what a client sees of them, with all they    *)
(* may answer; Pkgd and Configd model them in full.  The daemons may be    *)
(* late, or absent for good.                                               *)
(***************************************************************************)
EXTENDS Integers, Sequences

CONSTANTS
    Packages,     \* package names
    Requires,     \* what each package needs, itself included: the names of its plan
    Autostarted,  \* packages marked <autostart/>
    Misplaced,    \* flat keys whose place in the registry may be taken for one of a slot
    Slots,        \* the per-panel keys that may have a slot
    Baked,        \* what a reset to the baked defaults writes, by key
    Restored,     \* bound: the roots pkgd may have started with
    MaxRequests   \* bound: a client that begins something has made fewer requests before

ASSUME ChannelsAssumption ==
    /\ "" \notin Packages /\ MaxRequests \in Nat
    /\ Requires \in [Packages -> SUBSET Packages] /\ \A p \in Packages : p \in Requires[p]
    /\ Autostarted \subseteq Packages /\ Restored \subseteq SUBSET Packages

PkgdChannels    == {"request", "launcher_request", "tty_request"}
ConfigdChannels == {"config_request", "de_config_request"}
LzChannel       == "lz_watch_request"
AllChannels     == PkgdChannels \union ConfigdChannels \union {LzChannel}
Daemons         == {"pkgd", "configd"}

VARIABLES
    made,        \* history: the requests, in the order they were published
    mail,        \* the request report of each channel: its place in "made"
    unread,      \* channels whose daemon has yet to see the last report
    answer,      \* the result report of each channel
    lastSig,     \* _last_request_sig of each daemon
    lastAnswer,  \* the answer pkgd would replay
    roots,       \* pkgd: the packages that were asked for
    running,     \* pkgd: the running packages
    store        \* configd: the values last accepted, by key

daemonVars   == <<lastSig, lastAnswer, roots, running, store>>
channelVars  == <<made, mail, unread, answer, daemonVars>>

NoValue == ""
NoSig   == <<>>
NoAnswer == [op |-> "", name |-> "", value |-> NoValue, status |-> "", asked |-> 0]

(* _sync_installed_from_roots: a package stays as long as a root needs it. *)
Closure(rts) == UNION {Requires[r] : r \in rts}
Installed    == Closure(roots)

ChannelsInit ==
    /\ made = <<>>
    /\ mail = [c \in AllChannels |-> 0]
    /\ unread = {}
    /\ answer = [c \in AllChannels |-> NoAnswer]
    /\ lastSig = [d \in Daemons |-> NoSig]
    /\ lastAnswer = NoAnswer
    /\ roots \in Restored
    /\ running = Autostarted \intersect Installed
    /\ store = <<>>

(* A client begins something that needs requests. *)
Room == Len(made) < MaxRequests

(* ReportRomClient publishes a request. *)
Publish(c, op, name, value) ==
    /\ made' = Append(made, [channel |-> c, op |-> op, name |-> name, value |-> value])
    /\ mail' = [mail EXCEPT ![c] = Len(made')]
    /\ unread' = unread \union {c}
    /\ UNCHANGED <<answer, daemonVars>>

(* Mutant of Matches: the operation alone is compared. *)
MatchesOperation(req, ans) == ans.status # "" /\ ans.op = req.op

(* Result_match::pkg and Result_match::config: what the client compares.   *)
(* A list has no name.  The value is compared where the answer has one,    *)
(* which an error has not.                                                 *)
Matches(req, ans) ==
    /\ ans.status # ""
    /\ ans.op = req.op
    /\ req.op # "list" => ans.name = req.name
    /\ ans.value # NoValue /\ req.op = "set" => ans.value = req.value

Sig(req) == <<req.op, req.name, req.value>>

-----------------------------------------------------------------------------
(* sponge_pkgd                                                             *)

OutcomeFor(p, status, rts, run) ==
    [name |-> p, status |-> status, roots |-> rts, running |-> run]

(* _sync_running_state, when the roots have become rts. *)
RunningWith(rts) == (running \union Autostarted) \intersect Closure(rts)

(* What pkgd may make of a request.  An install the resources do not allow *)
(* is answered under the name of the package they do not allow.  A removal *)
(* takes the package from the roots, if it is one, and is answered "ok"    *)
(* although it stays installed where another root needs it.                *)
PkgdOutcomes(req) ==
    LET p == req.name
        Same(s)      == OutcomeFor(p, s, roots, running)
        Changed(rts) == OutcomeFor(p, "ok", rts, RunningWith(rts))
    IN  IF req.op = "list" THEN {Same("ok")}
        ELSE IF p = "" THEN {Same("error")}
        ELSE
        CASE req.op = "explain" -> {Same("ok"), Same("error")}
          [] req.op = "install" -> IF p \notin Packages THEN {Same("error")}
                                   ELSE {Changed(roots \union {p}), Same("error")}
                                        \union {OutcomeFor(d, "insufficient-resources",
                                                           roots, running) : d \in Requires[p]}
          [] req.op = "remove"  -> IF p \in Installed THEN {Changed(roots \ {p})}
                                   ELSE {Same("error")}
          [] req.op = "launch"  -> IF p \notin Installed THEN {Same("not-installed")}
                                   ELSE IF p \in running THEN {Same("already-running")}
                                   ELSE {OutcomeFor(p, "ok", roots, running \union {p})}
                                        \union {Same(s) : s \in {"exclusive-conflict",
                                                "binary-missing", "insufficient-resources"}}
          [] OTHER              -> {Same("error")}

(* _handle_request_impl, of whichever channel.  A request that repeats the *)
(* last one, of whichever channel, is answered from the cache.             *)
PkgdHandles(c) ==
    /\ c \in unread \intersect PkgdChannels
    /\ unread' = unread \ {c}
    /\ LET req == made[mail[c]]
       IN  IF Sig(req) = lastSig["pkgd"]
           THEN /\ answer' = [answer EXCEPT ![c] = lastAnswer]
                /\ UNCHANGED <<lastSig, lastAnswer, roots, running>>
           ELSE \E o \in PkgdOutcomes(req) :
                /\ lastSig' = [lastSig EXCEPT !["pkgd"] = Sig(req)]
                /\ lastAnswer' = [op |-> req.op, name |-> o.name, value |-> NoValue,
                                  status |-> o.status, asked |-> mail[c]]
                /\ answer' = [answer EXCEPT ![c] = lastAnswer']
                /\ roots' = o.roots
                /\ running' = o.running
    /\ UNCHANGED <<made, mail, store>>

-----------------------------------------------------------------------------
(* sponge_configd                                                          *)

Rejected == {"", "bad"}   \* values no key accepts
Reset    == "bake.applied"
Metadata == {"bake.profile", "bake.version"}

(* The store, with the values of f in place of its own. *)
Written(f) == [k \in DOMAIN f \union DOMAIN store |->
                  IF k \in DOMAIN f THEN f[k] ELSE store[k]]

ConfigdSays(status, value, st) == [status |-> status, value |-> value, store |-> st]
Refused == ConfigdSays("error", NoValue, store)

(* What _do_set may store.  The slot of another key may be written in      *)
(* place of a misplaced one; a reset passes over the per-panel keys that   *)
(* get no slot.                                                            *)
StoredBySet(k, v) ==
    IF k = Reset
    THEN IF v # "no" THEN {}
         ELSE {Written([b \in D |-> Baked[b]]) :
                 D \in {E \in SUBSET DOMAIN Baked : DOMAIN Baked \ Slots \subseteq E}}
    ELSE IF k \in Metadata \union {""} \/ v \in Rejected THEN {}
    ELSE {Written([b \in {w} |-> v]) : w \in {k} \union (IF k \in Misplaced THEN Slots ELSE {})}

(* What configd may make of a request.  Any key may be unknown, any value  *)
(* one its key does not accept.                                            *)
ConfigdOutcomes(req) ==
    LET k == req.name
    IN  CASE req.op = "list" -> {ConfigdSays("ok", NoValue, store)}
          [] req.op = "get"  -> {Refused} \union
                 (IF k = "" THEN {}
                  ELSE {ConfigdSays("ok", IF k \in DOMAIN store THEN store[k] ELSE NoValue, store)})
          [] req.op = "set"  -> {Refused} \union
                 {ConfigdSays("ok", req.value, st) : st \in StoredBySet(k, req.value)}
          [] OTHER           -> {Refused}

(* _handle_request_impl: a request that repeats the last one, of whichever *)
(* channel, is not answered.                                               *)
ConfigdHandles(c) ==
    /\ c \in unread \intersect ConfigdChannels
    /\ unread' = unread \ {c}
    /\ LET req == made[mail[c]]
       IN  IF Sig(req) = lastSig["configd"]
           THEN UNCHANGED <<answer, lastSig, store>>
           ELSE \E o \in ConfigdOutcomes(req) :
                /\ lastSig' = [lastSig EXCEPT !["configd"] = Sig(req)]
                /\ answer' = [answer EXCEPT ![c] =
                       [op |-> req.op, name |-> req.name, value |-> o.value,
                        status |-> o.status, asked |-> mail[c]]]
                /\ store' = o.store
    /\ UNCHANGED <<made, mail, lastAnswer, roots, running>>

DaemonStep == \E c \in AllChannels : PkgdHandles(c) \/ ConfigdHandles(c)

=============================================================================
