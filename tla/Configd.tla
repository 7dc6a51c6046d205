------------------------------ MODULE Configd ------------------------------
(***************************************************************************)
(* The configuration daemon, repos/sponge/src/sponge_configd/main.cc: the  *)
(* values of the flat keys of its registry, the slots into which per-panel *)
(* keys are instantiated, the baked defaults, the store file, and the      *)
(* broadcast its watchers read.                                            *)
(*                                                                         *)
(* All handlers run on one entrypoint.  One blocks only while the store is *)
(* written, which ends the "saving" stage.  Applying the baked defaults is *)
(* done line by line for the sake of the proofs; nothing but a crash comes *)
(* between two lines, and nothing can be seen of them before they are      *)
(* published.                                                              *)
(***************************************************************************)
EXTENDS Naturals, FiniteSets, Sequences

CONSTANTS
    FlatOrder,    \* names of _registry, in its order
    PanelOrder,   \* names the pattern templates match, in strcmp order
    Foreign,      \* names that are no key: unknown, or with a bad <id>
    Value,        \* non-empty values
    Empty,        \* the empty string
    Accepts,      \* what _value_valid accepts for each key
    Quoted,       \* values with a quotation mark in them
    Default,      \* the default of each flat key, Empty for the others
    MaxPattern,   \* MAX_PATTERN_KEYS
    BakeUsable,   \* the bake ROMs are there and the manifest is well formed
    BakeLines,    \* lines of config.defaults, then theme, profile, version
    Persistent,   \* the config carries a <vfs> node
    WritesFail,   \* the file system may refuse a write
    Channel       \* "vct", and "de" if the config carries <de_config/>

Flat     == {FlatOrder[i] : i \in DOMAIN FlatOrder}
Panel    == {PanelOrder[i] : i \in DOMAIN PanelOrder}
Key      == Flat \union Panel
Applied  == "bake.applied"
ReadOnly == {"bake.applied", "bake.profile", "bake.version"}
NoKey    == ""

ASSUME RegistryAssumption ==
    /\ FlatOrder \in Seq(Flat) /\ PanelOrder \in Seq(Panel)
    /\ \A i, j \in DOMAIN PanelOrder : PanelOrder[i] = PanelOrder[j] => i = j
    /\ (Flat \union ReadOnly) \intersect Panel = {} /\ Foreign \intersect Key = {}
    /\ NoKey \notin Key \union Foreign
    /\ Empty \notin Value /\ Quoted \subseteq Value
    /\ Accepts \in [Key -> SUBSET Value]
    /\ Default \in [Key -> Value \union {Empty}]
    /\ \A k \in Flat : Default[k] \in Accepts[k] \union {Empty}
    /\ \A k \in Panel : Default[k] = Empty
    /\ Applied \in Flat /\ Accepts[Applied] = {"yes", "no"}
    /\ MaxPattern \in Nat

ASSUME BakeAssumption ==
    /\ BakeUsable \in BOOLEAN
    /\ BakeLines \in Seq([key : Key \union Foreign, value : Value \union {Empty}])
    /\ Persistent \in BOOLEAN /\ WritesFail \in BOOLEAN

VARIABLES
    stage,      \* "down", "baking", "saving", "idle"
    line,       \* the baked line to apply next
    values,     \* _values and _instantiated_values, by name
    slots,      \* _instantiated_names
    diverged,   \* _lz_diverged
    lastSig,    \* _last_request_sig
    job,        \* the request that is answered once the store is written
    broadcast,  \* the "config" report; kept as memory while the daemon is down
    answer,     \* the result reported last, and the channel it went to
    file        \* what can be read from STORE_PATH: no file reads as no entry

memory == <<values, slots>>
configdVars == <<stage, line, memory, diverged, lastSig, job, broadcast, answer, file>>

Unset    == [k \in Key |-> Empty]
NoFile   == [values |-> Unset, slots |-> <<>>]
NoAnswer == [channel |-> "none", op |-> "none", key |-> NoKey,
             status |-> "none", value |-> Empty]
BootJob  == [op |-> "boot", key |-> NoKey, value |-> Empty, channel |-> "none"]
NoJob    == [BootJob EXCEPT !.op = "none"]

-----------------------------------------------------------------------------
(* The registry. *)

Known(k) == k \in Flat \/ \E i \in DOMAIN slots : slots[i] = k

(* Mutant: a name may be instantiated twice. *)
InstantiateTwice(k) ==
    IF k \in Flat \/ Len(slots) >= MaxPattern THEN slots ELSE Append(slots, k)

(* _instantiate_pattern, for a panel key that has no slot yet. *)
Instantiate(k) ==
    IF Known(k) \/ Len(slots) >= MaxPattern THEN slots ELSE Append(slots, k)

CanBeSet(k) == Known(k) \/ (k \in Panel /\ Len(slots) < MaxPattern)

(* _do_set keeps one index, of the flat registry or of the slots, and goes *)
(* by its size to tell which.                                              *)
Position(order, k) == CHOOSE i \in DOMAIN order : order[i] = k
Addressed(sl, k) ==
    LET i == Position(IF k \in Flat THEN FlatOrder ELSE sl, k)
    IN  IF i <= Len(sl) THEN sl[i] ELSE FlatOrder[i]

-----------------------------------------------------------------------------
(* The store. *)

Before(a, b) == \E i, j \in DOMAIN PanelOrder :
                   i < j /\ PanelOrder[i] = a /\ PanelOrder[j] = b

(* The names in S in the order in which they are written and read back.    *)
InNameOrder(S) ==
    {s \in [1..Cardinality(S) -> S] :
        /\ \A i, j \in DOMAIN s : i < j => Before(s[i], s[j])
        /\ \A x \in S : \E i \in DOMAIN s : s[i] = x}

(* What the file reads as.  An entry without a value is passed over.       *)
(* Values are written as they are: a quotation mark makes the parser lose  *)
(* the entry, or refuse the file.                                          *)
Readable == [k \in Key |-> IF values[k] \in Quoted THEN Empty ELSE values[k]]

Snapshots ==
    {[values |-> Readable, slots |-> s] :
        s \in InNameOrder({k \in Panel : Known(k) /\ Readable[k] # Empty})}
    \union {f \in {NoFile} : Readable # values}

(* _save_store writes a second file and renames it. *)
StoreWritten ==
    \/ Persistent /\ file' \in Snapshots
    \/ (Persistent => WritesFail) /\ UNCHANGED file

-----------------------------------------------------------------------------
(* Output. *)

(* Mutant: the broadcast leaves out what was instantiated. *)
PublishFlat ==
    broadcast' = [values |-> [k \in Key |-> IF k \in Flat THEN values'[k] ELSE Empty],
                  diverged |-> diverged']

Publish == broadcast' = [values |-> values', diverged |-> diverged']

Answer(c, op, k, status, v) ==
    answer' = [channel |-> c, op |-> op, key |-> k, status |-> status, value |-> v]

-----------------------------------------------------------------------------
(* Start, baked defaults, and crash. *)

ConfigdInit ==
    /\ stage = "down" /\ line = 1
    /\ values = Unset /\ slots = <<>>
    /\ diverged = FALSE
    /\ lastSig = <<>> /\ job = NoJob
    /\ broadcast = [values |-> Unset, diverged |-> FALSE]
    /\ answer = NoAnswer
    /\ file = NoFile

(* _load_store, and the registry defaults for what it left empty. *)
Load ==
    /\ values' = [k \in Key |-> IF file.values[k] = Empty THEN Default[k]
                                                          ELSE file.values[k]]
    /\ slots' = file.slots

BootPlain ==
    /\ stage = "down"
    /\ Load
    /\ BakeUsable => values'[Applied] = "yes"
    /\ stage' = "idle"
    /\ UNCHANGED <<line, diverged, lastSig, job, answer, file>>
    /\ Publish

BootBakes ==
    /\ stage = "down"
    /\ Load
    /\ BakeUsable /\ values'[Applied] # "yes"
    /\ stage' = "baking" /\ line' = 1
    /\ job' = BootJob
    /\ UNCHANGED <<diverged, lastSig, broadcast, answer, file>>

(* _apply_validated_value for one line.  A panel key gets its slot before  *)
(* its value is looked at.                                                 *)
BakeLine ==
    /\ stage = "baking" /\ line <= Len(BakeLines)
    /\ LET k == BakeLines[line].key
           v == BakeLines[line].value
       IN  /\ slots' = IF k \in Panel THEN Instantiate(k) ELSE slots
           /\ values' = IF /\ k \in Flat \/ \E i \in DOMAIN slots' : slots'[i] = k
                           /\ v \in Accepts[k]
                        THEN [values EXCEPT ![k] = v] ELSE values
    /\ line' = line + 1
    /\ UNCHANGED <<stage, diverged, lastSig, job, broadcast, answer, file>>

(* Mutant: the sentinel is forgotten. *)
BakeUnmarked ==
    /\ stage = "baking" /\ line > Len(BakeLines)
    /\ stage' = "saving"
    /\ UNCHANGED <<line, values, slots, diverged, lastSig, job, broadcast, answer, file>>

BakeMarked ==
    /\ stage = "baking" /\ line > Len(BakeLines)
    /\ values' = [values EXCEPT ![Applied] = "yes"]
    /\ stage' = "saving"
    /\ UNCHANGED <<line, slots, diverged, lastSig, job, broadcast, answer, file>>

(* The rest of the boot, or of _do_set, once the file system has answered. *)
Saved ==
    /\ stage = "saving"
    /\ StoreWritten
    /\ UNCHANGED <<memory, diverged>>
    /\ Publish
    /\ IF job.op = "boot" THEN UNCHANGED answer
       ELSE Answer(job.channel, "set", job.key, "ok", job.value)
    /\ job' = NoJob
    /\ stage' = "idle"
    /\ UNCHANGED <<line, lastSig>>

(* The file may have been renamed although nobody was told. *)
Crash ==
    /\ stage # "down"
    /\ stage' = "down" /\ line' = 1
    /\ values' = Unset /\ slots' = <<>>
    /\ diverged' = FALSE
    /\ lastSig' = <<>> /\ job' = NoJob
    /\ answer' = NoAnswer
    /\ \/ UNCHANGED file
       \/ stage = "saving" /\ Persistent /\ file' \in Snapshots
    /\ UNCHANGED broadcast

(* _handle_lz_model: a read-only key of the broadcast, computed elsewhere. *)
HandleLzModel(b) ==
    /\ stage = "idle" /\ diverged # b
    /\ diverged' = b
    /\ UNCHANGED memory
    /\ Publish
    /\ UNCHANGED <<stage, line, lastSig, job, answer, file>>

-----------------------------------------------------------------------------
(* Requests.  Both channels share the signature: a request that repeats    *)
(* op, key and value of the request before it is dropped unanswered.       *)

Fresh(op, k, v) ==
    /\ stage = "idle" /\ lastSig # <<op, k, v>>
    /\ lastSig' = <<op, k, v>>

Rest == UNCHANGED <<stage, line, diverged, job, broadcast, file>>

HandleMalformed(c) ==
    /\ stage = "idle"
    /\ Answer(c, "get", NoKey, "error", Empty)
    /\ Rest /\ UNCHANGED <<memory, lastSig>>

(* "list" is answered whatever else it says; another request needs a key,  *)
(* and an operation that exists.                                           *)
HandleList(c) ==
    /\ Fresh("list", NoKey, Empty)
    /\ Answer(c, "list", NoKey, "ok", Empty)
    /\ Rest /\ UNCHANGED memory

HandleInvalid(c, op, k) ==
    /\ op # "list" /\ (op \notin {"get", "set"} \/ k = NoKey)
    /\ Fresh(op, k, Empty)
    /\ Answer(c, op, k, "error", Empty)
    /\ Rest /\ UNCHANGED memory

DoGet(c, k) ==
    /\ Fresh("get", k, Empty)
    /\ IF Known(k) THEN Answer(c, "get", k, "ok", values[k])
                   ELSE Answer(c, "get", k, "error", Empty)
    /\ Rest /\ UNCHANGED memory

(* bake.applied=no asks for the baked defaults; all else of the bake       *)
(* metadata is read-only.                                                  *)
ResetAsked(k, v) == k = Applied /\ v = "no"

ResetBegins(c, k, v) ==
    /\ Fresh("set", k, v)
    /\ ResetAsked(k, v) /\ BakeUsable
    /\ stage' = "baking" /\ line' = 1
    /\ job' = [op |-> "set", key |-> k, value |-> v, channel |-> c]
    /\ UNCHANGED <<memory, diverged, broadcast, answer, file>>

SetRefused(c, k, v) ==
    /\ Fresh("set", k, v)
    /\ IF ResetAsked(k, v) THEN ~BakeUsable ELSE k \in ReadOnly \/ ~CanBeSet(k)
    /\ Answer(c, "set", k, "error", Empty)
    /\ Rest /\ UNCHANGED memory

(* An invalid value leaves a new slot behind. *)
SetInvalid(c, k, v) ==
    /\ Fresh("set", k, v)
    /\ k \notin ReadOnly /\ CanBeSet(k)
    /\ slots' = Instantiate(k)
    /\ v \notin Accepts[Addressed(slots', k)]
    /\ Answer(c, "set", k, "error", Empty)
    /\ Rest /\ UNCHANGED values

(* Mutant: the value is checked for the key named, not for the one written. *)
SetBeginsCrossed(c, k, v) ==
    /\ Fresh("set", k, v)
    /\ k \notin ReadOnly /\ CanBeSet(k)
    /\ slots' = Instantiate(k)
    /\ v \in Accepts[k]
    /\ values' = [values EXCEPT ![Addressed(slots', k)] = v]
    /\ stage' = "saving"
    /\ job' = [op |-> "set", key |-> k, value |-> v, channel |-> c]
    /\ UNCHANGED <<line, diverged, broadcast, answer, file>>

SetBegins(c, k, v) ==
    /\ Fresh("set", k, v)
    /\ k \notin ReadOnly /\ CanBeSet(k)
    /\ slots' = Instantiate(k)
    /\ v \in Accepts[Addressed(slots', k)]
    /\ values' = [values EXCEPT ![Addressed(slots', k)] = v]
    /\ stage' = "saving"
    /\ job' = [op |-> "set", key |-> k, value |-> v, channel |-> c]
    /\ UNCHANGED <<line, diverged, broadcast, answer, file>>

Start == BootPlain \/ BootBakes \/ BakeLine \/ BakeMarked \/ Saved

Handle(c) ==
    \/ HandleMalformed(c)
    \/ HandleList(c)
    \/ \E k \in Key \union Foreign \union {NoKey} :
          \/ \E op \in {"get", "set", "erase"} : HandleInvalid(c, op, k)
          \/ k # NoKey /\ DoGet(c, k)
          \/ \E v \in Value \union {Empty} :
                k # NoKey /\ (\/ ResetBegins(c, k, v)
                              \/ SetRefused(c, k, v)
                              \/ SetInvalid(c, k, v)
                              \/ SetBegins(c, k, v))

ConfigdNext ==
    \/ Start
    \/ Crash
    \/ \E b \in BOOLEAN : HandleLzModel(b)
    \/ \E c \in Channel : Handle(c)

ConfigdSpec == ConfigdInit /\ [][ConfigdNext]_configdVars

-----------------------------------------------------------------------------
(* The types of the variables. *)
ConfigdTypeOK ==
    /\ stage \in {"down", "baking", "saving", "idle"}
    /\ line \in Nat
    /\ values \in [Key -> Value \union {Empty}]
    /\ slots \in Seq(Panel)
    /\ diverged \in BOOLEAN
    /\ broadcast \in [values : [Key -> Value \union {Empty}], diverged : BOOLEAN]
    /\ file \in [values : [Key -> Value \union {Empty}], slots : Seq(Panel)]
    /\ job.channel \in Channel \union {"none"}

(* "The store is a closed registry ... never a silent write": whatever is  *)
(* held, told to watchers or kept on disk is a value its key accepts,      *)
(* whichever way it came - a request, the baked defaults, the file - and   *)
(* although _do_set may write to another key than the one it was given.    *)
Valid(map) == \A k \in Key : map[k] \in Accepts[k] \union {Empty, Default[k]}
ValuesAreValid == Valid(values) /\ Valid(broadcast.values) /\ Valid(file.values)

(* The slots: no key twice, no more than there are, none without need, so  *)
(* that a key without a slot has no value that could come back to light    *)
(* when it gets one.  The same of the file, which becomes the slots of the *)
(* next start.                                                             *)
Distinct(s)    == \A i, j \in DOMAIN s : s[i] = s[j] => i = j
SlotsAreSound ==
    /\ Distinct(slots) /\ Len(slots) <= MaxPattern
    /\ Distinct(file.slots) /\ Len(file.slots) <= MaxPattern
    /\ \A k \in Panel : values[k] # Empty => \E i \in DOMAIN slots : slots[i] = k

(* Watchers are told of every change before the next request is looked at, *)
(* and never of one that is not complete.                                  *)
WatchersAgree ==
    stage = "idle" => broadcast = [values |-> values, diverged |-> diverged]

(* The daemon implements its promise, README "Persistence": through the    *)
(* broadcast a map of settings is seen in which one key changes at a time, *)
(* bake metadata by baking only, and which a restart at any point brings   *)
(* back as it was last stored, never a mixture.                            *)
Promise == INSTANCE ConfigStore WITH
    config  <- broadcast.values,
    durable <- file.values,
    up      <- stage # "down" /\ job # BootJob
Implements == Promise!Spec

(* A set that was answered "ok" has set the key it names: main.cc:25, "set: *)
(* validate + store one key/value".                                        *)
AcknowledgedIsStored ==
    (/\ stage = "idle" /\ lastSig = <<"set", answer.key, answer.value>>
     /\ answer.op = "set" /\ answer.status = "ok" /\ answer.key # Applied)
    => values[answer.key] = answer.value

=============================================================================
