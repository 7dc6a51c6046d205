---------------------------- MODULE ConfigStore ----------------------------
(***************************************************************************)
(* What the configuration daemon promises to those who read its broadcast: *)
(* a map from keys to values that changes one key at a time, to a value    *)
(* its key accepts, or all at once when the baked defaults are applied;    *)
(* and that a restart brings back as it was when it was last stored.       *)
(* Nothing is said of requests, slots, files or the order of steps.        *)
(***************************************************************************)
EXTENDS Naturals, Sequences

CONSTANTS
    Key, Flat,        \* all keys; those that always exist
    ReadOnly,         \* keys that only baking changes
    Applied,          \* the key that records that baking is done
    Accepts,          \* the values each key accepts
    Default, Empty,   \* the value of a key that was never set
    BakeUsable, BakeLines,
    Persistent, WritesFail

VARIABLES
    config,    \* what watchers were told last
    durable,   \* what a restart would read
    up         \* the daemon has published since it was started

NothingStored == [k \in Key |-> Empty]

Init ==
    /\ config = NothingStored
    /\ durable = NothingStored
    /\ up = FALSE

(* The baked values of a key, by the line they stand on.                   *)
LinesOf(k) == {i \in DOMAIN BakeLines : /\ BakeLines[i].key = k
                                        /\ BakeLines[i].value \in Accepts[k]}

(* Applying the baked defaults: the last valid line of a key counts.  A    *)
(* key that need not exist may be left out, when no more keys fit.         *)
Baked(c, d) ==
    /\ BakeUsable
    /\ d[Applied] = "yes"
    /\ \A k \in Key \ {Applied} :
          \/ k \notin Flat /\ d[k] = c[k]
          \/ LinesOf(k) = {} /\ d[k] = c[k]
          \/ \E i \in LinesOf(k) : /\ k \in Flat => \A j \in LinesOf(k) : j <= i
                                   /\ d[k] = BakeLines[i].value

OneKeySet(c, d) ==
    \E k \in Key \ ReadOnly : /\ d[k] \in Accepts[k]
                              /\ \A o \in Key \ {k} : d[o] = c[o]

Changed(c, d) == OneKeySet(c, d) \/ Baked(c, d)

(* A change that is written is durable at once, or never. *)
Written(new) ==
    \/ Persistent /\ durable' = new
    \/ (Persistent => WritesFail) /\ durable' = durable

Change ==
    /\ up /\ UNCHANGED up
    /\ Changed(config, config')
    /\ Written(config')

(* A change may have become durable although nobody was told of it.        *)
Crash ==
    /\ up /\ up' = FALSE
    /\ UNCHANGED config
    /\ \/ durable' = durable
       \/ Persistent /\ Changed(config, durable')

Filled == [k \in Key |-> IF durable[k] = Empty THEN Default[k] ELSE durable[k]]

(* The defaults are baked in unless they have been before.                 *)
ToBake == BakeUsable /\ Filled[Applied] # "yes"

Restart ==
    /\ ~up /\ up' = TRUE
    /\ \/ ~ToBake /\ config' = Filled /\ UNCHANGED durable
       \/ ToBake /\ Baked(Filled, config') /\ Written(config')

CrashInRestart ==
    /\ ~up /\ UNCHANGED <<config, up>>
    /\ Persistent /\ ToBake /\ Baked(Filled, durable')

Next == Change \/ Crash \/ Restart \/ CrashInRestart

Spec == Init /\ [][Next]_<<config, durable, up>>
=============================================================================
