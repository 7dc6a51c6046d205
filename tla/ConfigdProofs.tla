--------------------------- MODULE ConfigdProofs ---------------------------
(***************************************************************************)
(* Proofs about the configuration daemon, for every registry, bake file    *)
(* and file system: its invariants, and that it implements its promise,    *)
(* module ConfigStore.                                                     *)
(***************************************************************************)
EXTENDS Configd, FiniteSetTheorems, TLAPS

Map == [Key -> Value \union {Empty}]
Has(s, k) == \E i \in DOMAIN s : s[i] = k

-----------------------------------------------------------------------------
(* What a step does to the memory: nothing, a load, a clearing, or the     *)
(* writing of at most one key that has a place.                            *)

Write ==
    /\ slots' = slots \/ \E k \in Panel : slots' = Instantiate(k)
    /\ \/ values' = values
       \/ \E x \in Key : \E v \in Accepts[x] :
             /\ values' = [values EXCEPT ![x] = v]
             /\ x \in Panel => Has(slots', x)

Quiet ==
    /\ UNCHANGED <<memory, diverged, broadcast, file>>
    /\ stage' \in {stage, "baking"} /\ line' \in {line, 1}
    /\ job'.channel \in Channel \union {job.channel}

(* A write that is not told to anybody yet. *)
Pending ==
    /\ Write
    /\ stage' \in {"baking", "saving"} \/ (stage' = stage /\ values' = values)
    /\ line' \in {line, line + 1}
    /\ job'.channel \in Channel \union {job.channel}
    /\ UNCHANGED <<diverged, broadcast, file>>

Cleared ==
    /\ stage' = "down" /\ line' = 1
    /\ values' = Unset /\ slots' = <<>> /\ diverged' = FALSE /\ job' = NoJob
    /\ UNCHANGED broadcast
    /\ file' = file \/ file' \in Snapshots

LEMMA InstantiateType ==
    ASSUME slots \in Seq(Panel), NEW k \in Panel
    PROVE  /\ Instantiate(k) \in Seq(Panel)
           /\ \A x \in Panel : Has(slots, x) => Has(Instantiate(k), x)
           /\ Distinct(slots) => Distinct(Instantiate(k))
           /\ Len(slots) <= MaxPattern => Len(Instantiate(k)) <= MaxPattern
<1> USE RegistryAssumption
<1>1. CASE Known(k) \/ Len(slots) >= MaxPattern
      BY <1>1 DEF Instantiate
<1>2. CASE ~(Known(k) \/ Len(slots) >= MaxPattern)
  <2> DEFINE n == Len(slots)
  <2>1. Instantiate(k) = Append(slots, k)
        BY <1>2 DEF Instantiate
  <2>2. /\ n \in Nat /\ Len(Append(slots, k)) = n + 1
        /\ Append(slots, k) \in Seq(Panel)
        /\ Append(slots, k)[n + 1] = k
        /\ \A i \in 1..n : Append(slots, k)[i] = slots[i]
        OBVIOUS
  <2>3. \A i \in 1..n : slots[i] # k
        BY <1>2 DEF Known
  <2>4. Distinct(slots) => Distinct(Append(slots, k))
    <3> SUFFICES ASSUME Distinct(slots),
                        NEW i \in 1..n + 1, NEW j \in 1..n + 1,
                        Append(slots, k)[i] = Append(slots, k)[j]
                 PROVE  i = j
        BY <2>2 DEF Distinct
    <3> QED
        BY <2>2, <2>3 DEF Distinct
  <2>5. \A x \in Panel : Has(slots, x) => Has(Append(slots, k), x)
        BY <2>2 DEF Has
  <2>6. n < MaxPattern
        BY <1>2, <2>2
  <2> QED
      BY <2>1, <2>2, <2>4, <2>5, <2>6
<1> QED
    BY <1>1, <1>2

(* The key that _do_set writes has a place, whichever key it is.           *)
LEMMA AddressedHasPlace ==
    ASSUME slots \in Seq(Panel), NEW k, CanBeSet(k)
    PROVE  LET sl == Instantiate(k)
               x  == Addressed(sl, k)
           IN  /\ x \in Key
               /\ x \in Panel => Has(sl, x)
               /\ sl = slots \/ k \in Panel
<1> USE RegistryAssumption
<1> DEFINE sl == Instantiate(k)
<1>1. k \in Key
      BY DEF CanBeSet, Known, Key
<1>2. sl \in Seq(Panel)
      BY InstantiateType, <1>1 DEF Instantiate, Known, Key
<1>3. CASE k \in Flat
  <2>1. sl = slots
        BY <1>3 DEF Instantiate, Known
  <2> DEFINE i == Position(FlatOrder, k)
  <2>2. i \in DOMAIN FlatOrder /\ FlatOrder[i] = k
        BY <1>3 DEF Position, Flat
  <2>3. Addressed(sl, k) = IF i <= Len(sl) THEN sl[i] ELSE FlatOrder[i]
        BY <1>3 DEF Addressed
  <2>4. i \in Nat \ {0}
        BY <2>2
  <2>5. CASE i <= Len(sl)
        BY <2>3, <2>4, <2>5, <2>1, <1>2 DEF Has, Key
  <2>6. CASE ~(i <= Len(sl))
        BY <2>3, <2>6, <2>1, <2>2, <1>3 DEF Key
  <2> QED
      BY <2>5, <2>6
<1>4. CASE k \notin Flat
  <2>1. k \in Panel
        BY <1>1, <1>4 DEF Key
  <2>2. Has(sl, k)
    <3>1. CASE Known(k)
          BY <3>1, <1>4 DEF Instantiate, Known, Has
    <3>2. CASE ~Known(k)
      <4>1. sl = Append(slots, k)
            BY <3>2 DEF Instantiate, CanBeSet
      <4> QED
          BY <4>1 DEF Has
    <3> QED
        BY <3>1, <3>2
  <2> DEFINE i == Position(sl, k)
  <2>3. i \in DOMAIN sl /\ sl[i] = k
        BY <2>2 DEF Position, Has
  <2>4. Addressed(sl, k) = k
        BY <2>3, <1>2, <1>4 DEF Addressed
  <2> QED
      BY <2>4, <2>2, <2>1, <1>1
<1> QED
    BY <1>3, <1>4

LEMMA IntervalSize ==
    ASSUME NEW n \in Nat
    PROVE  IsFiniteSet(1..n) /\ Cardinality(1..n) = n
<1>1. 1 \in Int /\ n \in Int
      OBVIOUS
<1>2. /\ IsFiniteSet(1..n)
      /\ Cardinality(1..n) = IF 1 > n THEN 0 ELSE n - 1 + 1
      BY <1>1, FS_Interval, Zenon
<1> QED
    BY <1>2

(* What is written to the file reads as values the memory holds, or as     *)
(* nothing, with a slot for each, and no name comes twice.                 *)
LEMMA SnapshotSound ==
    ASSUME slots \in Seq(Panel), Len(slots) <= MaxPattern, values \in Map,
           \A k \in Panel : values[k] # Empty => Has(slots, k),
           NEW f \in Snapshots
    PROVE  /\ f = [values |-> f.values, slots |-> f.slots]
           /\ f.values \in Map
           /\ \A k \in Key : f.values[k] \in {values[k], Empty}
           /\ f.slots \in Seq(Panel)
           /\ Distinct(f.slots) /\ Len(f.slots) <= MaxPattern
           /\ \A k \in Panel : f.values[k] # Empty => Has(f.slots, k)
<1> USE RegistryAssumption
<1> DEFINE n == Len(slots)
           T == {slots[i] : i \in 1..n}
           S == {k \in Panel : Known(k) /\ Readable[k] # Empty}
<1>1. CASE f = NoFile
  <2>1. f.values = Unset /\ f.slots = <<>>
        BY <1>1 DEF NoFile
  <2> QED
      BY <1>1, <2>1 DEF NoFile, Unset, Map, Distinct, Key
<1>2. CASE f \in {[values |-> Readable, slots |-> s] : s \in InNameOrder(S)}
  <2>1. PICK s \in InNameOrder(S) : f = [values |-> Readable, slots |-> s]
        BY <1>2
  <2>2. /\ Readable \in Map
        /\ \A k \in Key : Readable[k] \in {values[k], Empty}
        BY DEF Readable, Map
  <2>3. IsFiniteSet(S) /\ Cardinality(S) \in Nat /\ Cardinality(S) <= MaxPattern
    <3>1. n \in Nat /\ slots \in [1..n -> Panel]
          OBVIOUS
    <3>2. IsFiniteSet(1..n) /\ Cardinality(1..n) = n
          BY <3>1, IntervalSize
    <3>3. slots \in Surjection(1..n, T)
          BY <3>1 DEF Surjection
    <3>4. IsFiniteSet(T) /\ Cardinality(T) <= n
          BY <3>2, <3>3, FS_Surjection
    <3>5. S \subseteq T
          BY <3>1 DEF Known
    <3>6. IsFiniteSet(S) /\ Cardinality(S) <= Cardinality(T)
          BY <3>4, <3>5, FS_Subset
    <3>7. Cardinality(S) \in Nat /\ Cardinality(T) \in Nat
          BY <3>4, <3>6, FS_CardinalityType
    <3> QED
        BY <3>1, <3>4, <3>6, <3>7
  <2>4. /\ s \in [1..Cardinality(S) -> S]
        /\ \A i, j \in DOMAIN s : i < j => Before(s[i], s[j])
        /\ \A x \in S : \E i \in DOMAIN s : s[i] = x
        BY <2>1 DEF InNameOrder
  <2>5. s \in Seq(Panel) /\ Len(s) = Cardinality(S)
    <3>1. PICK m \in Nat : m = Cardinality(S)
          BY <2>3
    <3>2. s \in [1..m -> Panel]
          BY <2>4, <3>1
    <3>3. s \in Seq(Panel) /\ Len(s) = m
          BY <3>2
    <3> QED
        BY <3>1, <3>3
  <2>6. \A a : ~Before(a, a)
        BY DEF Before
  <2>7. Distinct(s)
    <3> SUFFICES ASSUME NEW i \in DOMAIN s, NEW j \in DOMAIN s, s[i] = s[j]
                 PROVE  i = j
        BY DEF Distinct
    <3>1. i \in Nat /\ j \in Nat
          BY <2>3, <2>4
    <3>2. ~(i < j) /\ ~(j < i)
          BY <2>4, <2>6
    <3> QED
        BY <3>1, <3>2
  <2>8. \A k \in Panel : Readable[k] # Empty => Has(s, k)
    <3> SUFFICES ASSUME NEW k \in Panel, Readable[k] # Empty
                 PROVE  Has(s, k)
        OBVIOUS
    <3>1. values[k] # Empty
          BY DEF Readable, Key
    <3>2. k \in S
          BY <3>1 DEF Has, Known
    <3> QED
        BY <3>2, <2>4 DEF Has
  <2> QED
      BY <2>1, <2>2, <2>3, <2>5, <2>7, <2>8
<1> QED
    BY <1>1, <1>2 DEF Snapshots

(* Every step is a load, a save, a model update, or one of the kinds above. *)
LEMMA StepCases ==
    ASSUME ConfigdTypeOK, ConfigdNext
    PROVE  \/ BootPlain \/ BootBakes \/ Saved
           \/ \E b \in BOOLEAN : HandleLzModel(b)
           \/ Quiet \/ Pending \/ Cleared
<1> USE RegistryAssumption
<1>1. CASE BakeLine
  <2> DEFINE k == BakeLines[line].key
             v == BakeLines[line].value
  <2>1. slots' = slots \/ (k \in Panel /\ slots' = Instantiate(k))
        BY <1>1 DEF BakeLine
  <2>2. slots' \in Seq(Panel)
        BY <2>1, InstantiateType DEF ConfigdTypeOK
  <2>3. values' = values
        \/ /\ k \in Flat \/ Has(slots', k)
           /\ v \in Accepts[k] /\ values' = [values EXCEPT ![k] = v]
        BY <1>1 DEF BakeLine, Has
  <2>4. Has(slots', k) => k \in Panel
        BY <2>2 DEF Has
  <2>5. k \in Flat => k \notin Panel
        OBVIOUS
  <2>6. Write
        BY <2>1, <2>3, <2>4, <2>5 DEF Write, Key
  <2>7. Pending
        BY <1>1, <2>6 DEF BakeLine, Pending
  <2> QED
      BY <2>7
<1>2. CASE BakeMarked
  <2>1. "yes" \in Accepts[Applied] /\ Applied \in Key /\ Applied \notin Panel
        BY DEF Key
  <2>2. slots' = slots /\ values' = [values EXCEPT ![Applied] = "yes"]
        BY <1>2 DEF BakeMarked
  <2>3. Write
        BY <2>1, <2>2 DEF Write
  <2> QED
      BY <1>2, <2>3 DEF BakeMarked, Pending
<1>3. CASE Crash
      BY <1>3 DEF Crash, Cleared
<1>4. CASE \E c \in Channel : Handle(c)
  <2> SUFFICES ASSUME NEW c \in Channel, Handle(c)
               PROVE  Quiet \/ Pending
      BY <1>4
  <2> USE DEF Rest, memory
  <2>1. CASE HandleMalformed(c)
        BY <2>1 DEF HandleMalformed, Quiet
  <2>2. CASE HandleList(c)
        BY <2>2 DEF HandleList, Quiet
  <2>3. ASSUME NEW k, NEW op, HandleInvalid(c, op, k)
        PROVE  Quiet
        BY <2>3 DEF HandleInvalid, Quiet
  <2>4. ASSUME NEW k, DoGet(c, k)
        PROVE  Quiet
        BY <2>4 DEF DoGet, Quiet
  <2>5. ASSUME NEW k, NEW v, ResetBegins(c, k, v)
        PROVE  Quiet
        BY <2>5 DEF ResetBegins, Quiet
  <2>6. ASSUME NEW k, NEW v, SetRefused(c, k, v)
        PROVE  Quiet
        BY <2>6 DEF SetRefused, Quiet
  <2>7. ASSUME NEW k, NEW v, SetInvalid(c, k, v)
        PROVE  Pending
    <3>1. CanBeSet(k) /\ slots' = Instantiate(k) /\ values' = values
          BY <2>7 DEF SetInvalid
    <3>2. slots' = slots \/ k \in Panel
          BY <3>1, AddressedHasPlace DEF ConfigdTypeOK
    <3>3. Write
          BY <3>1, <3>2 DEF Write
    <3> QED
        BY <2>7, <3>3 DEF SetInvalid, Pending
  <2>8. ASSUME NEW k, NEW v, SetBegins(c, k, v)
        PROVE  Pending
    <3> DEFINE x == Addressed(Instantiate(k), k)
    <3>1. /\ CanBeSet(k) /\ slots' = Instantiate(k)
          /\ v \in Accepts[x] /\ values' = [values EXCEPT ![x] = v]
          BY <2>8 DEF SetBegins
    <3>2. /\ x \in Key
          /\ x \in Panel => Has(slots', x)
          /\ slots' = slots \/ k \in Panel
          BY <3>1, AddressedHasPlace DEF ConfigdTypeOK
    <3>3. Write
          BY <3>1, <3>2 DEF Write
    <3> QED
        BY <2>8, <3>3 DEF SetBegins, Pending
  <2> QED
      BY <2>1, <2>2, <2>3, <2>4, <2>5, <2>6, <2>7, <2>8 DEF Handle
<1> QED
    BY <1>1, <1>2, <1>3, <1>4 DEF ConfigdNext, Start

-----------------------------------------------------------------------------
(* The inductive invariant: what is held in memory, what was told and what *)
(* is on disk are each a registry with sound slots.                        *)

HasSlots(v, s) ==
    /\ Distinct(s) /\ Len(s) <= MaxPattern
    /\ \A k \in Panel : v[k] # Empty => Has(s, k)

Memory ==
    /\ values \in Map /\ slots \in Seq(Panel)
    /\ Valid(values) /\ HasSlots(values, slots)
File ==
    /\ file \in [values : Map, slots : Seq(Panel)]
    /\ Valid(file.values) /\ HasSlots(file.values, file.slots)
Told ==
    /\ broadcast \in [values : Map, diverged : BOOLEAN]
    /\ Valid(broadcast.values)
Control ==
    /\ stage \in {"down", "baking", "saving", "idle"} /\ line \in Nat
    /\ diverged \in BOOLEAN
    /\ job.channel \in Channel \union {"none"}
Sound == Memory /\ File /\ Told /\ Control

LEMMA SoundGives ==
    Sound => ConfigdTypeOK /\ ValuesAreValid /\ SlotsAreSound
BY DEF Sound, Memory, File, Told, Control, HasSlots, Has, Map,
       ConfigdTypeOK, ValuesAreValid, SlotsAreSound

LEMMA LoadSound ==
    ASSUME File, Load
    PROVE  Memory'
<1> USE RegistryAssumption
<1>1. values' \in Map
      BY DEF File, Load, Map
<1>2. Valid(values')
      BY DEF File, Load, Valid, Map, Key
<1>3. \A k \in Panel : values'[k] # Empty => Has(file.slots, k)
      BY DEF File, Load, HasSlots, Key
<1> QED
    BY <1>1, <1>2, <1>3 DEF File, Load, Memory, HasSlots, Has, Distinct, Valid

LEMMA WriteSound ==
    ASSUME Memory, Write
    PROVE  Memory'
<1> USE RegistryAssumption
<1>1. /\ slots' \in Seq(Panel) /\ Distinct(slots') /\ Len(slots') <= MaxPattern
      /\ \A x \in Panel : Has(slots, x) => Has(slots', x)
  <2>1. CASE slots' = slots
        BY <2>1 DEF Memory, HasSlots
  <2>2. CASE \E k \in Panel : slots' = Instantiate(k)
        BY <2>2, InstantiateType DEF Memory, HasSlots
  <2> QED
      BY <2>1, <2>2 DEF Write
<1>2. CASE values' = values
      BY <1>1, <1>2 DEF Memory, HasSlots, Has, Distinct, Valid
<1>3. ASSUME NEW x \in Key, NEW v \in Accepts[x],
             values' = [values EXCEPT ![x] = v],
             x \in Panel => Has(slots', x)
      PROVE  Memory'
  <2>1. v \in Value
        OBVIOUS
  <2>2. /\ values' \in Map /\ values'[x] = v
        /\ \A k \in Key : k # x => values'[k] = values[k]
        BY <1>3, <2>1 DEF Memory, Map
  <2>3. Valid(values')
        BY <2>2 DEF Memory, Valid
  <2>4. \A k \in Panel : values'[k] # Empty => Has(slots', k)
        BY <1>1, <1>3, <2>2 DEF Memory, HasSlots, Key
  <2> QED
      BY <1>1, <2>2, <2>3, <2>4 DEF Memory, HasSlots, Has, Distinct, Valid
<1> QED
    BY <1>2, <1>3 DEF Write

LEMMA PublishSound ==
    ASSUME Memory', Control', Publish
    PROVE  Told'
BY DEF Memory, Control, Publish, Told, Valid

LEMMA SnapshotIsFile ==
    ASSUME Memory, file' \in Snapshots
    PROVE  File'
<1>1. /\ file' = [values |-> file'.values, slots |-> file'.slots]
      /\ file'.values \in Map
      /\ \A k \in Key : file'.values[k] \in {values[k], Empty}
      /\ file'.slots \in Seq(Panel)
      /\ Distinct(file'.slots) /\ Len(file'.slots) <= MaxPattern
      /\ \A k \in Panel : file'.values[k] # Empty => Has(file'.slots, k)
      BY SnapshotSound DEF Memory, HasSlots
<1>2. file' \in [values : Map, slots : Seq(Panel)]
      BY <1>1
<1>3. \A k \in Key : file'.values[k] \in Accepts[k] \union {Empty, Default[k]}
      BY <1>1 DEF Memory, Valid
<1> QED
    BY <1>1, <1>2, <1>3 DEF File, HasSlots, Has, Distinct, Valid

LEMMA UnsetSound ==
    Unset \in Map /\ Valid(Unset) /\ HasSlots(Unset, <<>>) /\ <<>> \in Seq(Panel)
BY RegistryAssumption DEF Unset, Map, Valid, HasSlots, Distinct, Key

LEMMA SoundInit == ConfigdInit => Sound
<1> SUFFICES ASSUME ConfigdInit PROVE Sound
    OBVIOUS
<1> USE DEF ConfigdInit
<1>1. Control
      BY DEF Control, NoJob, BootJob
<1> QED
    BY <1>1, UnsetSound DEF Sound, Memory, File, Told, NoFile

LEMMA SoundStep == Sound /\ [ConfigdNext]_configdVars => Sound'
<1> SUFFICES ASSUME Sound, [ConfigdNext]_configdVars PROVE Sound'
    OBVIOUS
<1> USE DEF Sound
<1>1. CASE BootPlain
  <2>1. Memory'
        BY <1>1, LoadSound DEF BootPlain
  <2>2. Control'
        BY <1>1 DEF BootPlain, Control
  <2>3. File'
        BY <1>1 DEF BootPlain, File, HasSlots, Has, Distinct, Valid
  <2> QED
      BY <1>1, <2>1, <2>2, <2>3, PublishSound DEF BootPlain
<1>2. CASE BootBakes
  <2>1. Memory'
        BY <1>2, LoadSound DEF BootBakes
  <2>2. Control'
        BY <1>2 DEF BootBakes, Control, BootJob
  <2>3. File' /\ Told'
        BY <1>2 DEF BootBakes, File, Told, HasSlots, Has, Distinct, Valid
  <2> QED
      BY <2>1, <2>2, <2>3
<1>3. CASE Saved
  <2>1. Memory'
        BY <1>3 DEF Saved, memory, Memory, HasSlots, Has, Distinct, Valid
  <2>2. Control'
        BY <1>3 DEF Saved, Control, NoJob, BootJob
  <2>3. File'
    <3>1. CASE UNCHANGED file
          BY <3>1 DEF File, HasSlots, Has, Distinct, Valid
    <3>2. CASE file' \in Snapshots
          BY <3>2, SnapshotIsFile
    <3> QED
        BY <1>3, <3>1, <3>2 DEF Saved, StoreWritten
  <2> QED
      BY <1>3, <2>1, <2>2, <2>3, PublishSound DEF Saved
<1>4. CASE \E b \in BOOLEAN : HandleLzModel(b)
  <2>1. PICK b \in BOOLEAN : HandleLzModel(b)
        BY <1>4
  <2>2. Memory'
        BY <2>1 DEF HandleLzModel, memory, Memory, HasSlots, Has, Distinct, Valid
  <2>3. Control'
        BY <2>1 DEF HandleLzModel, Control
  <2>4. File'
        BY <2>1 DEF HandleLzModel, File, HasSlots, Has, Distinct, Valid
  <2> QED
      BY <2>1, <2>2, <2>3, <2>4, PublishSound DEF HandleLzModel
<1>5. CASE Quiet
  <2>1. Memory'
        BY <1>5 DEF Quiet, memory, Memory, HasSlots, Has, Distinct, Valid
  <2>2. File' /\ Told'
        BY <1>5 DEF Quiet, File, Told, HasSlots, Has, Distinct, Valid
  <2>3. Control'
        BY <1>5 DEF Quiet, Control
  <2> QED
      BY <2>1, <2>2, <2>3
<1>6. CASE Pending
  <2>1. Memory'
        BY <1>6, WriteSound DEF Pending
  <2>2. File' /\ Told'
        BY <1>6 DEF Pending, File, Told, HasSlots, Has, Distinct, Valid
  <2>3. Control'
        BY <1>6 DEF Pending, Control
  <2> QED
      BY <2>1, <2>2, <2>3
<1>7. CASE Cleared
  <2>1. Memory' /\ Control'
    <3>1. /\ values' = Unset /\ slots' = <<>> /\ stage' = "down" /\ line' = 1
          /\ diverged' = FALSE /\ job' = NoJob
          BY <1>7 DEF Cleared
    <3>2. Memory'
          BY <3>1, UnsetSound DEF Memory, HasSlots, Has, Distinct, Valid
    <3>3. Control'
          BY <3>1 DEF Control, NoJob, BootJob
    <3> QED
        BY <3>2, <3>3
  <2>2. Told'
        BY <1>7 DEF Cleared, Told, Valid
  <2>3. File'
    <3>1. CASE file' = file
          BY <3>1 DEF File, HasSlots, Has, Distinct, Valid
    <3>2. CASE file' \in Snapshots
          BY <3>2, SnapshotIsFile
    <3> QED
        BY <1>7, <3>1, <3>2 DEF Cleared
  <2> QED
      BY <2>1, <2>2, <2>3
<1>8. CASE UNCHANGED configdVars
      BY <1>8 DEF configdVars, memory, Memory, File, Told, Control,
                  HasSlots, Has, Distinct, Valid
<1> QED
    BY <1>1, <1>2, <1>3, <1>4, <1>5, <1>6, <1>7, <1>8, StepCases, SoundGives

LEMMA SoundAlways == ConfigdSpec => []Sound
<1>1. ConfigdInit => Sound
      BY SoundInit
<1>2. Sound /\ [ConfigdNext]_configdVars => Sound'
      BY SoundStep
<1> QED
    BY <1>1, <1>2, PTL DEF ConfigdSpec

-----------------------------------------------------------------------------

(* Every variable keeps its type, whatever the registry and the bake file. *)
THEOREM ConfigdTypeCorrect == ConfigdSpec => []ConfigdTypeOK
BY SoundAlways, SoundGives, PTL

(* Memory, broadcast and file hold only values the registry accepts, even  *)
(* though _do_set may write a value to another key than the one it names.  *)
THEOREM ValuesAreValidHolds == ConfigdSpec => []ValuesAreValid
BY SoundAlways, SoundGives, PTL

(* The pool of per-panel keys never overflows, holds no key twice, in the  *)
(* daemon and in the file it will start from.                              *)
THEOREM SlotsAreSoundHolds == ConfigdSpec => []SlotsAreSound
BY SoundAlways, SoundGives, PTL

(* Between two requests the watchers have been told all there is.          *)
THEOREM WatchersAgreeHolds == ConfigdSpec => []WatchersAgree
<1>1. ConfigdInit => WatchersAgree
      BY DEF ConfigdInit, WatchersAgree
<1>2. ConfigdTypeOK /\ WatchersAgree /\ [ConfigdNext]_configdVars => WatchersAgree'
  <2> SUFFICES ASSUME ConfigdTypeOK, WatchersAgree, [ConfigdNext]_configdVars
               PROVE  WatchersAgree'
      OBVIOUS
  <2> USE DEF WatchersAgree
  <2>1. CASE BootPlain
        BY <2>1 DEF BootPlain, Publish
  <2>2. CASE BootBakes
        BY <2>2 DEF BootBakes
  <2>3. CASE Saved
        BY <2>3 DEF Saved, Publish
  <2>4. CASE \E b \in BOOLEAN : HandleLzModel(b)
        BY <2>4 DEF HandleLzModel, Publish
  <2>5. CASE Quiet
        BY <2>5 DEF Quiet, memory
  <2>6. CASE Pending
        BY <2>6 DEF Pending
  <2>7. CASE Cleared
        BY <2>7 DEF Cleared
  <2>8. CASE UNCHANGED configdVars
        BY <2>8 DEF configdVars, memory
  <2> QED
      BY <2>1, <2>2, <2>3, <2>4, <2>5, <2>6, <2>7, <2>8, StepCases
<1> QED
    BY <1>1, <1>2, ConfigdTypeCorrect, PTL DEF ConfigdSpec

-----------------------------------------------------------------------------
(* The daemon implements its promise as long as no value has a quotation   *)
(* mark in it: such a value is lost by the store.                          *)

(* The baked lines before line n are applied to c, and d is the result.    *)
PartlyBaked(c, d, n) ==
    \A k \in Key :
        \/ d[k] = c[k] /\ (k \in Flat => \A j \in Promise!LinesOf(k) : j >= n)
        \/ \E i \in Promise!LinesOf(k) :
              /\ i < n /\ d[k] = BakeLines[i].value
              /\ k \in Flat => \A j \in Promise!LinesOf(k) : j < n => j <= i

(* What the change under way starts from.                                  *)
Base == IF job = BootJob THEN Promise!Filled ELSE broadcast.values

(* Between two publications the memory is on its way from what the abstract *)
(* state holds to what it will hold next.                                  *)
Underway ==
    /\ stage \in {"down", "idle"} => job = NoJob
    /\ stage \in {"baking", "saving"} => job = BootJob \/ job.op = "set"
    /\ stage \in {"baking", "saving"} /\ job = BootJob => Promise!ToBake
    /\ stage = "baking" =>
          BakeUsable /\ line > 0 /\ PartlyBaked(Base, values, line)
    /\ stage = "saving" =>
          \/ Promise!Baked(Base, values)
          \/ job # BootJob /\ Promise!OneKeySet(Base, values)

(* The steps, by what they do to the state the abstraction is drawn from.  *)
Answers == stage = "idle" /\ UNCHANGED <<stage, values, job, broadcast, file>>

ResetStarts ==
    /\ stage = "idle" /\ BakeUsable
    /\ stage' = "baking" /\ line' = 1 /\ job'.op = "set"
    /\ UNCHANGED <<values, broadcast, file>>

SetStarts ==
    /\ stage = "idle" /\ stage' = "saving" /\ job'.op = "set"
    /\ \E x \in Key \ ReadOnly : \E v \in Accepts[x] :
          values' = [values EXCEPT ![x] = v]
    /\ UNCHANGED <<broadcast, file>>

LEMMA AddressedIsNotReadOnly ==
    ASSUME slots \in Seq(Panel), NEW k, CanBeSet(k), k \notin ReadOnly
    PROVE  Addressed(Instantiate(k), k) \in Key \ ReadOnly
<1> USE RegistryAssumption
<1> DEFINE sl == Instantiate(k)
           x  == Addressed(sl, k)
<1>1. k \in Key /\ x \in Key
      BY AddressedHasPlace DEF CanBeSet, Known, Key
<1>2. sl \in Seq(Panel)
      BY InstantiateType, <1>1 DEF Instantiate, Known, Key
<1>3. CASE k \in Flat
  <2> DEFINE i == Position(FlatOrder, k)
  <2>1. i \in DOMAIN FlatOrder /\ FlatOrder[i] = k
        BY <1>3 DEF Position, Flat
  <2>2. x = IF i <= Len(sl) THEN sl[i] ELSE FlatOrder[i]
        BY <1>3 DEF Addressed
  <2>3. i <= Len(sl) => sl[i] \in Panel
        BY <1>2, <2>1
  <2> QED
      BY <1>1, <2>1, <2>2, <2>3
<1>4. CASE k \notin Flat
  <2>1. k \in Panel
        BY <1>1, <1>4 DEF Key
  <2>2. x \in Panel
    <3>1. \E i \in DOMAIN sl : sl[i] = k
      <4>1. CASE Known(k)
            BY <4>1, <1>4 DEF Instantiate, Known
      <4>2. CASE ~Known(k)
        <5>1. sl = Append(slots, k)
              BY <4>2 DEF Instantiate, CanBeSet
        <5> QED
            BY <5>1
      <4> QED
          BY <4>1, <4>2
    <3> DEFINE i == Position(sl, k)
    <3>2. i \in DOMAIN sl /\ sl[i] = k
          BY <3>1 DEF Position
    <3>3. x = k
          BY <3>2, <1>2, <1>4 DEF Addressed
    <3> QED
        BY <3>3, <2>1
  <2> QED
      BY <1>1, <2>2
<1> QED
    BY <1>3, <1>4

LEMMA StepKinds ==
    ASSUME Sound, ConfigdNext
    PROVE  \/ BootPlain \/ BootBakes \/ BakeLine \/ BakeMarked \/ Saved \/ Crash
           \/ \E b \in BOOLEAN : HandleLzModel(b)
           \/ Answers \/ ResetStarts \/ SetStarts
<1> SUFFICES ASSUME NEW c \in Channel, Handle(c)
             PROVE  Answers \/ ResetStarts \/ SetStarts
    BY DEF ConfigdNext, Start
<1> USE DEF Rest, memory, Fresh, Answers
<1>1. CASE HandleMalformed(c)
      BY <1>1 DEF HandleMalformed
<1>2. CASE HandleList(c)
      BY <1>2 DEF HandleList
<1>3. ASSUME NEW k, NEW op, HandleInvalid(c, op, k)
      PROVE  Answers
      BY <1>3 DEF HandleInvalid
<1>4. ASSUME NEW k, DoGet(c, k)
      PROVE  Answers
      BY <1>4 DEF DoGet
<1>5. ASSUME NEW k, NEW v, ResetBegins(c, k, v)
      PROVE  ResetStarts
      BY <1>5 DEF ResetBegins, ResetStarts
<1>6. ASSUME NEW k, NEW v, SetRefused(c, k, v)
      PROVE  Answers
      BY <1>6 DEF SetRefused
<1>7. ASSUME NEW k, NEW v, SetInvalid(c, k, v)
      PROVE  Answers
      BY <1>7 DEF SetInvalid
<1>8. ASSUME NEW k, NEW v, SetBegins(c, k, v)
      PROVE  SetStarts
  <2> DEFINE x == Addressed(Instantiate(k), k)
  <2>1. /\ CanBeSet(k) /\ k \notin ReadOnly
        /\ v \in Accepts[x] /\ values' = [values EXCEPT ![x] = v]
        BY <1>8 DEF SetBegins
  <2>2. x \in Key \ ReadOnly
        BY <2>1, AddressedIsNotReadOnly DEF Sound, Memory
  <2>3. \E y \in Key \ ReadOnly : \E w \in Accepts[y] :
           values' = [values EXCEPT ![y] = w]
        BY <2>1, <2>2
  <2> QED
      BY <1>8, <2>3 DEF SetBegins, SetStarts
<1> QED
    BY <1>1, <1>2, <1>3, <1>4, <1>5, <1>6, <1>7, <1>8 DEF Handle

(* Without quotation marks the store reads back what was written.          *)
LEMMA SnapshotIsWhole ==
    ASSUME Sound, Quoted = {}, NEW f \in Snapshots
    PROVE  f.values = values
<1>1. Readable = values
      BY DEF Readable, Sound, Memory, Map
<1>2. f \in {[values |-> Readable, slots |-> s] :
                s \in InNameOrder({k \in Panel : Known(k) /\ Readable[k] # Empty})}
      BY <1>1 DEF Snapshots
<1>3. \E s : f = [values |-> Readable, slots |-> s]
      BY <1>2
<1>4. PICK s : f = [values |-> Readable, slots |-> s]
      BY <1>3
<1> QED
    BY <1>1, <1>4

-----------------------------------------------------------------------------
(* Baking, line by line. *)

LEMMA BakingStarts ==
    ASSUME NEW c, RegistryAssumption, BakeAssumption
    PROVE  PartlyBaked(c, c, 1)
BY BakeAssumption DEF PartlyBaked, Promise!LinesOf

LEMMA BakingGoesOn ==
    ASSUME Sound, NEW c, line > 0, PartlyBaked(c, values, line), BakeLine
    PROVE  PartlyBaked(c, values', line + 1)
<1> USE RegistryAssumption, BakeAssumption
<1> DEFINE k == BakeLines[line].key
           v == BakeLines[line].value
<1>1. line \in DOMAIN BakeLines /\ line \in Nat
      BY DEF BakeAssumption, BakeLine, Sound, Control
<1>2. k \in Key \union Foreign
  <2> DEFINE R == [key : Key \union Foreign, value : Value \union {Empty}]
  <2>1. BakeLines \in Seq(R)
        BY DEF BakeAssumption
  <2> HIDE DEF R
  <2>2. BakeLines[line] \in R
        BY ONLY <1>1, <2>1
  <2> QED
      BY <2>2 DEF R
<1>3. slots' \in Seq(Panel)
      BY InstantiateType, RegistryAssumption DEF BakeLine, Sound, Memory
<1>4. (\E i \in DOMAIN slots' : slots'[i] = k) => k \in Panel
      BY <1>3
<1>5. values' = IF /\ k \in Flat \/ \E i \in DOMAIN slots' : slots'[i] = k
                   /\ v \in Accepts[k]
                THEN [values EXCEPT ![k] = v] ELSE values
      BY DEF BakeLine
<1>6. values \in Map
      BY DEF Sound, Memory
<1> SUFFICES ASSUME NEW x \in Key
    PROVE \/ values'[x] = c[x] /\ (x \in Flat => \A j \in Promise!LinesOf(x) : j >= line + 1)
          \/ \E i \in Promise!LinesOf(x) :
                /\ i < line + 1 /\ values'[x] = BakeLines[i].value
                /\ x \in Flat => \A j \in Promise!LinesOf(x) : j < line + 1 => j <= i
    BY DEF PartlyBaked
<1>7. \A j \in Promise!LinesOf(x) : j \in Nat
      BY DEF Promise!LinesOf
<1>8. CASE /\ x = k /\ v \in Accepts[k]
           /\ k \in Flat \/ \E i \in DOMAIN slots' : slots'[i] = k
  <2>1. values'[x] = v
        BY <1>5, <1>6, <1>8 DEF Map
  <2>2. line \in Promise!LinesOf(x)
        BY <1>1, <1>8 DEF Promise!LinesOf
  <2>3. \A j \in Promise!LinesOf(x) : j < line + 1 => j <= line
        BY <1>7, <1>1
  <2> QED
      BY <2>1, <2>2, <2>3, <1>1
<1>9. CASE ~(/\ x = k /\ v \in Accepts[k]
             /\ k \in Flat \/ \E i \in DOMAIN slots' : slots'[i] = k)
  <2>1. values'[x] = values[x]
        BY <1>5, <1>6, <1>9 DEF Map
  <2>2. x \in Flat => line \notin Promise!LinesOf(x)
        BY <1>9 DEF Promise!LinesOf
  <2>3. x \in Flat => \A j \in Promise!LinesOf(x) :
                         (j >= line => j >= line + 1) /\ (j < line + 1 => j < line)
        BY <1>1, <1>7, <2>2
  <2>4. CASE values[x] = c[x] /\ (x \in Flat => \A j \in Promise!LinesOf(x) : j >= line)
        BY <2>1, <2>3, <2>4
  <2>5. CASE \E i \in Promise!LinesOf(x) :
                /\ i < line /\ values[x] = BakeLines[i].value
                /\ x \in Flat => \A j \in Promise!LinesOf(x) : j < line => j <= i
    <3>1. PICK i \in Promise!LinesOf(x) :
                /\ i < line /\ values[x] = BakeLines[i].value
                /\ x \in Flat => \A j \in Promise!LinesOf(x) : j < line => j <= i
          BY <2>5
    <3>2. i < line + 1
          BY <3>1, <1>1, <1>7
    <3> QED
        BY <2>1, <2>3, <3>1, <3>2
  <2> QED
      BY <2>4, <2>5 DEF PartlyBaked
<1> QED
    BY <1>8, <1>9

LEMMA BakingEnds ==
    ASSUME Sound, NEW c, BakeUsable, PartlyBaked(c, values, line),
           line > Len(BakeLines), values' = [values EXCEPT ![Applied] = "yes"]
    PROVE  Promise!Baked(c, values')
<1> USE RegistryAssumption, BakeAssumption
<1>1. Applied \in Key /\ values \in Map /\ line \in Nat
      BY DEF Key, Sound, Memory, Control
<1>2. values'[Applied] = "yes"
      BY <1>1 DEF Map
<1>3. ASSUME NEW k \in Key \ {Applied}
      PROVE  \/ k \notin Flat /\ values'[k] = c[k]
             \/ Promise!LinesOf(k) = {} /\ values'[k] = c[k]
             \/ \E i \in Promise!LinesOf(k) :
                   /\ k \in Flat => \A j \in Promise!LinesOf(k) : j <= i
                   /\ values'[k] = BakeLines[i].value
  <2>1. values'[k] = values[k]
        BY <1>1 DEF Map
  <2>2. \A j \in Promise!LinesOf(k) : j \in Nat /\ j < line /\ ~(j >= line)
        BY <1>1 DEF Promise!LinesOf
  <2> QED
      BY <2>1, <2>2 DEF PartlyBaked
<1> QED
    BY <1>2, <1>3 DEF Promise!Baked

(* What a load brings into the memory.                                     *)
LEMMA LoadFills ==
    ASSUME Load
    PROVE  values' = Promise!Filled
BY DEF Load, Promise!Filled

LEMMA UnderwayStep ==
    Sound /\ WatchersAgree /\ Underway /\ [ConfigdNext]_configdVars => Underway'
<1> SUFFICES ASSUME Sound, WatchersAgree, Underway, [ConfigdNext]_configdVars
             PROVE  Underway'
    OBVIOUS
<1> USE DEF Underway
<1>0. NoJob # BootJob /\ NoJob.op = "none" /\ BootJob.op = "boot"
      BY DEF NoJob, BootJob
<1>1. CASE BootPlain
      BY <1>1, <1>0 DEF BootPlain
<1>2. CASE BootBakes
  <2>1. values' = Promise!Filled /\ UNCHANGED file
        BY <1>2, LoadFills DEF BootBakes
  <2>2. Promise!Filled' = Promise!Filled /\ (Promise!ToBake <=> Promise!ToBake')
        BY <2>1 DEF Promise!Filled, Promise!ToBake
  <2>3. stage' = "baking" /\ line' = 1 /\ job' = BootJob /\ BakeUsable
        BY <1>2 DEF BootBakes
  <2>4. Promise!ToBake
        BY <1>2, <2>1 DEF BootBakes, Promise!ToBake
  <2>5. Base' = values'
        BY <2>1, <2>2, <2>3 DEF Base
  <2>6. PartlyBaked(Base', values', line')
        BY <2>3, <2>5, BakingStarts, RegistryAssumption, BakeAssumption
  <2> QED
      BY <2>2, <2>3, <2>4, <2>6 DEF PartlyBaked
<1>3. CASE BakeLine
  <2>1. /\ stage = "baking" /\ UNCHANGED <<stage, job, broadcast, file>>
        /\ line' = line + 1
        BY <1>3 DEF BakeLine
  <2>2. Base' = Base /\ (Promise!ToBake <=> Promise!ToBake')
        BY <2>1 DEF Base, Promise!Filled, Promise!ToBake
  <2>3. PartlyBaked(Base, values', line')
        BY <1>3, <2>1, BakingGoesOn
  <2>4. line' > 0
        BY <2>1 DEF Sound, Control
  <2> QED
      BY <2>1, <2>2, <2>3, <2>4 DEF PartlyBaked
<1>4. CASE BakeMarked
  <2>1. /\ stage = "baking" /\ stage' = "saving" /\ UNCHANGED <<job, broadcast, file>>
        /\ line > Len(BakeLines) /\ values' = [values EXCEPT ![Applied] = "yes"]
        BY <1>4 DEF BakeMarked
  <2>2. Base' = Base /\ (Promise!ToBake <=> Promise!ToBake')
        BY <2>1 DEF Base, Promise!Filled, Promise!ToBake
  <2>3. Promise!Baked(Base, values')
        BY <2>1, BakingEnds
  <2>4. Promise!Baked(Base, values)'
        BY <2>2, <2>3 DEF Promise!Baked
  <2> QED
      BY <2>1, <2>2, <2>4
<1>5. CASE Saved
      BY <1>5, <1>0 DEF Saved
<1>6. CASE Crash
      BY <1>6, <1>0 DEF Crash
<1>7. CASE \E b \in BOOLEAN : HandleLzModel(b)
      BY <1>7 DEF HandleLzModel
<1>8. CASE Answers
      BY <1>8 DEF Answers
<1>9. CASE ResetStarts
  <2>1. /\ stage' = "baking" /\ line' = 1 /\ job'.op = "set" /\ BakeUsable
        /\ values' = values /\ broadcast' = broadcast
        BY <1>9 DEF ResetStarts
  <2>2. job' # BootJob
        BY <2>1, <1>0
  <2>3. broadcast.values = values
        BY <1>9 DEF ResetStarts, WatchersAgree
  <2>4. Base' = values'
        BY <2>1, <2>2, <2>3 DEF Base
  <2>5. PartlyBaked(Base', values', line')
        BY <2>1, <2>4, BakingStarts, RegistryAssumption, BakeAssumption
  <2> QED
      BY <2>1, <2>2, <2>5 DEF PartlyBaked
<1>10. CASE SetStarts
  <2>1. /\ stage' = "saving" /\ job'.op = "set" /\ broadcast' = broadcast
        /\ broadcast.values = values
        BY <1>10 DEF SetStarts, WatchersAgree
  <2>2. job' # BootJob
        BY <2>1, <1>0
  <2>3. Base' = values
        BY <2>1, <2>2 DEF Base
  <2>4. PICK x \in Key \ ReadOnly : \E v \in Accepts[x] : values' = [values EXCEPT ![x] = v]
        BY <1>10 DEF SetStarts
  <2>5. values'[x] \in Accepts[x] /\ \A o \in Key \ {x} : values'[o] = values[o]
        BY <2>4 DEF Sound, Memory, Map
  <2>6. Promise!OneKeySet(values, values')
        BY <2>5 DEF Promise!OneKeySet
  <2> QED
      BY <2>1, <2>2, <2>3, <2>6 DEF Promise!OneKeySet
<1>11. CASE UNCHANGED configdVars
  <2>1. Base' = Base /\ (Promise!ToBake <=> Promise!ToBake')
        BY <1>11 DEF configdVars, Base, Promise!Filled, Promise!ToBake
  <2>2. UNCHANGED <<stage, line, values, job>>
        BY <1>11 DEF configdVars, memory
  <2>3. /\ PartlyBaked(Base', values', line') <=> PartlyBaked(Base, values, line)
        /\ Promise!Baked(Base', values') <=> Promise!Baked(Base, values)
        /\ Promise!OneKeySet(Base', values') <=> Promise!OneKeySet(Base, values)
        BY <2>1, <2>2
  <2> QED
      BY <2>1, <2>2, <2>3 DEF PartlyBaked, Promise!Baked, Promise!OneKeySet
<1> QED
    BY <1>1, <1>2, <1>3, <1>4, <1>5, <1>6, <1>7, <1>8, <1>9, <1>10, <1>11, StepKinds

-----------------------------------------------------------------------------
(* Every step is one of the promise, or cannot be seen in it. *)

Up == stage # "down" /\ job # BootJob

LEMMA PromiseStep ==
    ASSUME Sound, WatchersAgree, Underway, Quoted = {}, [ConfigdNext]_configdVars
    PROVE  [Promise!Next]_<<broadcast.values, file.values,
                            stage # "down" /\ job # BootJob>>
<1> USE DEF Underway
<1>0. NoJob # BootJob /\ NoJob.op = "none" /\ BootJob.op = "boot"
      BY DEF NoJob, BootJob
<1> DEFINE Unseen == /\ broadcast'.values = broadcast.values /\ file' = file
                     /\ Up' <=> Up
<1>1. CASE BootPlain
  <2>1. values' = Promise!Filled /\ UNCHANGED file /\ broadcast'.values = values'
        BY <1>1, LoadFills DEF BootPlain, Publish
  <2>2. ~Up /\ Up'
        BY <1>1, <1>0 DEF BootPlain, Up
  <2>3. ~Promise!ToBake
        BY <1>1, <2>1 DEF BootPlain, Promise!ToBake
  <2>4. Promise!Restart
        BY <2>1, <2>2, <2>3 DEF Promise!Restart, Up
  <2> QED
      BY <2>4 DEF Promise!Next
<1>2. CASE BootBakes
      BY <1>2 DEF BootBakes
<1>3. CASE BakeLine
      BY <1>3 DEF BakeLine
<1>4. CASE BakeMarked
      BY <1>4 DEF BakeMarked
<1>5. CASE Saved
  <2>1. broadcast'.values = values /\ job' = NoJob /\ stage = "saving" /\ stage' = "idle"
        BY <1>5 DEF Saved, Publish, memory
  <2>2. Promise!Written(broadcast'.values)
    <3>1. CASE Persistent /\ file' \in Snapshots
      <4>1. file'.values = values
            BY <3>1, SnapshotIsWhole
      <4> QED
          BY <2>1, <3>1, <4>1 DEF Promise!Written
    <3>2. CASE (Persistent => WritesFail) /\ UNCHANGED file
          BY <3>2 DEF Promise!Written
    <3> QED
        BY <1>5, <3>1, <3>2 DEF Saved, StoreWritten
  <2>3. Up'
        BY <2>1, <1>0 DEF Up
  <2>4. CASE job = BootJob
    <3>1. ~Up /\ Promise!ToBake /\ Promise!Baked(Promise!Filled, broadcast'.values)
          BY <2>1, <2>4 DEF Up, Base
    <3>2. Promise!Restart
          BY <2>2, <2>3, <3>1 DEF Promise!Restart, Up
    <3> QED
        BY <3>2 DEF Promise!Next
  <2>5. CASE job # BootJob
    <3>1. Up /\ Promise!Changed(broadcast.values, broadcast'.values)
          BY <2>1, <2>5 DEF Up, Base, Promise!Changed
    <3>2. Promise!Change
          BY <2>2, <2>3, <3>1 DEF Promise!Change, Up
    <3> QED
        BY <3>2 DEF Promise!Next
  <2> QED
      BY <2>4, <2>5
<1>6. CASE Crash
  <2>1. /\ ~Up' /\ broadcast' = broadcast /\ stage # "down"
        /\ file' = file \/ (stage = "saving" /\ Persistent /\ file' \in Snapshots)
        BY <1>6 DEF Crash, Up
  <2>2. CASE file' = file /\ ~Up
        BY <2>1, <2>2 DEF Up
  <2>3. CASE file' = file /\ Up
    <3>1. Promise!Crash
          BY <2>1, <2>3 DEF Promise!Crash, Up
    <3> QED
        BY <3>1 DEF Promise!Next
  <2>4. CASE stage = "saving" /\ Persistent /\ file' \in Snapshots
    <3>1. file'.values = values
          BY <2>4, SnapshotIsWhole
    <3>2. CASE job = BootJob
      <4>1. Promise!ToBake /\ Promise!Baked(Promise!Filled, file'.values) /\ ~Up
            BY <2>4, <3>1, <3>2 DEF Base, Up
      <4>2. Promise!CrashInRestart
            BY <2>1, <2>4, <4>1 DEF Promise!CrashInRestart, Up
      <4> QED
          BY <4>2 DEF Promise!Next
    <3>3. CASE job # BootJob
      <4>1. Promise!Changed(broadcast.values, file'.values) /\ Up
            BY <2>4, <3>1, <3>3 DEF Base, Up, Promise!Changed
      <4>2. Promise!Crash
            BY <2>1, <2>4, <4>1 DEF Promise!Crash, Up
      <4> QED
          BY <4>2 DEF Promise!Next
    <3> QED
        BY <3>2, <3>3
  <2> QED
      BY <2>1, <2>2, <2>3, <2>4
<1>7. CASE \E b \in BOOLEAN : HandleLzModel(b)
  <2>1. /\ stage = "idle" /\ UNCHANGED <<values, stage, job, file>>
        /\ broadcast'.values = values'
        BY <1>7 DEF HandleLzModel, Publish, memory
  <2>2. broadcast'.values = broadcast.values
        BY <2>1 DEF WatchersAgree
  <2> QED
      BY <2>1, <2>2
<1>8. CASE Answers
      BY <1>8 DEF Answers
<1>9. CASE ResetStarts
      BY <1>9, <1>0 DEF ResetStarts
<1>10. CASE SetStarts
      BY <1>10, <1>0 DEF SetStarts
<1>11. CASE UNCHANGED configdVars
      BY <1>11 DEF configdVars
<1> QED
    BY <1>1, <1>2, <1>3, <1>4, <1>5, <1>6, <1>7, <1>8, <1>9, <1>10, <1>11, StepKinds

(* The daemon implements its promise.  Through the broadcast a watcher     *)
(* sees one key change at a time, or the baked defaults come in whole; a   *)
(* restart brings back what was stored last, or what was about to be.      *)
THEOREM ImplementsHolds ==
    ASSUME Quoted = {}
    PROVE  ConfigdSpec => Implements
<1>1. ConfigdInit => Underway
      BY DEF ConfigdInit, Underway, NoJob
<1>2. Sound /\ WatchersAgree /\ Underway /\ [ConfigdNext]_configdVars => Underway'
      BY UnderwayStep
<1>3. ConfigdInit => Promise!Init
      BY DEF ConfigdInit, Promise!Init, Promise!NothingStored, Unset, NoFile
<1>4. Sound /\ WatchersAgree /\ Underway /\ [ConfigdNext]_configdVars
      => [Promise!Next]_<<broadcast.values, file.values,
                          stage # "down" /\ job # BootJob>>
      BY PromiseStep
<1> QED
    BY <1>1, <1>2, <1>3, <1>4, SoundAlways, WatchersAgreeHolds, PTL
       DEF ConfigdSpec, Implements, Promise!Spec
=============================================================================
