---------------------------- MODULE LogdiskProofs ----------------------------
(***************************************************************************)
(* The cursors of the log sink stay in order, and its file within its cap, *)
(* for every size of buffer, line and file that LogdiskAssumption admits.  *)
(***************************************************************************)
EXTENDS Logdisk, SequenceTheorems, TLAPS

(* What the front cursor is held below, besides CursorsInOrder: the half   *)
(* of the buffer, at which the rest is moved to the front.                 *)
CursorInv == LogdiskTypeOK /\ CursorsInOrder /\ pendingOff <= PendingMax \div 2

(* Making room for a line of admissible length leaves the cursors in order *)
(* and room for the line: _append_locked never refuses one.                *)
LEMMA RoomIsMade ==
    ASSUME CursorInv, NEW len \in 1..LineMax, Overflowing(len)
    PROVE  LET room == MadeRoom(len)
           IN  /\ room.off \in Nat /\ room.end \in Nat
               /\ room.bytes \in [1..PendingMax -> 0..MaxLines]
               /\ room.off <= room.end /\ room.end + len <= PendingMax
               /\ room.off <= PendingMax \div 2
<1> DEFINE excess == pendingLen + len - PendingMax
           off == pendingOff + excess
           end == pendingLen - excess
           rest == end - off
<1>1. /\ PendingMax \in Nat /\ LineMax \in Nat /\ PendingMax >= 4 * LineMax
      /\ pendingOff \in Nat /\ pendingLen \in Nat
      /\ pendingOff <= pendingLen /\ pendingLen <= PendingMax
      /\ pendingOff <= PendingMax \div 2
      /\ pending \in [1..PendingMax -> 0..MaxLines]
      /\ pendingLen + len > PendingMax /\ len \in Nat /\ len <= LineMax
  BY LogdiskAssumption DEF CursorInv, LogdiskTypeOK, CursorsInOrder, Overflowing
<1>2. /\ excess \in Nat /\ excess <= len
      /\ end = PendingMax - len
      /\ off \in Nat /\ end \in Nat
      /\ off <= end
  BY <1>1
<1>3. CASE off < PendingMax \div 2
  <2>1. MadeRoom(len) = [bytes |-> pending, off |-> off, end |-> end]
    BY <1>3 DEF MadeRoom
  <2> QED BY <2>1, <1>1, <1>2, <1>3
<1>4. CASE ~(off < PendingMax \div 2)
  <2> DEFINE moved == [i \in 1..PendingMax |->
                         IF i <= rest THEN pending[off + i] ELSE pending[i]]
  <2>1. MadeRoom(len) = [bytes |-> moved, off |-> 0, end |-> rest]
    BY <1>4 DEF MadeRoom
  <2>2. rest \in Nat /\ off + rest = end
    BY <1>2
  <2>3. moved \in [1..PendingMax -> 0..MaxLines]
    <3> SUFFICES ASSUME NEW i \in 1..PendingMax
                 PROVE  moved[i] \in 0..MaxLines
      OBVIOUS
    <3>1. CASE i <= rest
      <4>1. off + i \in 1..PendingMax
        BY <1>1, <1>2, <2>2, <3>1
      <4> QED BY <4>1, <3>1, <1>1
    <3>2. CASE ~(i <= rest)
      BY <3>2, <1>1
    <3> QED BY <3>1, <3>2
  <2>4. rest + len <= PendingMax /\ 0 <= PendingMax \div 2
    BY <1>1, <1>2, <2>2
  <2> QED BY <2>1, <2>2, <2>3, <2>4
<1> QED BY <1>3, <1>4

LEMMA CursorsInit == LogdiskInit => CursorInv
<1> SUFFICES ASSUME LogdiskInit PROVE CursorInv
  OBVIOUS
<1> USE LogdiskAssumption DEF LogdiskInit
<1>1. pending \in [1..PendingMax -> 0..MaxLines]
  OBVIOUS
<1>2. drain \in [off : Nat, len : Nat, done : Nat, tick : BOOLEAN]
  BY DEF NoDrain
<1>3. CursorsInOrder /\ pendingOff <= PendingMax \div 2
  BY DEF CursorsInOrder, NoDrain
<1>4. onDisk \in Nat /\ at \in Places /\ lines \in 0..MaxLines
  BY DEF Places
<1> QED BY <1>1, <1>2, <1>3, <1>4 DEF CursorInv, LogdiskTypeOK

(* A line goes between the end and the end of the buffer. *)
LEMMA AppendKeeps ==
    ASSUME CursorInv, NEW len \in 1..LineMax, NEW room, lines < MaxLines,
           room.off \in Nat, room.end \in Nat,
           room.bytes \in [1..PendingMax -> 0..MaxLines],
           room.off <= room.end, room.end + len <= PendingMax,
           room.off <= PendingMax \div 2,
           Appended(room, len), lines' = lines + 1, dropped' \in BOOLEAN,
           undisturbed' \in BOOLEAN,
           UNCHANGED <<medium, tickPending, ioActive, at, drain>>
    PROVE  CursorInv'
<1>1. /\ pendingOff' \in Nat /\ pendingLen' \in Nat
      /\ pendingOff' <= pendingLen' /\ pendingLen' <= PendingMax
      /\ pendingOff' <= PendingMax \div 2
  BY DEF Appended
<1>2. lines + 1 \in 0..MaxLines
  BY LogdiskAssumption DEF CursorInv, LogdiskTypeOK
<1>3. pending' \in [1..PendingMax -> 0..MaxLines]
  BY <1>2 DEF Appended
<1> QED
  BY <1>1, <1>2, <1>3 DEF CursorInv, LogdiskTypeOK, CursorsInOrder, medium

(* What FileWithinCap says of the file, of a record of its four variables. *)
MediumKept(m) ==
    /\ m.file \in BOOLEAN /\ m.whole \in BOOLEAN
    /\ m.bytes \in Nat /\ m.disk \in Nat
    /\ m.file => m.bytes <= MaxBytes
    /\ m.whole => m.disk <= MaxBytes /\ (m.file => m.bytes = m.disk)
    /\ m.disk < MaxBytes + PendingMax

(* A drain that runs has a file, with room in it for the rest of its batch *)
(* as _file_bytes counts; and a file all of whose writes were whole has    *)
(* none of a batch that is still being written.                            *)
FileInv ==
    /\ FileWithinCap
    /\ at \in {"rotate", "open"} => ~file
    /\ at \in {"emit", "write"} => file
    /\ at = "emit" => drain.done = 0
    /\ at = "write" => fileBytes + (drain.len - drain.done) <= MaxBytes
    /\ at = "write" => drain.done < drain.len
    /\ at = "emit" => 0 < drain.len
    /\ at = "write" /\ whole => drain.done = 0

LogdiskInv == CursorInv /\ FileInv

LEMMA FileInit == LogdiskInit => FileInv
  BY LogdiskAssumption DEF LogdiskInit, FileInv, FileWithinCap

(* A line of the sink's own, for which there is room, leaves the file as   *)
(* FileWithinCap has it, however it is written.                            *)
LEMMA OwnLineKeeps ==
    ASSUME NEW m, MediumKept(m), m.file, m.bytes + OwnLineBytes <= MaxBytes,
           NEW outcome \in Outcomes
    PROVE  MediumKept(OwnLineIn(m, outcome))
<1> DEFINE o == OwnLineIn(m, outcome)
           taken == outcome \in {"whole", "split"}
           end == [whole |-> 2, split |-> 3, part |-> 1, none |-> 0]
           k == end[outcome]
<1>1. /\ PendingMax \in Nat /\ MaxBytes \in Nat /\ PendingMax >= 4
  BY LogdiskAssumption
<1>2. /\ m.bytes \in Nat /\ m.disk \in Nat
      /\ m.bytes + 2 <= MaxBytes /\ m.disk < MaxBytes + PendingMax
      /\ m.whole => m.disk = m.bytes
  BY DEF MediumKept, OwnLineBytes
<1>3. k \in 0..3 /\ (taken => k >= 2) /\ (outcome \in {"whole", "none"} => k <= 2)
      /\ (outcome = "whole" => k = 2) /\ (outcome = "none" => k = 0)
  BY DEF Outcomes
<1>4. /\ o.file = taken
      /\ o.bytes = IF taken THEN m.bytes + 2 ELSE 0
      /\ o.disk = Reach(m.disk, m.bytes + k)
      /\ o.whole = (m.whole /\ outcome \in {"whole", "none"})
  BY DEF OwnLineIn, OwnLineBytes
<1> HIDE DEF k, o
<1>5. /\ o.file \in BOOLEAN /\ o.whole \in BOOLEAN
      /\ o.file => taken
      /\ o.whole => m.whole /\ outcome \in {"whole", "none"}
  <2>0. o.file = taken /\ taken \in BOOLEAN
    BY <1>4
  <2>1. o.file \in BOOLEAN /\ (o.file => taken)
    <3> HIDE DEF taken
    <3> QED
      BY <2>0
  <2>2. o.whole = (m.whole /\ outcome \in {"whole", "none"})
    BY <1>4
  <2>3. o.whole \in BOOLEAN
    BY <2>2, Zenon
  <2>4. o.whole => m.whole /\ outcome \in {"whole", "none"}
    BY <2>2, Zenon
  <2> QED
    BY <2>1, <2>3, <2>4
<1>6. taken /\ outcome \in {"whole", "none"} => outcome = "whole"
  OBVIOUS
<1>7. /\ o.bytes \in Nat /\ o.disk \in Nat /\ o.disk < MaxBytes + PendingMax
      /\ taken => o.bytes = m.bytes + 2
  BY <1>1, <1>2, <1>3, <1>4 DEF Reach
<1>8. ASSUME m.disk = m.bytes, outcome \in {"whole", "none"}
      PROVE  o.disk <= MaxBytes /\ (outcome = "whole" => o.disk = m.bytes + 2)
  BY <1>1, <1>2, <1>3, <1>4, <1>8 DEF Reach
<1> HIDE DEF taken
<1>9. o.file => o.bytes <= MaxBytes
  BY <1>2, <1>5, <1>7
<1>10. o.whole => o.disk <= MaxBytes
  BY <1>2, <1>5, <1>8
<1>11. o.whole /\ o.file => o.bytes = o.disk
  <2> SUFFICES ASSUME o.whole, o.file PROVE o.bytes = o.disk
    OBVIOUS
  <2>1. m.disk = m.bytes /\ outcome = "whole" /\ o.bytes = m.bytes + 2
    BY <1>2, <1>5, <1>6, <1>7
  <2> QED
    BY <2>1, <1>8
<1> QED
  BY <1>5, <1>7, <1>9, <1>10, <1>11 DEF MediumKept, o

(* The file as Rotated leaves it has the room it was rotated for.          *)
LEMMA RotatedFits ==
    ASSUME CursorInv, FileInv, file, NEW len \in Nat, len <= PendingMax,
           NEW opens \in BOOLEAN
    PROVE  /\ MediumKept(Rotated(len, opens))
           /\ Rotated(len, opens).file => Rotated(len, opens).bytes + len <= MaxBytes
<1>1. /\ PendingMax \in Nat /\ MaxBytes \in Nat /\ MaxBytes >= PendingMax
      /\ LineMax \in Nat /\ LineMax > 0 /\ PendingMax >= 4 * LineMax
      /\ fileBytes \in Nat /\ onDisk \in Nat /\ whole \in BOOLEAN
      /\ fileBytes <= MaxBytes /\ onDisk < MaxBytes + PendingMax
      /\ whole => onDisk <= MaxBytes /\ fileBytes = onDisk
  BY LogdiskAssumption DEF CursorInv, LogdiskTypeOK, FileInv, FileWithinCap
<1>2. CASE fileBytes + len > MaxBytes
  <2>1. Rotated(len, opens) = [file |-> opens, bytes |-> 0, disk |-> 0, whole |-> TRUE]
    BY <1>2 DEF Rotated
  <2> QED
    BY <1>1, <2>1 DEF MediumKept
<1>3. CASE ~(fileBytes + len > MaxBytes)
  <2>1. Rotated(len, opens)
           = [file |-> TRUE, bytes |-> fileBytes, disk |-> onDisk, whole |-> whole]
    BY <1>3 DEF Rotated
  <2> QED
    BY <1>1, <1>3, <2>1 DEF MediumKept
<1> QED
  BY <1>2, <1>3

LEMMA MediumLeft ==
    ASSUME NEW m, MediumKept(m), MediumBecomes(m)
    PROVE  /\ FileWithinCap' /\ file' \in BOOLEAN /\ whole' \in BOOLEAN
           /\ fileBytes' \in Nat /\ onDisk' \in Nat
BY DEF MediumKept, MediumBecomes, FileWithinCap

(* The sessions' thread moves the cursors and nothing else the invariant   *)
(* speaks about; the main entrypoint moves all but the end.                *)
LEMMA LogdiskStep == LogdiskInv /\ [LogdiskNext]_logdiskVars => LogdiskInv'
<1> SUFFICES ASSUME LogdiskInv, [LogdiskNext]_logdiskVars
             PROVE  LogdiskInv'
  OBVIOUS
<1> USE DEF LogdiskInv
<1>0. /\ PendingMax \in Nat /\ LineMax \in Nat /\ MaxBytes \in Nat
      /\ LineMax > 0 /\ PendingMax >= 4 * LineMax /\ MaxBytes >= PendingMax
  BY LogdiskAssumption
<1>1. ASSUME NEW len \in 1..LineMax, LogLine(len)
      PROVE  LogdiskInv'
  <2>1. FileInv'
    BY <1>1 DEF LogLine, FileInv, FileWithinCap, medium
  <2>2. dropped' \in BOOLEAN /\ undisturbed' \in BOOLEAN
    BY <1>1 DEF LogLine, CursorInv, LogdiskTypeOK
  <2>3. CASE Overflowing(len)
    <3>1. Appended(MadeRoom(len), len)
      BY <1>1, <2>3 DEF LogLine
    <3> HIDE DEF LogdiskInv
    <3> QED
      BY <1>1, <2>1, <2>2, <2>3, <3>1, RoomIsMade, AppendKeeps
         DEF LogLine, LogdiskInv
  <2>4. CASE ~Overflowing(len)
    <3> DEFINE room == [bytes |-> pending, off |-> pendingOff, end |-> pendingLen]
    <3>1. Appended(room, len)
      BY <1>1, <2>4 DEF LogLine
    <3>2. /\ room.off \in Nat /\ room.end \in Nat
          /\ room.bytes \in [1..PendingMax -> 0..MaxLines]
          /\ room.off <= room.end /\ room.end + len <= PendingMax
          /\ room.off <= PendingMax \div 2
      BY <1>0, <2>4 DEF CursorInv, LogdiskTypeOK, CursorsInOrder, Overflowing
    <3> HIDE DEF LogdiskInv, room
    <3> QED
      BY <1>1, <2>1, <2>2, <3>1, <3>2, AppendKeeps DEF LogLine, LogdiskInv
  <2> QED BY <2>3, <2>4
<1>2. CASE HandleTick
  BY <1>2 DEF HandleTick, CursorInv, LogdiskTypeOK, CursorsInOrder, FileInv,
              FileWithinCap, buffer, medium, Places
<1>3. CASE RotateExisting
  BY <1>3, <1>0 DEF RotateExisting, CursorInv, LogdiskTypeOK, CursorsInOrder,
              FileInv, FileWithinCap, buffer, Places
<1>4. ASSUME NEW opens \in BOOLEAN, NEW outcome \in Outcomes,
             OpenAtBoot(opens, outcome)
      PROVE  LogdiskInv'
  <2> DEFINE new == [file |-> opens, bytes |-> 0, disk |-> 0, whole |-> TRUE]
             m == IF opens THEN OwnLineIn(new, outcome) ELSE new
  <2>1. /\ MediumBecomes(m) /\ at' = "idle" /\ undisturbed' = (undisturbed /\ file')
        /\ UNCHANGED <<buffer, tickPending, ioActive, drain, lines>>
    BY <1>4 DEF OpenAtBoot
  <2>2. MediumKept(new) /\ new.bytes + OwnLineBytes <= MaxBytes /\ new.file = opens
    BY <1>0 DEF MediumKept, OwnLineBytes
  <2> HIDE DEF new
  <2>3. MediumKept(m)
    BY <2>2, OwnLineKeeps
  <2> HIDE DEF m
  <2>4. /\ FileWithinCap' /\ file' \in BOOLEAN /\ whole' \in BOOLEAN
        /\ fileBytes' \in Nat /\ onDisk' \in Nat
    BY <2>1, <2>3, MediumLeft
  <2>5. undisturbed' \in BOOLEAN /\ at' \in Places
    BY <2>1 DEF Places
  <2>6. FileInv'
    BY <2>1, <2>4 DEF FileInv
  <2>7. CursorInv'
    BY <2>1, <2>4, <2>5 DEF CursorInv, LogdiskTypeOK, CursorsInOrder, buffer
  <2> QED
    BY <2>6, <2>7
<1>5. CASE DrainEnds
  BY <1>5 DEF DrainEnds, CursorInv, LogdiskTypeOK, CursorsInOrder, FileInv,
              FileWithinCap, buffer, medium, Places
<1>6. CASE DrainPicks
  <2>1. /\ drain' \in [off : Nat, len : Nat, done : Nat, tick : BOOLEAN]
        /\ drain'.done <= drain'.len /\ drain'.off + drain'.len <= PendingMax
        /\ drain'.done = 0
    BY <1>6 DEF DrainPicks, CursorInv, LogdiskTypeOK, CursorsInOrder
  <2>2. at' \in {"emit", "reset"} /\ (at' = "emit" => file)
    BY <1>6 DEF DrainPicks, CursorInv, LogdiskTypeOK
  <2>3. at' = "emit" => 0 < drain'.len
    BY <1>6 DEF DrainPicks, CursorInv, LogdiskTypeOK, CursorsInOrder
  <2> QED
    BY <2>1, <2>2, <2>3, <1>6 DEF DrainPicks, CursorInv, LogdiskTypeOK, CursorsInOrder,
       FileInv, FileWithinCap, buffer, medium, Places
<1>7. CASE DrainResets
  BY <1>7, <1>0 DEF DrainResets, CursorInv, LogdiskTypeOK, CursorsInOrder,
              FileInv, FileWithinCap, medium, Places, NoDrain
<1>8. CASE WriteFails
  BY <1>8 DEF WriteFails, CursorInv, LogdiskTypeOK, CursorsInOrder, FileInv,
              FileWithinCap, buffer, Places
<1>9. ASSUME NEW n \in 1..PendingMax, Write(n)
      PROVE  LogdiskInv'
  <2>1. /\ at = "write" /\ n <= drain.len - drain.done
        /\ fileBytes' = fileBytes + n
        /\ onDisk' = Reach(onDisk, fileBytes + drain.done + n)
        /\ drain' = [drain EXCEPT !.done = @ + n]
        /\ at' = IF drain'.done = drain.len THEN "reset" ELSE "write"
        /\ whole' = (whole /\ n = drain.len)
        /\ undisturbed' = (undisturbed /\ n = drain.len)
        /\ UNCHANGED <<buffer, file, tickPending, ioActive, lines>>
    BY <1>9 DEF Write
  <2>2. /\ drain \in [off : Nat, len : Nat, done : Nat, tick : BOOLEAN]
        /\ fileBytes \in Nat /\ onDisk \in Nat /\ n \in Nat /\ n > 0
        /\ drain.len <= PendingMax
    BY <1>0 DEF CursorInv, LogdiskTypeOK, CursorsInOrder
  <2>3. /\ drain' \in [off : Nat, len : Nat, done : Nat, tick : BOOLEAN]
        /\ drain'.off = drain.off /\ drain'.len = drain.len
        /\ drain'.done = drain.done + n
    BY <2>1, <2>2
  <2>4. /\ file /\ drain.done < drain.len
        /\ fileBytes + (drain.len - drain.done) <= MaxBytes
        /\ fileBytes <= MaxBytes /\ onDisk < MaxBytes + PendingMax
        /\ whole => drain.done = 0 /\ onDisk <= MaxBytes /\ fileBytes = onDisk
    BY <2>1 DEF FileInv, FileWithinCap
  <2>5. /\ whole' \in BOOLEAN /\ undisturbed' \in BOOLEAN
        /\ whole' => whole /\ n = drain.len
    BY <2>1
  <2>6. /\ onDisk' \in Nat /\ onDisk' < MaxBytes + PendingMax
        /\ fileBytes' \in Nat
        /\ fileBytes' + (drain'.len - drain'.done) <= MaxBytes
        /\ fileBytes' <= MaxBytes
    BY <1>0, <2>1, <2>2, <2>3, <2>4 DEF Reach
  <2>7. whole' => onDisk' <= MaxBytes /\ fileBytes' = onDisk'
    <3> SUFFICES ASSUME whole' PROVE onDisk' <= MaxBytes /\ fileBytes' = onDisk'
      OBVIOUS
    <3>1. /\ drain.done = 0 /\ n = drain.len /\ fileBytes = onDisk
          /\ onDisk' = Reach(onDisk, fileBytes + n)
      BY <2>1, <2>2, <2>4, <2>5
    <3> QED
      BY <1>0, <2>1, <2>2, <2>6, <3>1 DEF Reach
  <2>8. CursorInv'
    <3>1. at' \in Places
      BY <2>1 DEF Places
    <3>2. CursorsInOrder'
      BY <2>1, <2>2, <2>3, <1>0 DEF CursorInv, CursorsInOrder, buffer
    <3> QED
      BY <2>1, <2>3, <2>5, <2>6, <3>1, <3>2 DEF CursorInv, LogdiskTypeOK, buffer
  <2>9. FileInv'
    <3>1. FileWithinCap'
      BY <2>1, <2>6, <2>7 DEF FileWithinCap
    <3>2. at' = "write" => drain'.done < drain'.len
      BY <1>0, <2>1, <2>2, <2>3
    <3>3. ~(at' = "write" /\ whole')
      BY <1>0, <2>1, <2>2, <2>3, <2>4, <2>5
    <3> QED
      BY <2>1, <2>4, <2>6, <3>1, <3>2, <3>3 DEF FileInv
  <2> QED BY <2>8, <2>9
<1>10. ASSUME NEW opens \in BOOLEAN, Emit(opens)
       PROVE  LogdiskInv'
  <2> DEFINE m == Rotated(drain.len, opens)
  <2>1. /\ drain.len \in Nat /\ drain.len <= PendingMax
    BY <1>0 DEF CursorInv, LogdiskTypeOK, CursorsInOrder
  <2>2. /\ at = "emit" /\ drain.done = 0 /\ file /\ 0 < drain.len
    BY <1>10 DEF Emit, FileInv
  <2>3. /\ MediumBecomes(m) /\ at' = IF m.file THEN "write" ELSE "reset"
        /\ undisturbed' = (undisturbed /\ m.file)
        /\ UNCHANGED <<buffer, tickPending, ioActive, drain, lines>>
    BY <1>10 DEF Emit
  <2>4. MediumKept(m) /\ (m.file => m.bytes + drain.len <= MaxBytes)
    BY <2>1, <2>2, RotatedFits
  <2> HIDE DEF m
  <2>5. /\ FileWithinCap' /\ file' \in BOOLEAN /\ whole' \in BOOLEAN
        /\ fileBytes' \in Nat /\ onDisk' \in Nat
    BY <2>3, <2>4, MediumLeft
  <2>6. undisturbed' \in BOOLEAN /\ at' \in Places
    BY <2>3 DEF Places
  <2>7. at' = "write" => file' /\ fileBytes' + (drain.len - drain.done) <= MaxBytes
    <3>1. drain.len - drain.done = drain.len
      BY <2>1, <2>2
    <3> QED
      BY <2>3, <2>4, <3>1 DEF MediumBecomes
  <2>8. at' \notin {"rotate", "open", "emit"} /\ drain' = drain
    BY <2>3
  <2>9. FileInv'
    BY <2>2, <2>5, <2>7, <2>8 DEF FileInv
  <2>10. CursorInv'
    BY <2>3, <2>5, <2>6 DEF CursorInv, LogdiskTypeOK, CursorsInOrder, buffer
  <2> QED
    BY <2>9, <2>10
<1>11. ASSUME NEW opens \in BOOLEAN, NEW outcome \in Outcomes,
              TickLine(opens, outcome)
       PROVE  LogdiskInv'
  <2> DEFINE r == Rotated(OwnLineBytes, opens)
             m == IF r.file THEN OwnLineIn(r, outcome) ELSE r
  <2>1. /\ undisturbed' = (undisturbed /\ file') /\ at = "tick" /\ at' = "pick"
        /\ UNCHANGED <<buffer, tickPending, ioActive, drain, lines>>
    BY <1>11 DEF TickLine
  <2>2. undisturbed' \in BOOLEAN /\ at' \in Places
    BY <2>1 DEF Places
  <2>3. CASE file
    <3>1. MediumBecomes(m)
      BY <1>11, <2>3 DEF TickLine
    <3>2. OwnLineBytes \in Nat /\ OwnLineBytes <= PendingMax
      BY <1>0 DEF OwnLineBytes
    <3>3. MediumKept(r) /\ (r.file => r.bytes + OwnLineBytes <= MaxBytes)
      BY <2>3, <3>2, RotatedFits
    <3> HIDE DEF r
    <3>4. MediumKept(m)
      BY <3>3, OwnLineKeeps
    <3> HIDE DEF m
    <3>5. /\ FileWithinCap' /\ file' \in BOOLEAN /\ whole' \in BOOLEAN
          /\ fileBytes' \in Nat /\ onDisk' \in Nat
      BY <3>1, <3>4, MediumLeft
    <3> QED
      BY <2>1, <2>2, <3>5 DEF CursorInv, LogdiskTypeOK, CursorsInOrder, FileInv, buffer
  <2>4. CASE ~file
    <3>1. UNCHANGED medium
      BY <1>11, <2>4 DEF TickLine
    <3> QED
      BY <2>1, <2>2, <3>1 DEF CursorInv, LogdiskTypeOK, CursorsInOrder, FileInv,
         FileWithinCap, buffer, medium
  <2> QED BY <2>3, <2>4
<1>12. CASE UNCHANGED logdiskVars
  BY <1>12 DEF logdiskVars, CursorInv, LogdiskTypeOK, CursorsInOrder, FileInv,
               FileWithinCap, buffer, medium
<1> QED
  BY <1>1, <1>2, <1>3, <1>4, <1>5, <1>6, <1>7, <1>8, <1>9, <1>10, <1>11, <1>12
     DEF LogdiskNext, MainEntrypoint

THEOREM LogdiskInvariant == LogdiskSpec => []LogdiskInv
<1>1. LogdiskInit => LogdiskInv
  BY CursorsInit, FileInit DEF LogdiskInv
<1> QED BY <1>1, LogdiskStep, PTL DEF LogdiskSpec

(* The cursors of the buffer never cross and never leave it, whatever is   *)
(* logged while whatever is drained: no line the log sink admits makes     *)
(* _append_locked or _drain compute a range outside _pending.              *)
THEOREM LogdiskCursors == LogdiskSpec => []CursorsInOrder
<1>1. LogdiskInv => CursorsInOrder
  BY DEF LogdiskInv, CursorInv
<1> QED BY <1>1, LogdiskInvariant, PTL

(* What the sink counts of the log file stays within max_bytes, and so     *)
(* does the file, whose size it is, while every write to it is taken       *)
(* whole; one taken in pieces can put the file beyond max_bytes by less    *)
(* than the buffer, and no more (_emit, _rotate_existing, _open).          *)
THEOREM LogdiskCap == LogdiskSpec => []FileWithinCap
<1>1. LogdiskInv => FileWithinCap
  BY DEF LogdiskInv, FileInv
<1> QED BY <1>1, LogdiskInvariant, PTL

(* Every variable of the log sink keeps its type. *)
THEOREM LogdiskTypes == LogdiskSpec => []LogdiskTypeOK
<1>1. LogdiskInv => LogdiskTypeOK
  BY DEF LogdiskInv, CursorInv
<1> QED BY <1>1, LogdiskInvariant, PTL

-----------------------------------------------------------------------------
(* The order of the bytes.  _io_active keeps the tick that interrupts a    *)
(* drain from starting another.  While nothing has disturbed the order,    *)
(* the range of a running drain is all that is pending, and outside a      *)
(* drain nothing of it is counted as written.                              *)
Draining == at \in {"emit", "write", "reset"}

FifoInv ==
    /\ logged \in Seq(0..MaxLines) /\ written \in Seq(0..MaxLines)
    /\ at \in {"pick", "emit", "write", "reset", "tick"} => ioActive
    /\ ~Draining => drain = NoDrain
    /\ undisturbed /\ Draining => /\ pendingOff = drain.off
                                 /\ pendingLen = drain.off + drain.len
    /\ undisturbed /\ at = "reset" => drain.done = drain.len
    /\ FirstInFirstOut

LEMMA BufferIsSeq ==
    ASSUME CursorInv
    PROVE  /\ pending \in Seq(0..MaxLines) /\ Len(pending) = PendingMax
           /\ PendingMax \in Nat /\ pendingOff \in Nat /\ pendingLen \in Nat
           /\ pendingOff <= pendingLen /\ pendingLen <= PendingMax
           /\ drain \in [off : Nat, len : Nat, done : Nat, tick : BOOLEAN]
           /\ drain.done <= drain.len
BY LogdiskAssumption DEF CursorInv, LogdiskTypeOK, CursorsInOrder

(* A part of the buffer. *)
LEMMA Slice ==
    ASSUME NEW p \in [1..PendingMax -> 0..MaxLines],
           NEW a \in Nat, NEW b \in Nat, a <= b, b <= PendingMax,
           NEW s, s = SubSeq(p, a + 1, b)
    PROVE  /\ s \in Seq(0..MaxLines) /\ Len(s) = b - a
           /\ \A i \in 1..b - a : s[i] = p[a + i]
<1>1. a + 1 \in Int /\ b \in Int /\ \A i \in a + 1 .. b : p[i] \in 0..MaxLines
  BY LogdiskAssumption
<1>2. /\ s \in Seq(0..MaxLines)
      /\ Len(s) = IF a + 1 <= b THEN b - (a + 1) + 1 ELSE 0
      /\ \A i \in 1 .. b - (a + 1) + 1 : s[i] = p[a + 1 + i - 1]
  BY <1>1, SubSeqProperties
<1>3. /\ \A i \in 1..b - a : a + 1 + i - 1 = a + i /\ i \in 1 .. b - (a + 1) + 1
      /\ b - a = IF a + 1 <= b THEN b - (a + 1) + 1 ELSE 0
  OBVIOUS
<1>4. Len(s) = b - a
  BY <1>2, <1>3
<1>5. \A i \in 1..b - a : s[i] = p[a + i]
  BY <1>2, <1>3
<1> QED
  BY <1>2, <1>4, <1>5

(* A line adds its bytes behind what is to be written. *)
LEMMA LineIsLast ==
    ASSUME CursorInv, CursorInv', NEW len \in 1..LineMax, drain = NoDrain, drain' = drain,
           ~Overflowing(len),
           Appended([bytes |-> pending, off |-> pendingOff, end |-> pendingLen], len),
           lines + 1 \in 0..MaxLines
    PROVE  LET line == [i \in 1..len |-> lines + 1]
           IN  line \in Seq(0..MaxLines) /\ Unwritten' = Unwritten \o line
<1> DEFINE line == [i \in 1..len |-> lines + 1]
           a == pendingOff
           b == pendingLen
           old == SubSeq(pending, a + 1, b)
           new == SubSeq(pending', a + 1, b + len)
<1>1. /\ a \in Nat /\ b \in Nat /\ a <= b /\ b + len <= PendingMax
      /\ PendingMax \in Nat /\ len \in Nat
  BY BufferIsSeq, LogdiskAssumption DEF Overflowing
<1>2. /\ pendingOff' = a /\ pendingLen' = b + len
      /\ \A i \in 1..PendingMax :
            pending'[i] = IF i \in b + 1 .. b + len THEN lines + 1 ELSE pending[i]
  BY DEF Appended
<1>3. line \in Seq(0..MaxLines) /\ Len(line) = len
  BY <1>1
<1>4. Unwritten = old /\ Unwritten' = new
  BY <1>1, <1>2 DEF Unwritten, NoDrain
<1>5. /\ old \in Seq(0..MaxLines) /\ Len(old) = b - a
      /\ \A i \in 1..b - a : old[i] = pending[a + i]
  <2>1. pending \in [1..PendingMax -> 0..MaxLines] /\ b <= PendingMax
    BY <1>1 DEF CursorInv, LogdiskTypeOK
  <2> HIDE DEF a, b
  <2> QED
    BY <1>1, <2>1, Slice
<1>6. /\ new \in Seq(0..MaxLines) /\ Len(new) = b + len - a
      /\ \A i \in 1..b + len - a : new[i] = pending'[a + i]
  <2> DEFINE c == b + len
  <2>1. /\ pending' \in [1..PendingMax -> 0..MaxLines]
        /\ c \in Nat /\ a <= c /\ c <= PendingMax
    BY <1>1 DEF CursorInv, LogdiskTypeOK
  <2> HIDE DEF a, b, c
  <2>2. /\ SubSeq(pending', a + 1, c) \in Seq(0..MaxLines)
        /\ Len(SubSeq(pending', a + 1, c)) = c - a
        /\ \A i \in 1..c - a : SubSeq(pending', a + 1, c)[i] = pending'[a + i]
    BY <1>1, <2>1, Slice
  <2>3. c = b + len /\ new = SubSeq(pending', a + 1, c)
    BY DEF c
  <2>4. c - a = b + len - a
    BY <1>1, <2>3
  <2> HIDE DEF new
  <2>5. new \in Seq(0..MaxLines) /\ Len(new) = c - a
    BY <2>2, <2>3
  <2>6. \A i \in 1..c - a : new[i] = pending'[a + i]
    BY <2>2, <2>3
  <2> QED
    BY <2>4, <2>5, <2>6
<1>7. \A i \in 1..len : line[i] = lines + 1
  OBVIOUS
<1> HIDE DEF old, new, line
<1>8. /\ old \o line \in Seq(0..MaxLines) /\ Len(old \o line) = b - a + len
      /\ \A i \in 1..b - a + len :
            (old \o line)[i] = IF i <= b - a THEN old[i] ELSE line[i - (b - a)]
  <2>1. /\ old \o line \in Seq(0..MaxLines) /\ Len(old \o line) = Len(old) + Len(line)
        /\ \A i \in 1..Len(old) + Len(line) :
              (old \o line)[i] = IF i <= Len(old) THEN old[i] ELSE line[i - Len(old)]
    BY <1>3, <1>5, ConcatProperties
  <2> QED
    BY <2>1, <1>3, <1>5
<1>9. \A i \in 1..b + len - a : new[i] = (old \o line)[i]
  <2> TAKE i \in 1..b + len - a
  <2>1. i \in 1..b - a + len /\ a + i \in 1..PendingMax
    BY <1>1
  <2>2. CASE i <= b - a
    <3>1. i \in 1..b - a /\ a + i \notin b + 1 .. b + len
      BY <1>1, <2>2
    <3> QED
      BY <2>1, <2>2, <3>1, <1>2, <1>5, <1>6, <1>8
  <2>3. CASE ~(i <= b - a)
    <3>1. i - (b - a) \in 1..len /\ a + i \in b + 1 .. b + len
      BY <1>1, <2>3
    <3> QED
      BY <2>1, <2>3, <3>1, <1>2, <1>6, <1>7, <1>8
  <2> QED
    BY <2>2, <2>3
<1>10. b + len - a = b - a + len
  BY <1>1
<1>11. new = old \o line
  BY <1>6, <1>8, <1>9, <1>10, SeqEqual
<1> QED
  BY <1>3, <1>4, <1>11 DEF line

LEMMA FifoStep ==
    ASSUME LogdiskInv, LogdiskInv', FifoInv, [LogdiskNext]_logdiskVars
    PROVE  FifoInv'
<1> USE DEF Draining
<1>1. CursorInv /\ CursorInv' /\ undisturbed \in BOOLEAN /\ lines \in 0..MaxLines
      /\ MaxLines \in Nat
  BY LogdiskAssumption DEF LogdiskInv, CursorInv, LogdiskTypeOK
<1>2. ASSUME NEW len \in 1..LineMax, LogLine(len)
      PROVE  FifoInv'
  <2>1. /\ at' = at /\ drain' = drain /\ ioActive' = ioActive /\ lines + 1 \in 0..MaxLines
    BY <1>1, <1>2 DEF LogLine
  <2>2. CASE undisturbed'
    <3> DEFINE line == [i \in 1..len |-> lines + 1]
    <3>1. undisturbed /\ ~Overflowing(len) /\ ~Draining
      BY <1>2, <2>2 DEF LogLine
    <3>2. /\ Appended([bytes |-> pending, off |-> pendingOff, end |-> pendingLen], len)
          /\ logged' = logged \o line /\ written' = written
      BY <1>2, <2>2, <3>1 DEF LogLine
    <3>3. drain = NoDrain
      BY <3>1 DEF FifoInv
    <3>4. line \in Seq(0..MaxLines) /\ Unwritten' = Unwritten \o line
      BY <1>1, <2>1, <3>1, <3>2, <3>3, LineIsLast
    <3> HIDE DEF line
    <3>5. Unwritten \in Seq(0..MaxLines)
      <4>1. /\ pending \in [1..PendingMax -> 0..MaxLines]
            /\ Unwritten = SubSeq(pending, pendingOff + 1, pendingLen)
        BY <1>1, <3>3, BufferIsSeq DEF CursorInv, LogdiskTypeOK, Unwritten, NoDrain
      <4> QED
        BY <4>1, <1>1, BufferIsSeq, Slice
    <3>6. logged = written \o Unwritten
      BY <3>1 DEF FifoInv, FirstInFirstOut
    <3>7. logged' = written' \o Unwritten' /\ logged' \in Seq(0..MaxLines)
      <4>1. written \in Seq(0..MaxLines) /\ logged \in Seq(0..MaxLines)
        BY DEF FifoInv
      <4>2. (written \o Unwritten) \o line = written \o (Unwritten \o line)
        BY <3>4, <3>5, <4>1, ConcatAssociative
      <4>3. logged \o line \in Seq(0..MaxLines)
        BY <3>4, <4>1, ConcatProperties
      <4> QED
        BY <3>2, <3>4, <3>6, <4>2, <4>3
    <3> QED
      BY <2>1, <3>1, <3>2, <3>3, <3>7 DEF FifoInv, FirstInFirstOut
  <2>3. CASE ~undisturbed'
    <3>1. logged' = <<>> /\ written' = <<>>
      BY <1>2, <2>3 DEF LogLine
    <3> QED
      BY <2>1, <2>3, <3>1 DEF FifoInv, FirstInFirstOut
  <2> QED
    BY <2>2, <2>3
<1>3. CASE HandleTick
  <2>1. /\ at \in {"idle", "write", "tick"} /\ ioActive'
        /\ IF ioActive THEN at' = at ELSE at' = "pick"
        /\ UNCHANGED <<buffer, drain, logged, written, undisturbed>>
    BY <1>3 DEF HandleTick
  <2> QED
    BY <2>1 DEF FifoInv, FirstInFirstOut, Unwritten, buffer
<1>4. CASE RotateExisting
  BY <1>4 DEF RotateExisting, FifoInv, FirstInFirstOut, Unwritten, buffer
<1>5. ASSUME NEW opens \in BOOLEAN, NEW outcome \in Outcomes,
             OpenAtBoot(opens, outcome)
      PROVE  FifoInv'
  <2>1. /\ at = "open" /\ at' = "idle"
        /\ undisturbed' => undisturbed
        /\ UNCHANGED <<buffer, ioActive, drain, logged, written>>
    BY <1>5 DEF OpenAtBoot
  <2> QED
    BY <2>1 DEF FifoInv, FirstInFirstOut, Unwritten, buffer
<1>6. CASE DrainEnds
  <2>1. /\ at = "pick" /\ at' = "idle"
        /\ UNCHANGED <<buffer, drain, logged, written, undisturbed>>
    BY <1>6 DEF DrainEnds
  <2> QED
    BY <2>1 DEF FifoInv, FirstInFirstOut, Unwritten, buffer
<1>7. CASE DrainPicks
  <2>1. drain = NoDrain /\ drain.done = 0
    BY <1>7 DEF DrainPicks, FifoInv, NoDrain
  <2>2. /\ drain' = [off |-> pendingOff, len |-> pendingLen - pendingOff,
                     done |-> 0, tick |-> tickPending]
        /\ undisturbed' = (undisturbed /\ file)
        /\ at' = IF file /\ pendingOff # pendingLen THEN "emit" ELSE "reset"
        /\ UNCHANGED <<pending, pendingOff, pendingLen, ioActive, logged, written>>
    BY <1>7 DEF DrainPicks, buffer
  <2>3. /\ drain'.off = pendingOff /\ drain'.len = pendingLen - pendingOff
        /\ drain'.done = 0 /\ pendingOff + (pendingLen - pendingOff) = pendingLen
        /\ pendingOff = pendingLen => drain'.len = 0
    BY <1>1, <2>2, BufferIsSeq
  <2>4. Unwritten' = Unwritten
    BY <2>1, <2>2, <2>3 DEF Unwritten
  <2>5. at = "pick"
    BY <1>7 DEF DrainPicks
  <2> QED
    BY <2>2, <2>3, <2>4, <2>5 DEF FifoInv, FirstInFirstOut
<1>8. CASE DrainResets
  <2>1. /\ pendingOff' = 0 /\ pendingLen' = 0 /\ drain' = NoDrain
        /\ at = "reset" /\ at' \in {"tick", "pick"}
        /\ UNCHANGED <<pending, ioActive, undisturbed, logged, written>>
    BY <1>8 DEF DrainResets
  <2>2. ASSUME undisturbed
        PROVE  written \o Unwritten = logged /\ Unwritten = <<>>
    <3>1. pendingOff = drain.off /\ pendingLen = drain.off + drain.done
      BY <1>8, <2>2 DEF DrainResets, FifoInv
    <3>2. pendingLen \in Int /\ pendingOff + drain.done + 1 \in Int
          /\ pendingLen < pendingOff + drain.done + 1
      BY <1>1, <3>1, BufferIsSeq
    <3> QED
      BY <2>2, <3>2, SubSeqEmpty DEF Unwritten, FifoInv, FirstInFirstOut
  <2>3. Unwritten' = <<>>
    <3>1. Unwritten' = SubSeq(pending', 1, 0)
      BY <2>1 DEF Unwritten, NoDrain
    <3> QED
      BY <3>1, SubSeqEmpty
  <2> QED
    BY <2>1, <2>2, <2>3 DEF FifoInv, FirstInFirstOut
<1>9. CASE WriteFails
  BY <1>9 DEF WriteFails, FifoInv, FirstInFirstOut
<1>10. ASSUME NEW n \in 1..PendingMax, Write(n)
       PROVE  FifoInv'
  <2> DEFINE out == SubSeq(pending, drain.off + 1, drain.off + n)
  <2>1. /\ at = "write" /\ n <= drain.len - drain.done
        /\ drain' = [drain EXCEPT !.done = @ + n]
        /\ at' = IF drain'.done = drain.len THEN "reset" ELSE "write"
        /\ undisturbed' = (undisturbed /\ n = drain.len)
        /\ IF undisturbed' THEN written' = written \o out /\ logged' = logged
           ELSE logged' = <<>> /\ written' = <<>>
        /\ UNCHANGED <<pending, pendingOff, pendingLen, ioActive>>
    BY <1>10 DEF Write, buffer
  <2>2. /\ drain'.off = drain.off /\ drain'.len = drain.len
        /\ drain'.done = drain.done + n
        /\ drain.off \in Nat /\ drain.len \in Nat /\ drain.done \in Nat
    BY <1>1, <2>1, BufferIsSeq
  <2>3. CASE undisturbed'
    <3>1. /\ undisturbed /\ n = drain.len
          /\ pendingOff = drain.off /\ pendingLen = drain.off + n
      BY <2>1, <2>3 DEF FifoInv
    <3>2. drain.done = 0 /\ n \in Nat
      BY <1>1, <2>1, <2>2, <3>1, BufferIsSeq
    <3>3. Unwritten = out
      <4>1. pendingOff + drain.done + 1 = drain.off + 1
        BY <2>2, <3>1, <3>2
      <4> QED
        BY <3>1, <4>1 DEF Unwritten
    <3>4. Unwritten' = <<>>
      <4>1. /\ Unwritten' = SubSeq(pending, pendingOff + (drain.done + n) + 1, pendingLen)
            /\ pendingLen \in Int /\ pendingOff + (drain.done + n) + 1 \in Int
            /\ pendingLen < pendingOff + (drain.done + n) + 1
        BY <2>1, <2>2, <3>1, <3>2 DEF Unwritten
      <4> QED
        BY <4>1, SubSeqEmpty
    <3>5. /\ written \in Seq(0..MaxLines) /\ logged \in Seq(0..MaxLines)
          /\ logged = written \o out
      BY <3>1, <3>3 DEF FifoInv, FirstInFirstOut
    <3>6. /\ written' \in Seq(0..MaxLines) /\ logged' \in Seq(0..MaxLines)
          /\ written' \o Unwritten' = logged'
      <4>1. written' = written \o out /\ logged' = logged
        BY <2>1, <2>3
      <4>2. written' \in Seq(0..MaxLines) /\ logged' \in Seq(0..MaxLines)
        BY <3>5, <4>1
      <4>3. written' \o Unwritten' = written'
        BY <3>4, <4>2, ConcatEmptySeq
      <4> QED
        BY <3>5, <4>1, <4>2, <4>3
    <3>7. ioActive /\ at' \in {"reset", "write"} /\ (at' = "reset" => drain'.done = drain'.len)
      BY <2>1, <2>2 DEF FifoInv
    <3> QED
      BY <2>1, <2>2, <3>1, <3>6, <3>7 DEF FifoInv, FirstInFirstOut
  <2>4. CASE ~undisturbed'
    BY <2>1, <2>4 DEF FifoInv, FirstInFirstOut
  <2> QED
    BY <2>3, <2>4
<1>11. ASSUME NEW opens \in BOOLEAN, Emit(opens)
       PROVE  FifoInv'
  <2>1. /\ at = "emit" /\ at' \in {"write", "reset"}
        /\ at' = "reset" => ~undisturbed'
        /\ undisturbed' => undisturbed
        /\ UNCHANGED <<buffer, ioActive, drain, logged, written>>
    BY <1>11 DEF Emit
  <2> QED
    BY <2>1 DEF FifoInv, FirstInFirstOut, Unwritten, buffer
<1>12. ASSUME NEW opens \in BOOLEAN, NEW outcome \in Outcomes,
              TickLine(opens, outcome)
       PROVE  FifoInv'
  <2>1. /\ at = "tick" /\ at' = "pick"
        /\ undisturbed' => undisturbed
        /\ UNCHANGED <<buffer, ioActive, drain, logged, written>>
    BY <1>12 DEF TickLine
  <2> QED
    BY <2>1 DEF FifoInv, FirstInFirstOut, Unwritten, buffer
<1>13. CASE UNCHANGED logdiskVars
  BY <1>13 DEF logdiskVars, FifoInv, FirstInFirstOut, Unwritten, buffer
<1> QED
  BY <1>2, <1>3, <1>4, <1>5, <1>6, <1>7, <1>8, <1>9, <1>10, <1>11, <1>12, <1>13
     DEF LogdiskNext, MainEntrypoint

(* Undisturbed, what has been written and what is still pending is what    *)
(* was logged, byte for byte: for every size of buffer, line and file, and *)
(* wherever the tick interrupts the drain.  A batch the file system takes  *)
(* in pieces counts as a disturbance: _emit misplaces what follows the     *)
(* first of them (_drain, _emit).                                          *)
THEOREM LogdiskFifo == LogdiskSpec => []FirstInFirstOut
<1>1. LogdiskInit => FifoInv
  <2> SUFFICES ASSUME LogdiskInit PROVE FifoInv
    OBVIOUS
  <2>1. Unwritten = SubSeq(pending, 1, 0)
    BY DEF LogdiskInit, Unwritten, NoDrain
  <2>2. Unwritten = <<>>
    BY <2>1, SubSeqEmpty
  <2> QED
    BY <2>2 DEF LogdiskInit, FifoInv, FirstInFirstOut, Draining
<1>2. FifoInv => FirstInFirstOut
  BY DEF FifoInv
<1> QED
  BY <1>1, <1>2, FifoStep, LogdiskInvariant, PTL DEF LogdiskSpec
=============================================================================
