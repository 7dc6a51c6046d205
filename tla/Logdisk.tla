------------------------------- MODULE Logdisk -------------------------------
(***************************************************************************)
(* The log sink of repos/sponge/src/sponge_logdisk/main.cc: a byte buffer  *)
(* with two cursors, filled by the thread that serves the Log sessions and *)
(* drained to a file by the main entrypoint.                               *)
(*                                                                         *)
(* The threads interleave at the lock.  The drain reads the buffer outside *)
(* it, one chunk per write of the file system, and while the file system   *)
(* makes it wait it dispatches the tick.  The wake-up that follows a line  *)
(* goes to a Signal_receiver nobody waits at, and so starts nothing: the   *)
(* tick alone drains.  A byte is the number of the line it belongs to.     *)
(***************************************************************************)
EXTENDS Integers, Sequences

CONSTANTS
    PendingMax,   \* PENDING_MAX, the size of the buffer
    LineMax,      \* LINE_MAX, the size of the longest line
    MaxBytes,     \* max_bytes, the size at which the file is rotated
    Ticking,      \* tick_ms is not zero
    MaxLines      \* bound: lines logged

ASSUME LogdiskAssumption ==
    /\ PendingMax \in Nat /\ LineMax \in Nat \ {0} /\ MaxBytes \in Nat
    /\ MaxLines \in Nat /\ Ticking \in BOOLEAN
    /\ PendingMax >= 4 * LineMax
    /\ MaxBytes >= PendingMax

VARIABLES
    pending,      \* _pending
    pendingOff,   \* _pending_off
    pendingLen,   \* _pending_len: the end of the pending bytes, not their number
    dropped,      \* some byte has been counted by _dropped
    tickPending,  \* _tick_pending
    ioActive,     \* _io_active
    file,         \* _file is not null
    fileBytes,    \* _file_bytes
    onDisk,       \* the size of the file at _path
    whole,        \* history: no write to that file was taken in pieces
    at,           \* where the main entrypoint is
    drain,        \* the locals of _drain, and how much of its range is written
    lines,        \* the number of lines logged so far
    logged,       \* history: every byte logged, kept while undisturbed
    written,      \* history: every byte written, kept while undisturbed
    undisturbed   \* history: no byte was refused, dropped, overtaken, or misplaced

buffer == <<pending, pendingOff, pendingLen, dropped>>
medium == <<file, fileBytes, onDisk, whole>>
logdiskVars == <<buffer, medium, tickPending, ioActive, at, drain, lines,
                 logged, written, undisturbed>>

Places == {"rotate", "open", "idle", "pick", "emit", "write", "reset", "tick"}
NoDrain == [off |-> 0, len |-> 0, done |-> 0, tick |-> FALSE]

(* The bytes the drain has not written yet. *)
Unwritten == SubSeq(pending, pendingOff + drain.done + 1, pendingLen)

LogdiskInit ==
    /\ pending = [i \in 1..PendingMax |-> 0]
    /\ pendingOff = 0 /\ pendingLen = 0 /\ dropped = FALSE
    /\ tickPending = FALSE /\ ioActive = FALSE
    /\ file = FALSE /\ fileBytes = 0 /\ onDisk \in {0, MaxBytes} /\ whole = TRUE
    /\ at = "rotate" /\ drain = NoDrain
    /\ lines = 0 /\ logged = <<>> /\ written = <<>> /\ undisturbed = TRUE

-----------------------------------------------------------------------------
(* The thread of the Log sessions.                                         *)

(* The buffer after the oldest bytes have made room for len more. *)
Overflowing(len) == pendingLen + len > PendingMax

MadeRoom(len) ==
    LET excess == pendingLen + len - PendingMax
        off    == pendingOff + excess
        end    == pendingLen - excess
        rest   == end - off
    IN  IF off < PendingMax \div 2
        THEN [bytes |-> pending, off |-> off, end |-> end]
        ELSE [bytes |-> [i \in 1..PendingMax |->
                            IF i <= rest THEN pending[off + i] ELSE pending[i]],
              off |-> 0, end |-> rest]

Appended(room, len) ==
    /\ pending' = [i \in 1..PendingMax |->
                     IF i \in room.end + 1 .. room.end + len
                     THEN lines + 1 ELSE room.bytes[i]]
    /\ pendingOff' = room.off
    /\ pendingLen' = room.end + len

(* Session::write, log_line and _append_locked, for one line.  A line is   *)
(* no longer than LineMax, so that room is always made.                    *)
LogLine(len) ==
    /\ lines < MaxLines
    /\ IF Overflowing(len)
       THEN Appended(MadeRoom(len), len) /\ dropped' = TRUE
       ELSE /\ Appended([bytes |-> pending, off |-> pendingOff, end |-> pendingLen],
                        len)
            /\ UNCHANGED dropped
    /\ lines' = lines + 1
    /\ undisturbed' = (/\ undisturbed
                       /\ ~Overflowing(len)
                       /\ at \notin {"emit", "write", "reset"})
    /\ IF undisturbed'
       THEN logged' = logged \o [i \in 1..len |-> lines + 1] /\ UNCHANGED written
       ELSE logged' = <<>> /\ written' = <<>>
    /\ UNCHANGED <<medium, tickPending, ioActive, at, drain>>

-----------------------------------------------------------------------------
(* The main entrypoint: construction.                                      *)

(* _rotate_existing: the file is renamed, or truncated where that is not   *)
(* supported.  Either way what is at the path is gone from there: that one *)
(* of the two succeeds is an assumption.                                   *)
RotateExisting ==
    /\ at = "rotate"
    /\ onDisk' = 0 /\ whole' = TRUE
    /\ at' = "open"
    /\ UNCHANGED <<buffer, file, fileBytes, tickPending, ioActive, drain,
                   lines, logged, written, undisturbed>>

(* The file after _emit has written a line of the sink's own into it, two  *)
(* bytes as it is modelled: in one write; in two, of which the second goes *)
(* one byte too far; in one write of the first byte, and a second that     *)
(* fails and closes the file; or not at all, which closes it as well.      *)
OwnLineBytes == 2
Outcomes == {"whole", "split", "part", "none"}

Reach(disk, end) == IF end > disk THEN end ELSE disk

OwnLineIn(m, outcome) ==
    LET taken == outcome \in {"whole", "split"}
        end   == [whole |-> 2, split |-> 3, part |-> 1, none |-> 0]
    IN  [file  |-> taken,
         bytes |-> IF taken THEN m.bytes + OwnLineBytes ELSE 0,
         disk  |-> Reach(m.disk, m.bytes + end[outcome]),
         whole |-> m.whole /\ outcome \in {"whole", "none"}]

MediumBecomes(m) ==
    file' = m.file /\ fileBytes' = m.bytes /\ onDisk' = m.disk /\ whole' = m.whole

(* _open and _boot_header.  Without a file the sink goes on, and drops.    *)
OpenAtBoot(opens, outcome) ==
    /\ at = "open"
    /\ LET new == [file |-> opens, bytes |-> 0, disk |-> 0, whole |-> TRUE]
       IN  MediumBecomes(IF opens THEN OwnLineIn(new, outcome) ELSE new)
    /\ at' = "idle"
    /\ undisturbed' = (undisturbed /\ file')
    /\ UNCHANGED <<buffer, tickPending, ioActive, drain, lines, logged, written>>

-----------------------------------------------------------------------------
(* The main entrypoint: the tick and the drain it starts.                  *)

(* handle_tick.  When it is dispatched from within a drain that waits for  *)
(* the file system, the drain it starts returns at once.                   *)
HandleTick ==
    /\ Ticking
    /\ at \in {"idle", "write", "tick"}
    /\ tickPending' = TRUE
    /\ ioActive' = TRUE
    /\ at' = IF ioActive THEN at ELSE "pick"
    /\ UNCHANGED <<buffer, medium, drain, lines, logged, written, undisturbed>>

(* Mutant of DrainEnds: the flag is left set. *)
DrainEndsActive ==
    /\ at = "pick"
    /\ pendingOff = pendingLen /\ ~tickPending
    /\ at' = "idle"
    /\ UNCHANGED <<buffer, medium, ioActive, tickPending, drain, lines, logged,
                   written, undisturbed>>

(* _drain, the first critical section of its loop. *)
DrainEnds ==
    /\ at = "pick"
    /\ pendingOff = pendingLen /\ ~tickPending
    /\ ioActive' = FALSE
    /\ at' = "idle"
    /\ UNCHANGED <<buffer, medium, tickPending, drain, lines, logged, written,
                   undisturbed>>

DrainPicks ==
    /\ at = "pick"
    /\ pendingOff # pendingLen \/ tickPending
    /\ drain' = [off |-> pendingOff, len |-> pendingLen - pendingOff,
                 done |-> 0, tick |-> tickPending]
    /\ tickPending' = FALSE
    /\ at' = IF file /\ pendingOff # pendingLen THEN "emit" ELSE "reset"
    /\ undisturbed' = (undisturbed /\ file)
    /\ UNCHANGED <<buffer, medium, ioActive, lines, logged, written>>

(* Mutant of Rotated: the length of what is to be written is left out. *)
RotatedLate(len, opens) ==
    IF fileBytes > MaxBytes
    THEN [file |-> opens, bytes |-> 0, disk |-> 0, whole |-> TRUE]
    ELSE [file |-> TRUE, bytes |-> fileBytes, disk |-> onDisk, whole |-> whole]

(* _emit up to its loop: a file that would grow beyond the cap is closed   *)
(* and moved aside, and a new one is opened, or cannot be.                 *)
Rotated(len, opens) ==
    IF fileBytes + len > MaxBytes
    THEN [file |-> opens, bytes |-> 0, disk |-> 0, whole |-> TRUE]
    ELSE [file |-> TRUE, bytes |-> fileBytes, disk |-> onDisk, whole |-> whole]

Emit(opens) ==
    /\ at = "emit"
    /\ LET r == Rotated(drain.len, opens)
       IN  /\ MediumBecomes(r)
           /\ at' = IF r.file THEN "write" ELSE "reset"
           /\ undisturbed' = (undisturbed /\ r.file)
    /\ UNCHANGED <<buffer, tickPending, ioActive, drain, lines, logged, written>>

(* One write that takes n of the remaining bytes, as they are by now.  It  *)
(* goes to _file_bytes + off, and both of these count the bytes written    *)
(* before it: all but the first write of a batch go too far, by as many    *)
(* bytes as the batch has written, and the file ends beyond _file_bytes.   *)
Write(n) ==
    /\ at = "write"
    /\ n <= drain.len - drain.done
    /\ onDisk' = Reach(onDisk, fileBytes + drain.done + n)
    /\ fileBytes' = fileBytes + n
    /\ drain' = [drain EXCEPT !.done = @ + n]
    /\ at' = IF drain'.done = drain.len THEN "reset" ELSE "write"
    /\ whole' = (whole /\ n = drain.len)
    /\ undisturbed' = (undisturbed /\ n = drain.len)
    /\ IF undisturbed'
       THEN /\ written' = written \o SubSeq(pending, drain.off + 1, drain.off + n)
            /\ UNCHANGED logged
       ELSE logged' = <<>> /\ written' = <<>>
    /\ UNCHANGED <<buffer, file, tickPending, ioActive, lines>>

(* A write that takes nothing disables persistence. *)
WriteFails ==
    /\ at = "write"
    /\ file' = FALSE /\ fileBytes' = 0
    /\ at' = "reset"
    /\ undisturbed' = FALSE
    /\ UNCHANGED <<buffer, onDisk, whole, tickPending, ioActive, drain, lines,
                   logged, written>>

(* Mutants of DrainResets: only the front cursor, or only the end, is      *)
(* reset.                                                                  *)
DrainResetsFront ==
    /\ at = "reset"
    /\ pendingOff' = 0
    /\ drain' = NoDrain
    /\ at' = IF drain.tick THEN "tick" ELSE "pick"
    /\ UNCHANGED <<pending, pendingLen, dropped, medium, tickPending, ioActive,
                   lines, logged, written, undisturbed>>

DrainResetsEnd ==
    /\ at = "reset"
    /\ pendingLen' = 0
    /\ drain' = NoDrain
    /\ at' = IF drain.tick THEN "tick" ELSE "pick"
    /\ UNCHANGED <<pending, pendingOff, dropped, medium, tickPending, ioActive,
                   lines, logged, written, undisturbed>>

(* The second critical section. *)
DrainResets ==
    /\ at = "reset"
    /\ pendingOff' = 0 /\ pendingLen' = 0
    /\ drain' = NoDrain
    /\ at' = IF drain.tick THEN "tick" ELSE "pick"
    /\ UNCHANGED <<pending, dropped, medium, tickPending, ioActive, lines,
                   logged, written, undisturbed>>

(* _tick_line, which _emit rotates for and writes, or not. *)
TickLine(opens, outcome) ==
    /\ at = "tick"
    /\ IF file
       THEN LET r == Rotated(OwnLineBytes, opens)
            IN  MediumBecomes(IF r.file THEN OwnLineIn(r, outcome) ELSE r)
       ELSE UNCHANGED medium
    /\ undisturbed' = (undisturbed /\ file')
    /\ at' = "pick"
    /\ UNCHANGED <<buffer, tickPending, ioActive, drain, lines, logged, written>>

MainEntrypoint ==
    \/ RotateExisting \/ DrainEnds \/ DrainPicks \/ DrainResets \/ WriteFails
    \/ \E n \in 1..PendingMax : Write(n)
    \/ \E opens \in BOOLEAN : Emit(opens)
    \/ \E opens \in BOOLEAN, outcome \in Outcomes :
          OpenAtBoot(opens, outcome) \/ TickLine(opens, outcome)

LogdiskNext ==
    \/ \E len \in 1..LineMax : LogLine(len)
    \/ HandleTick
    \/ MainEntrypoint

(* The timer is periodic, and the file system answers. *)
LogdiskSpec ==
    /\ LogdiskInit /\ [][LogdiskNext]_logdiskVars
    /\ WF_logdiskVars(HandleTick) /\ WF_logdiskVars(MainEntrypoint)

-----------------------------------------------------------------------------
(* Properties                                                              *)

LogdiskTypeOK ==
    /\ pending \in [1..PendingMax -> 0..MaxLines]
    /\ pendingOff \in Nat /\ pendingLen \in Nat
    /\ dropped \in BOOLEAN /\ undisturbed \in BOOLEAN /\ whole \in BOOLEAN
    /\ tickPending \in BOOLEAN /\ ioActive \in BOOLEAN /\ file \in BOOLEAN
    /\ fileBytes \in Nat /\ onDisk \in Nat
    /\ at \in Places
    /\ drain \in [off : Nat, len : Nat, done : Nat, tick : BOOLEAN]
    /\ lines \in 0..MaxLines

(* The cursors never cross and never leave the buffer, and the range a     *)
(* drain has picked lies within it, although overflow advances the front   *)
(* and takes back the end, the drain runs beside it, and the difference of *)
(* the cursors is taken in unsigned arithmetic (_append_locked, _drain).   *)
CursorsInOrder ==
    /\ pendingOff <= pendingLen /\ pendingLen <= PendingMax
    /\ drain.done <= drain.len /\ drain.off + drain.len <= PendingMax

(* Unless a line was logged while a batch was on its way, or overflowed,   *)
(* or the file could not be had, or the file system took a batch in more   *)
(* than one write, what has been written and what is still pending is what *)
(* was logged: nothing lost, doubled or reordered by the drain, the tick   *)
(* that interrupts it, or a rotation (_drain, _emit).  Each of these four  *)
(* can lose lines; the last, because _emit then misplaces the rest.        *)
FirstInFirstOut == undisturbed => written \o Unwritten = logged

(* What the sink counts of its file stays within the cap, across rotation, *)
(* failure and writes taken in pieces.  The file itself is as long as the  *)
(* count, and so within the cap, while every write to it was taken whole;  *)
(* one taken in pieces lets it grow past the count and past the cap, by    *)
(* less than the size of the buffer (_emit).                               *)
FileWithinCap ==
    /\ file => fileBytes <= MaxBytes
    /\ whole => onDisk <= MaxBytes /\ (file => fileBytes = onDisk)
    /\ onDisk < MaxBytes + PendingMax

(* What is pending is drained ("a log() call is at most one drain behind   *)
(* the media"): whatever interrupts a drain, a later one is not locked out *)
(* (_io_active, handle_tick).                                              *)
PendingIsDrained == (pendingOff < pendingLen) ~> (pendingOff = pendingLen)

=============================================================================
