-------------------------------- MODULE File --------------------------------
(***************************************************************************)
(* fs::File and the Builder it is opened with (fs/file.hpp,                *)
(* fs/builder.hpp, fs/impl/impl_async_metadata.hpp, io/impl/               *)
(* impl_async_write.hpp): tasks open one file with one Builder, read it to *)
(* its end and write to it, each with a File of its own.                   *)
(***************************************************************************)
EXTENDS Integers, Sequences, SequencesExt, FiniteSets

CONSTANTS Files,                 \* File objects, each used by one task
          Content,               \* what is in the file at first
          OptionSets,            \* other options that the tasks open it with
          OldLens,               \* sizes of the buffers that read_to_end gets
          MaxOpens, MaxBytes,    \* bounds on opens and on bytes to write
          MaxSeeks               \* and on seeks and failures together

\* The bits of flags_ that matter.  O_RDONLY has none, and -1 has all.
Bits == {"O_WRONLY", "O_RDWR", "O_APPEND", "O_TRUNC", "O_CREAT", "others"}

VARIABLES flags,                 \* flags_ of the Builder
          used,                  \* history: the options it was opened with
          inode,                 \* the bytes of the file
          job,                   \* where the task of a File is
          fl,                    \* flags that a File is opened with
          want, reused,          \* history: its options; the Builder had others before
          pos,                   \* its position
          old, data, got,        \* buffer before read_to_end, as it is, bytes read so far
          seen,                  \* history: what was left of the file when read_to_end saw its size
          rest, mine,            \* bytes that write_all has left, and had at first
          spoilt,                \* history: others cut or overwrote the file since
          opens, written, seeks, ffaults

fileVars == <<flags, used, inode, job, fl, want, reused, pos, old, data, got, seen, rest, mine,
              spoilt, opens, written, seeks, ffaults>>

Init ==
  /\ flags = {} /\ used = {} /\ inode = Content
  /\ job = [f \in Files |-> "closed"] /\ fl = [f \in Files |-> {}]
  /\ want = [f \in Files |-> {}] /\ reused = [f \in Files |-> FALSE] /\ pos = [f \in Files |-> 0]
  /\ old = [f \in Files |-> <<>>] /\ data = [f \in Files |-> <<>>] /\ got = [f \in Files |-> 0]
  /\ seen = [f \in Files |-> <<>>]
  /\ rest = [f \in Files |-> <<>>] /\ mine = [f \in Files |-> <<>>]
  /\ spoilt = [f \in Files |-> FALSE]
  /\ opens = 0 /\ written = 0 /\ seeks = 0 /\ ffaults = 0

openVars == <<flags, used, opens, fl, want, reused>>
readVars == <<old, data, got, seen>>
writeVars == <<rest, mine, written>>
boundVars == <<seeks, ffaults>>

Idle(f) == job[f] \in {"opened", "at end", "all written", "failed"}
Goto(f, where) == job' = [job EXCEPT ![f] = where]
\* The buffers are the caller's, of one call.
NoBuffer(f) ==
  /\ old' = [old EXCEPT ![f] = <<>>] /\ data' = [data EXCEPT ![f] = <<>>]
  /\ got' = [got EXCEPT ![f] = 0] /\ seen' = [seen EXCEPT ![f] = <<>>]
NoBytes(f) == mine' = [mine EXCEPT ![f] = <<>>] /\ rest' = [rest EXCEPT ![f] = <<>>]
Faulty == seeks + ffaults < MaxSeeks /\ ffaults' = ffaults + 1

-----------------------------------------------------------------------------
(* Builder                                                                 *)

\* The access mode for the options; without one flags_ is -1.
Access(o) ==
  CASE o \cap {"read", "write", "append"} = {"read"} -> {}
    [] o \cap {"read", "write", "append"} = {"write"} -> {"O_WRONLY"}
    [] o \cap {"read", "write", "append"} = {"read", "write"} -> {"O_RDWR"}
    [] {"read", "append"} \subseteq o -> {"O_RDWR", "O_APPEND"}
    [] "append" \in o /\ "read" \notin o -> {"O_WRONLY", "O_APPEND"}
    [] OTHER -> Bits
\* The bits are added to those of earlier opens.
adjust_flags(o) ==
  flags \cup Access(o) \cup {b \in {"O_TRUNC"} : "truncate" \in o} \cup {b \in {"O_CREAT"} : "create" \in o}

\* The options of File::open and File::create
open_options == {"read"}
create_options == {"write", "create", "truncate"}

\* The setters choose the options o, and the open is submitted with the flags.
open(f, o) ==
  /\ job[f] = "closed" /\ opens < MaxOpens /\ opens' = opens + 1
  /\ flags' = adjust_flags(o) /\ fl' = [fl EXCEPT ![f] = flags']
  /\ used' = used \cup {o} /\ want' = [want EXCEPT ![f] = o]
  /\ reused' = [reused EXCEPT ![f] = used \ {o} # {}]
  /\ Goto(f, "opening")
  /\ UNCHANGED <<inode, pos, readVars, writeVars, spoilt, boundVars>>

\* What f does to the file spoils what the others read and write.
Spoils(f, now) ==
  spoilt' = [g \in Files |-> spoilt[g] \/ (g # f /\ ~IsPrefix(inode, now))]

\* The open completes: with -1 for flags it is an error.
Opened(f) ==
  /\ job[f] = "opening"
  /\ \/ /\ "others" \notin fl[f] /\ Goto(f, "opened")
        /\ inode' = IF "O_TRUNC" \in fl[f] THEN <<>> ELSE inode
        /\ Spoils(f, inode') /\ UNCHANGED ffaults
     \/ /\ IF "others" \in fl[f] THEN UNCHANGED ffaults ELSE Faulty
        /\ Goto(f, "closed") /\ UNCHANGED <<inode, spoilt>>
  /\ UNCHANGED <<openVars, pos, readVars, writeVars, seeks>>

CanRead(f) == fl[f] \cap {"O_WRONLY", "O_RDWR"} \in {{}, {"O_RDWR"}}
CanWrite(f) == fl[f] \cap {"O_WRONLY", "O_RDWR"} \in {{"O_WRONLY"}, {"O_RDWR"}}

seek(f, offset) ==
  /\ Idle(f) /\ seeks + ffaults < MaxSeeks /\ seeks' = seeks + 1
  /\ pos' = [pos EXCEPT ![f] = offset] /\ Goto(f, "opened") /\ NoBuffer(f) /\ NoBytes(f)
  /\ UNCHANGED <<openVars, inode, written, spoilt, ffaults>>

-----------------------------------------------------------------------------
(* read_to_end                                                             *)

read_to_end(f, n) ==
  /\ Idle(f) /\ Goto(f, "stat")
  /\ old' = [old EXCEPT ![f] = [i \in 1..n |-> -1]] /\ data' = [data EXCEPT ![f] = old'[f]]
  /\ got' = [got EXCEPT ![f] = 0] /\ seen' = [seen EXCEPT ![f] = <<>>] /\ NoBytes(f)
  /\ UNCHANGED <<openVars, inode, pos, written, spoilt, boundVars>>

\* The buffer with room for what is left of the file
Resized(f) ==
  [i \in 1..Len(old[f]) + Len(inode) - pos[f] |-> IF i <= Len(old[f]) THEN -1 ELSE 0]

\* The size is there.  Behind the end of the file the new size of the buffer is
\* less than the old one or wraps around: resize throws out of a noexcept
\* coroutine, or the subspan is out of range.
Stat(f) ==
  /\ job[f] = "stat"
  /\ \/ /\ pos[f] > Len(inode) /\ Goto(f, "undefined") /\ UNCHANGED <<data, seen, spoilt, ffaults>>
     \/ /\ pos[f] <= Len(inode) /\ Goto(f, "read") /\ data' = [data EXCEPT ![f] = Resized(f)]
        /\ seen' = [seen EXCEPT ![f] = SubSeq(inode, pos[f] + 1, Len(inode))]
        /\ spoilt' = [spoilt EXCEPT ![f] = FALSE] /\ UNCHANGED ffaults
     \/ Faulty /\ Goto(f, "failed") /\ UNCHANGED <<data, seen, spoilt>>
  /\ UNCHANGED <<openVars, inode, pos, old, got, writeVars, seeks>>

\* The loop ends at the end of the file, or of the buffer.
Ends(f, n) == n = 0 \/ Len(old[f]) + got[f] + n = Len(data[f])

\* read() gives n bytes, 0 only for an empty buffer and at the end of the file.
Read(f) ==
  LET from == Len(old[f]) + got[f]
      most == Min({Len(data[f]) - from, Max({Len(inode) - pos[f], 0})})
  IN /\ job[f] = "read"
     /\ \/ \E n \in (IF most = 0 THEN {0} ELSE 1..most) :
             /\ CanRead(f) /\ UNCHANGED ffaults
             /\ data' = [data EXCEPT ![f] = [i \in DOMAIN @ |->
                           IF i - from \in 1..n THEN inode[pos[f] + i - from] ELSE @[i]]]
             /\ pos' = [pos EXCEPT ![f] = @ + n] /\ got' = [got EXCEPT ![f] = @ + n]
             /\ Goto(f, IF Ends(f, n) THEN "at end" ELSE "read")
        \/ /\ IF CanRead(f) THEN Faulty ELSE UNCHANGED ffaults
           /\ Goto(f, "failed") /\ UNCHANGED <<data, pos, got>>
     /\ UNCHANGED <<openVars, inode, old, seen, writeVars, spoilt, seeks>>

-----------------------------------------------------------------------------
(* write_all                                                               *)

write_all(f, n) ==
  /\ Idle(f) /\ written + n <= MaxBytes /\ written' = written + n
  /\ mine' = [mine EXCEPT ![f] = [i \in 1..n |-> Len(Content) + written + i]]
  /\ rest' = [rest EXCEPT ![f] = mine'[f]] /\ Goto(f, "write")
  /\ spoilt' = [spoilt EXCEPT ![f] = FALSE] /\ NoBuffer(f)
  /\ UNCHANGED <<openVars, inode, pos, boundVars>>

\* mutant: the next byte is skipped
RestWithoutNext(f, n) == SubSeq(rest[f], n + 2, Len(rest[f]))
Rest(f, n) == SubSeq(rest[f], n + 1, Len(rest[f]))

\* write() takes n bytes, at the end of the file or at the position; a hole
\* before the position is filled with zeros.
Write(f) ==
  LET at == IF "O_APPEND" \in fl[f] THEN Len(inode) ELSE pos[f]
  IN /\ job[f] = "write"
     /\ \/ \E n \in 1..Len(rest[f]) :
             /\ CanWrite(f) /\ UNCHANGED ffaults
             /\ inode' = [i \in 1..Max({at + n, Len(inode)}) |->
                            IF i - at \in 1..n THEN rest[f][i - at]
                            ELSE IF i <= Len(inode) THEN inode[i] ELSE 0]
             /\ Spoils(f, inode') /\ pos' = [pos EXCEPT ![f] = at + n]
             /\ rest' = [rest EXCEPT ![f] = Rest(f, n)]
             /\ Goto(f, IF rest'[f] = <<>> THEN "all written" ELSE "write")
        \/ /\ IF CanWrite(f) THEN Faulty ELSE UNCHANGED ffaults
           /\ Goto(f, "failed") /\ UNCHANGED <<inode, spoilt, pos, rest>>
     /\ UNCHANGED <<openVars, readVars, mine, written, seeks>>

Next ==
  \E f \in Files :
    \/ \E o \in {open_options, create_options} \cup OptionSets : open(f, o)
    \/ Opened(f) \/ Stat(f) \/ Read(f) \/ Write(f)
    \/ \E offset \in 0..Len(Content) + 1 : seek(f, offset)
    \/ \E n \in OldLens : read_to_end(f, n)
    \/ \E n \in 1..MaxBytes : write_all(f, n)

-----------------------------------------------------------------------------
\* A File can do what its options ask for, and nothing that they do not, if
\* the Builder was not opened with other options before: flags_ keeps what
\* earlier opens added (builder.hpp:68-88).
OpenedAsAsked ==
  \A f \in Files : job[f] \notin {"closed", "opening"} /\ ~reused[f] =>
    /\ CanRead(f) = ("read" \in want[f])
    /\ CanWrite(f) = (want[f] \cap {"write", "append"} # {})
    /\ ("O_APPEND" \in fl[f]) = ("append" \in want[f])

\* read_to_end that succeeds leaves the caller's bytes followed by all that
\* was left of the file when it took the size, in however many reads and
\* whatever others append.  If they cut or overwrite the file meanwhile there
\* may be something else, zeros of the resize among it (file.hpp:31-56).
ReadsToEnd ==
  \A f \in Files : job[f] = "at end" /\ ~spoilt[f] => data[f] = old[f] \o seen[f]

\* write_all that succeeds has put all its bytes into the file, once and in
\* order, also if the kernel took them in pieces between the writes of others
\* (impl_async_write.hpp:52-65), unless others cut or overwrote the file.
WritesAll ==
  \A f \in Files : job[f] = "all written" /\ ~spoilt[f] =>
    SelectSeq(inode, LAMBDA b : b \in ToSet(mine[f])) = mine[f]
=============================================================================
