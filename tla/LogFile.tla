------------------------------ MODULE LogFile ------------------------------
(***************************************************************************)
(* The files of a file logger (log/file.hpp) and the manager that makes    *)
(* and deletes it (log/manager.hpp).  A file has the local time of its     *)
(* opening, in seconds, in its name, and what was in a file of that name   *)
(* before is gone.  The next file is opened when the present one is too    *)
(* long, but not in the second in which that one was opened.               *)
(***************************************************************************)
EXTENDS Integers, Sequences, SequencesExt

CONSTANTS Lens,         \* sizes of what is written
          Limits,       \* values of max_file_size_
          MaxSeconds, MaxWrites, MaxRestarts   \* bounds

VARIABLES second,             \* time(nullptr)
          behind,             \* how far local time was turned back
          last_roll_second,
          max_file_size, cur_file_size,
          name,               \* of the open file
          contents,           \* of the files, by their names
          everything,         \* history: what was written, in order
          written_at,         \* history: when the last write was
          lowered,            \* history: the limit was changed since
          restarts, hasty     \* history: loggers made again, and one in the second of a roll

logFileVars == <<second, behind, last_roll_second, max_file_size, cur_file_size, name, contents,
                 everything, written_at, lowered, restarts, hasty>>

Names == -MaxSeconds..MaxSeconds

\* The constructor opens a file, whatever the second.
Init ==
  /\ second = 1 /\ behind = 0 /\ last_roll_second = 1 /\ name = 1
  /\ max_file_size \in Limits /\ cur_file_size = 0
  /\ contents = [n \in Names |-> <<>>] /\ everything = <<>> /\ written_at = 0 /\ lowered = FALSE
  /\ restarts = 0 /\ hasty = FALSE

Tick ==
  /\ second < MaxSeconds /\ second' = second + 1
  /\ UNCHANGED <<behind, last_roll_second, max_file_size, cur_file_size, name, contents, everything,
                 written_at, lowered, restarts, hasty>>
\* The end of summer time
TurnBack ==
  /\ behind = 0 /\ behind' = 1
  /\ UNCHANGED <<second, last_roll_second, max_file_size, cur_file_size, name, contents, everything,
                 written_at, lowered, restarts, hasty>>

\* The file is opened for writing from its start.  now is what the files hold.
Open(now) ==
  /\ last_roll_second' = second /\ cur_file_size' = 0
  /\ name' = second - behind /\ contents' = [now EXCEPT ![second - behind] = <<>>]

\* mutant: a file may be opened twice in a second
rollAlways(now, size) == Open(now)
roll(now, size) ==
  IF second > last_roll_second THEN Open(now)
  ELSE contents' = now /\ cur_file_size' = size /\ UNCHANGED <<last_roll_second, name>>

TooLong(size, len) == size > max_file_size

write(len) ==
  LET chunk == [id |-> Len(everything) + 1, len |-> len]
      now == [contents EXCEPT ![name] = Append(@, chunk)]
      size == cur_file_size + len
  IN /\ Len(everything) < MaxWrites /\ everything' = Append(everything, chunk)
     /\ IF TooLong(size, len) THEN roll(now, size)
        ELSE contents' = now /\ cur_file_size' = size /\ UNCHANGED <<last_roll_second, name>>
     /\ written_at' = second /\ lowered' = FALSE
     /\ UNCHANGED <<second, behind, max_file_size, restarts, hasty>>

set_max_file_size(limit) ==
  /\ limit # max_file_size /\ max_file_size' = limit /\ lowered' = TRUE
  /\ UNCHANGED <<second, behind, last_roll_second, cur_file_size, name, contents, everything,
                 written_at, restarts, hasty>>

\* delete_logger and make_logger, or another run of the program
Remake ==
  /\ restarts < MaxRestarts /\ restarts' = restarts + 1
  /\ Open(contents) /\ hasty' = (hasty \/ second = last_roll_second)
  /\ max_file_size' \in Limits
  /\ UNCHANGED <<second, behind, everything, written_at, lowered>>

\* make_logger for a name that is taken: emplace may make a logger, which
\* opens its file, before it finds the old one and drops the new one.
make_logger ==
  /\ restarts < MaxRestarts /\ restarts' = restarts + 1
  /\ contents' = [contents EXCEPT ![second - behind] = <<>>]
  /\ hasty' = (hasty \/ second = last_roll_second)
  /\ UNCHANGED <<second, behind, last_roll_second, max_file_size, cur_file_size, name, everything,
                 written_at, lowered>>

Next ==
  \/ Tick \/ TurnBack \/ Remake \/ make_logger
  \/ \E len \in Lens : write(len)
  \/ \E limit \in Limits : set_max_file_size(limit)

-----------------------------------------------------------------------------
\* What was written stays in one of the files, and the files in the order of
\* their names have all of it in order, unless local time was turned back or
\* a logger of that name was made again in the second in which the old one
\* had opened its file: then a file is opened twice and emptied
\* (file.hpp:42-63, manager.hpp:13-21).
LogsKept ==
  hasty \/ behind > 0 \/
    FlattenSeq([i \in 1..2 * MaxSeconds + 1 |-> contents[i - MaxSeconds - 1]]) = everything

\* The file that is open is longer than the limit only if the last write was
\* in the second of its opening, or the limit was changed since
\* (file.hpp:25-31).
SizeBounded ==
  FoldSeq(LAMBDA chunk, sum : chunk.len + sum, 0, contents[name]) > max_file_size =>
    lowered \/ written_at = last_roll_second
=============================================================================
