--------------------------- MODULE MCComponents ----------------------------
(***************************************************************************)
(* The parts of the library whose safety is checked on their own, in one   *)
(* run: every behaviour picks one of them as its program, and the state of *)
(* the others stays as it was made.                                        *)
(***************************************************************************)
EXTENDS Channel

CONSTANTS s1, s2, r1, r2,
          Entries, SLOT_SIZE, MAX_LEVEL, TicksPerMs, MaxTime, NoWheel,
          Frames, f1, NoFrame,
          Objects, Fds, SqCapacity, MaxOpens, MaxMishaps,
          Period, MaxClock,
          RADIX, FIXED_LEN, BufSize, MaxCalls, MaxFaults,
          Files, OldLens, MaxBytes, MaxSeeks,
          Lens, Limits, MaxSeconds, MaxWrites, MaxRestarts,
          MaxCommands

VARIABLES
  program,
  now, start, num_entries, level, root, expiration, executed,                       \* TimerWheel
  fst, caller, holder, params, ex, empties, ready, active, throwing, terminated,    \* Task
  table, opened, obj, halves, sqes, inflight, retries, mishaps, copied, lost, overwritten,
  crashed, strays,                                                                  \* Descriptor
  instant, expired_time, behavior, sleeping, anchor,                                \* Interval
  doing, frame, nbytes, out, wire, request, answer, calls, rfaults, cut, gave_up, beyond,   \* Rpc
  flags, used, inode, job, fl, want, reused, pos, old, data, got, seen, rest, mine, spoilt,
  opens, written, seeks, ffaults,                                                   \* File
  second, behind, last_roll_second, max_file_size, cur_file_size, name, contents, everything,
  written_at, lowered, restarts, hasty,                                             \* LogFile
  cpc, command, read, output, requests, stored, reply, inbuf, part, eof, answered, torn, refused,
  split, commands                                                                   \* Redis

wheel_state == <<now, start, num_entries, level, root, expiration, executed>>
frames == <<fst, caller, holder, params, ex, empties, ready, active, throwing, terminated>>
fds == <<table, opened, obj, halves, sqes, inflight, retries, mishaps, copied, lost,
         overwritten, crashed, strays>>
ticks == <<instant, expired_time, behavior, sleeping, anchor>>
rpcs == <<doing, frame, nbytes, out, wire, request, answer, calls, rfaults, cut, gave_up, beyond>>
files == <<flags, used, inode, job, fl, want, reused, pos, old, data, got, seen, rest, mine, spoilt,
           opens, written, seeks, ffaults>>
log == <<second, behind, last_roll_second, max_file_size, cur_file_size, name, contents, everything,
         written_at, lowered, restarts, hasty>>
redis_state == <<cpc, command, read, output, requests, stored, reply, inbuf, part, eof, answered, torn,
                 refused, split, commands>>
allVars == <<program, vars, wheel_state, frames, fds, ticks, rpcs, files, log, redis_state>>

\* The requests of the RPC example: one of an unknown method, and one whose
\* length has a byte that is negative as a char
MCPayloads == {<<1, 5>>, <<1, 2, 7>>, <<1, 0, 0, 0>>, <<2>>}
\* The options that are given to a Builder, besides those of File::open and
\* File::create
MCOptionSets == {{"append"}, {"read", "write"}, {"truncate"}}
\* The values of the Redis example: without and with a line end
MCValues == {<<>>, <<"a">>, <<"a", "cr">>, <<"a", "cr", "lf", "b">>, <<"cr", "lf", "+", "OK">>,
             <<"cr", "lf", "$", "a">>}

timer == INSTANCE TimerWheel
task == INSTANCE Task WITH First <- f1
descriptor == INSTANCE Descriptor
interval == INSTANCE Interval
rpc == INSTANCE Rpc WITH Payloads <- MCPayloads, Methods <- {1}
file == INSTANCE File WITH Content <- <<1, 2>>, OptionSets <- MCOptionSets
logfile == INSTANCE LogFile
redis == INSTANCE Redis WITH Values <- MCValues

ComponentsInit ==
  /\ program \in {"channel", "timer", "task", "descriptor", "interval", "rpc", "file",
                 "logfile", "redis"}
  /\ Init /\ (program = "channel" \/ cap = CHOOSE n \in Caps : TRUE)
  /\ timer!Init /\ task!Init /\ descriptor!Init
  /\ interval!Init /\ (program = "interval" \/ (expired_time = 0 /\ behavior = "Burst"))
  /\ rpc!Init /\ file!Init
  /\ logfile!Init /\ (program = "logfile" \/ max_file_size = CHOOSE n \in Limits : TRUE)
  /\ redis!Init

\* A step A of one program
ChannelStep(A) ==
  /\ program = "channel" /\ A
  /\ UNCHANGED <<program, wheel_state, frames, fds, ticks, rpcs, files, log, redis_state>>
Timer(A) ==
  /\ program = "timer" /\ A
  /\ UNCHANGED <<program, vars, frames, fds, ticks, rpcs, files, log, redis_state>>
TaskStep(A) ==
  /\ program = "task" /\ A
  /\ UNCHANGED <<program, vars, wheel_state, fds, ticks, rpcs, files, log, redis_state>>
Descriptor(A) ==
  /\ program = "descriptor" /\ A
  /\ UNCHANGED <<program, vars, wheel_state, frames, ticks, rpcs, files, log, redis_state>>
IntervalStep(A) ==
  /\ program = "interval" /\ A
  /\ UNCHANGED <<program, vars, wheel_state, frames, fds, rpcs, files, log, redis_state>>
RpcStep(A) ==
  /\ program = "rpc" /\ A
  /\ UNCHANGED <<program, vars, wheel_state, frames, fds, ticks, files, log, redis_state>>
FileStep(A) ==
  /\ program = "file" /\ A
  /\ UNCHANGED <<program, vars, wheel_state, frames, fds, ticks, rpcs, log, redis_state>>
LogFileStep(A) ==
  /\ program = "logfile" /\ A
  /\ UNCHANGED <<program, vars, wheel_state, frames, fds, ticks, rpcs, files, redis_state>>
RedisStep(A) ==
  /\ program = "redis" /\ A
  /\ UNCHANGED <<program, vars, wheel_state, frames, fds, ticks, rpcs, files, log>>

ComponentsNext ==
  \/ ChannelStep(Next) \/ Timer(timer!Next)
  \/ TaskStep(task!Next) \/ Descriptor(descriptor!Next)
  \/ IntervalStep(interval!Next)
  \/ RpcStep(rpc!Next) \/ FileStep(file!Next) \/ LogFileStep(logfile!Next)
  \/ RedisStep(redis!Next)

ComponentsSpec == ComponentsInit /\ [][ComponentsNext]_allVars

-----------------------------------------------------------------------------
\* Every armed timer entry is in the slot where expiry and removal look for it,
\* the asserts of rotate hold, and the runtime never sleeps past the first
\* entry.
TimersAreFound ==
  program = "timer" => timer!EntriesFindable /\ timer!RotateAsserts /\ timer!WakesForFirstEntry

\* The wheels, their growing, rotating and shrinking included, fire the entries
\* a sorted queue would.
ImplementsTimerQueue ==
  /\ program = "timer" => timer!queue!Init
  /\ [][program = "timer" => timer!queue!Next]_wheel_state

\* No handle that is still going to be used is one of a destroyed frame, every
\* frame has an owner that will destroy it or is running to its end, and a
\* frame is destroyed only where it rests, or by itself at its end.
FramesAreOwned ==
  [][program = "task" => task!NoDanglingFrame' /\ task!NoFrameLeaks' /\ task!DestroyedAtRest]_frames

\* Every open file has an object, or a request, that closes it; no object
\* closes a file that is not its own; and no read, write or accept reaches a
\* file it was not prepared for.
FilesAreOwned ==
  program = "descriptor" => descriptor!NoLeak /\ descriptor!ClosesOwnFile /\ descriptor!IoOnOwnFile

\* The deadlines of an Interval stay whole periods apart, Skip never leaves one
\* behind that has passed, and each comes after the last one, unless tick() was
\* called a period too early.
IntervalKeepsTime ==
  [][program = "interval" => interval!OnGrid' /\ interval!SkipsMissed
                             /\ interval!DeadlinesAdvance]_ticks

\* With the exceptions rpc names: a call returns the result of its own request,
\* the two ends never wait for each other's bytes at once, and decode stays in
\* the array.
CallsAreAnswered ==
  program = "rpc" => rpc!AnswersOwnCall /\ rpc!NobodyWaitsForNothing /\ rpc!SpanInArray

\* A File can do what its options ask for, unless its Builder had others
\* before; read_to_end returns all that was left of a file that is only
\* appended to; write_all puts all its bytes into a file, once and in order.
FileDoesAsAsked == program = "file" => file!OpenedAsAsked /\ file!ReadsToEnd /\ file!WritesAll

\* The logger's files keep all that was written, unless a file name came twice,
\* and a file over its limit was opened in the second of the last write.
LogFilesRoll == program = "logfile" => logfile!LogsKept /\ logfile!SizeBounded

\* get returns what the server had, no reply is left over or waited for in
\* vain, and decode has a case for every reply, if no reply was cut, refused
\* or has a line end inside.
RepliesInStep ==
  program = "redis" => redis!GetsWhatIsStored /\ redis!RepliesInStep /\ redis!DecodeIsDefined
=============================================================================
