----------------------------- MODULE Descriptor -----------------------------
(***************************************************************************)
(* Who owns a file descriptor: io::detail::FD and the sockets, streams,    *)
(* listeners and files built on it.  An FD object closes its number when   *)
(* it dies, through the ring when there is a free SQE and with close(2)    *)
(* otherwise; a number is closed, and handed out again by the kernel, some *)
(* time after the object that owned it has let go.  A file is one opening; *)
(* a number stands for whatever file the kernel's table has there.         *)
(***************************************************************************)
EXTENDS Naturals, Sequences, SequencesExt, FiniteSets, FiniteSetsExt

CONSTANTS
    Objects,        \* the FD objects a program has room for
    Fds,            \* the numbers of the process's descriptor table
    SqCapacity,     \* SQEs of the ring
    MaxOpens,       \* bound: files ever opened
    MaxMishaps      \* bound: objects copied, close(2) calls that report an
                    \* error and connects that find no SQE, together

VARIABLES
    table,      \* number -> the file open there, 0 when free
    opened,     \* files opened so far
    obj,        \* object -> [fd, file], or Gone
    halves,     \* object -> the owned halves that share it, {} when unshared
    sqes,       \* SQEs prepared and not yet submitted
    inflight,   \* requests the kernel has
    retries,    \* close(2) loops that saw an error and will call it again
    mishaps,    \* how many of those there have been
    copied,     \* files two objects have held at once
    lost,       \* files whose close() found no SQE
    overwritten,\* files whose number a copy assignment wrote over
    crashed,    \* connect() dereferenced the SQE that it did not get
    strays      \* what was done to a number that stood for another file

descriptorVars == <<table, opened, obj, halves, sqes, inflight, retries,
                    mishaps, copied, lost, overwritten, crashed, strays>>
past == <<copied, lost, overwritten, crashed>>

None == 99
Gone == [fd |-> None, file |-> None]
Empty == [fd |-> None, file |-> 0]     \* fd_ is -1

Init ==
    /\ table = [n \in Fds |-> 0]
    /\ opened = 0
    /\ obj = [o \in Objects |-> Gone]
    /\ halves = [o \in Objects |-> {}]
    /\ sqes = <<>>
    /\ inflight = {}
    /\ retries = {}
    /\ mishaps = 0
    /\ copied = {}
    /\ lost = {}
    /\ overwritten = {}
    /\ crashed = FALSE
    /\ strays = {}

Full == Len(sqes) >= SqCapacity
Pending == inflight \union ToSet(sqes)
Request(op, o, h, it) ==
    [op |-> op, on |-> o, half |-> h, fd |-> it.fd, file |-> it.file]
get_sqe(r) == ~Full /\ sqes' = Append(sqes, r)

\* An object that a suspended coroutine is using stays where it is.
Busy(o) == \E r \in Pending : /\ r.op \notin {"close", "nop"}
                              /\ o \in {r.on, r.half}
Free(o) == obj[o] = Gone /\ ~Busy(o)
Holds(o) == obj[o].fd # None /\ ~Busy(o)
Alive(o) == obj[o] # Gone /\ halves[o] = {} /\ ~Busy(o)

-----------------------------------------------------------------------------
\* The kernel: the lowest free number, and what close(2) does to a number
Room == opened < MaxOpens /\ \E n \in Fds : table[n] = 0
Lowest == Min({n \in Fds : table[n] = 0})
Fresh == [fd |-> Lowest, file |-> opened + 1]
Opened == table' = [table EXCEPT ![Lowest] = opened + 1] /\ opened' = opened + 1

Stray(how, it) ==
    strays \union IF table[it.fd] \in {0, it.file} THEN {}
                  ELSE {[how |-> how, meant |-> it.file, hit |-> table[it.fd]]}
Released(how, it) ==
    /\ table' = [table EXCEPT ![it.fd] = 0]
    /\ strays' = Stray(how, it)

-----------------------------------------------------------------------------
\* close(2), called up to three times while it reports an error: Linux has
\* freed the number even then
Loops(it, failed) ==
    \/ ~failed /\ UNCHANGED <<retries, mishaps>>
    \/ /\ failed \/ mishaps < MaxMishaps
       /\ mishaps' = IF failed THEN mishaps ELSE mishaps + 1
       /\ retries' = retries \union {[fd |-> it.fd, file |-> it.file, left |-> 2]}
SyncClose(it) ==
    /\ Released("close", it)
    /\ Loops(it, table[it.fd] = 0)
    /\ UNCHANGED sqes

do_close(o) ==
    IF Full THEN SyncClose(obj[o])
    ELSE /\ get_sqe(Request("close", o, "none", obj[o]))
         /\ UNCHANGED <<table, strays, retries, mishaps>>

\* The loop's next call; on another thread anything may have come between
Retry(r) ==
    /\ Released("retry", r)
    /\ retries' = (retries \ {r}) \union
                     IF table[r.fd] = 0 /\ r.left > 1
                     THEN {[r EXCEPT !.left = @ - 1]} ELSE {}
    /\ UNCHANGED <<opened, obj, halves, sqes, inflight, mishaps, past>>

\* ~FD
Destroy(o) ==
    /\ Alive(o)
    /\ obj' = [obj EXCEPT ![o] = Gone]
    /\ IF obj[o].fd # None THEN do_close(o)
       ELSE UNCHANGED <<table, sqes, retries, mishaps, strays>>
    /\ UNCHANGED <<opened, halves, inflight, past>>

\* mutant: the object that was moved from keeps its number
MovedForgetful(o, p) == [obj EXCEPT ![p] = obj[o], ![o] = obj[o]]
\* What a move leaves behind: the number is with p, o has -1
Moved(o, p) == [obj EXCEPT ![p] = obj[o], ![o] = Empty]

\* FD(FD &&), and a number passed on with take_fd
Move(o, p) ==
    /\ Alive(o) /\ Free(p)
    /\ obj' = Moved(o, p)
    /\ UNCHANGED <<table, opened, halves, sqes, inflight, retries, mishaps, past, strays>>

\* operator=(FD &&): what p had is closed first
MoveAssign(o, p) ==
    /\ Alive(o) /\ Alive(p)
    /\ IF obj[p].fd # None THEN do_close(p)
       ELSE UNCHANGED <<table, sqes, retries, mishaps, strays>>
    /\ obj' = Moved(o, p)
    /\ UNCHANGED <<opened, halves, inflight, past>>

\* The two copies that the compiler writes
FileOf(o) == IF obj[o].fd = None THEN {} ELSE {obj[o].file}
Copied(o, p) ==
    /\ mishaps < MaxMishaps /\ mishaps' = mishaps + 1
    /\ obj' = [obj EXCEPT ![p] = obj[o]]
    /\ copied' = copied \union FileOf(o)
    /\ UNCHANGED <<table, opened, halves, sqes, inflight, retries, lost, crashed, strays>>

\* FD(const FD &)
Copy(o, p) == Alive(o) /\ Free(p) /\ Copied(o, p) /\ UNCHANGED overwritten

\* operator=(const FD &): what p had is not closed
CopyAssign(o, p) ==
    /\ Alive(o) /\ Alive(p) /\ o # p /\ Copied(o, p)
    /\ overwritten' = overwritten \union FileOf(p)

\* close(): the object lets go before the awaiter asks for an SQE
close(o) ==
    /\ Alive(o) /\ Holds(o)
    /\ obj' = [obj EXCEPT ![o] = Empty]
    /\ \/ get_sqe(Request("Close", o, "none", obj[o])) /\ UNCHANGED lost
       \/ Full /\ lost' = lost \union {obj[o].file} /\ UNCHANGED sqes
    /\ UNCHANGED <<table, opened, halves, inflight, retries, mishaps, copied,
                   overwritten, crashed, strays>>

-----------------------------------------------------------------------------
\* Socket::create; TcpSocket, UdpDatagram and a listener that was bound
create(o) ==
    /\ Free(o) /\ Room
    /\ Opened
    /\ obj' = [obj EXCEPT ![o] = Fresh]
    /\ UNCHANGED <<halves, sqes, inflight, retries, mishaps, past, strays>>

\* BaseListener::bind when bind or listen fails: the socket dies with the call
bind_fails(o) ==
    /\ Free(o) /\ Room
    /\ opened' = opened + 1
    /\ \/ /\ get_sqe(Request("close", o, "none", Fresh))
          /\ table' = [table EXCEPT ![Lowest] = opened + 1]
          /\ UNCHANGED <<retries, mishaps>>
       \/ Full /\ Loops(Fresh, FALSE) /\ UNCHANGED <<sqes, table>>
    /\ UNCHANGED <<obj, halves, inflight, past, strays>>

\* BaseStream::connect.  Without an SQE await_resume finds fd_ never set; when
\* socket(2) fails the caller is handed a stream that has no descriptor.
connect(o) ==
    /\ Free(o)
    /\ \/ /\ Full
          /\ mishaps < MaxMishaps /\ mishaps' = mishaps + 1
          /\ \E n \in Fds : Released("unset", [fd |-> n, file |-> 0])
          /\ UNCHANGED <<opened, obj, sqes>>
       \/ /\ ~Full /\ Room
          /\ Opened
          /\ get_sqe(Request("connect", o, "none", Fresh))
          /\ UNCHANGED <<obj, mishaps, strays>>
       \/ /\ ~Full /\ {n \in Fds : table[n] = 0} = {}
          /\ get_sqe(Request("nop", o, "none", Empty))
          /\ obj' = [obj EXCEPT ![o] = Empty]
          /\ UNCHANGED <<table, opened, mishaps, strays>>
    /\ UNCHANGED <<halves, inflight, retries, past>>

\* TcpSocket::connect: the socket moves into the awaiter, whose constructor
\* writes the address through sqe_ although that is null without an SQE
dial(o) ==
    /\ Alive(o) /\ Holds(o)
    /\ \/ /\ get_sqe(Request("dial", o, "none", obj[o]))
          /\ obj' = [obj EXCEPT ![o] = Gone] /\ UNCHANGED crashed
       \/ Full /\ crashed' = TRUE /\ UNCHANGED <<sqes, obj>>
    /\ UNCHANGED <<table, opened, halves, inflight, retries, mishaps, copied,
                   lost, overwritten, strays>>

\* Builder::open; the kernel chooses the number when it completes
open(o) ==
    /\ Free(o)
    /\ get_sqe(Request("open", o, "none", Empty))
    /\ UNCHANGED <<table, opened, obj, halves, inflight, retries, mishaps, past, strays>>

\* BaseListener::accept on the listener l; the stream goes to o
accept(l, o) ==
    /\ Alive(l) /\ Holds(l) /\ Free(o) /\ l # o
    /\ get_sqe(Request("accept", o, l, obj[l]))
    /\ UNCHANGED <<table, opened, obj, halves, inflight, retries, mishaps, past, strays>>

\* A read or a write on the stream, or on one of its halves
Io(o, h) ==
    /\ obj[o].fd # None
    /\ IF halves[o] = {} THEN h = "none" /\ ~Busy(o) ELSE h \in halves[o]
    /\ ~\E r \in Pending : r.on = o /\ r.half = h
    /\ get_sqe(Request("io", o, h, obj[o]))
    /\ UNCHANGED <<table, opened, obj, halves, inflight, retries, mishaps, past, strays>>

-----------------------------------------------------------------------------
\* into_split moves the stream into shared storage two halves point to
into_split(o, p) ==
    /\ Alive(o) /\ Free(p)
    /\ obj' = Moved(o, p)
    /\ halves' = [halves EXCEPT ![p] = {"read", "write"}]
    /\ UNCHANGED <<table, opened, sqes, inflight, retries, mishaps, past, strays>>

HalfIdle(o, h) == ~\E r \in Pending : r.on = o /\ r.half = h /\ r.op = "io"

\* The half that dies last takes the shared stream with it
LastHalf(o, h) == halves[o] = {h}
DropHalf(o, h) ==
    /\ h \in halves[o] /\ HalfIdle(o, h)
    /\ halves' = [halves EXCEPT ![o] = @ \ {h}]
    /\ IF LastHalf(o, h)
       THEN /\ obj' = [obj EXCEPT ![o] = Gone]
            /\ IF obj[o].fd # None THEN do_close(o)
               ELSE UNCHANGED <<table, sqes, retries, mishaps, strays>>
       ELSE UNCHANGED <<obj, table, sqes, retries, mishaps, strays>>
    /\ UNCHANGED <<opened, inflight, past>>

\* reunite moves the stream out; the emptied storage dies with both halves
reunite(o, p) ==
    /\ halves[o] = {"read", "write"} /\ Free(p)
    /\ \A h \in halves[o] : HalfIdle(o, h)
    /\ obj' = [Moved(o, p) EXCEPT ![o] = Gone]
    /\ halves' = [halves EXCEPT ![o] = {}]
    /\ UNCHANGED <<table, opened, sqes, inflight, retries, mishaps, past, strays>>

-----------------------------------------------------------------------------
\* Poller::submit and force_submit
Submit ==
    /\ sqes # <<>>
    /\ inflight' = inflight \union {r \in ToSet(sqes) : r.op # "nop"}
    /\ sqes' = <<>>
    /\ UNCHANGED <<table, opened, obj, halves, retries, mishaps, past, strays>>

\* What await_resume makes of the result, for each kind of request.
CloseResumes(r) ==
    /\ r.op \in {"close", "Close"}
    /\ Released("close", r)
    /\ UNCHANGED <<opened, obj, sqes, retries, mishaps>>
Connected(r) ==
    /\ r.op \in {"connect", "dial"}
    /\ obj' = [obj EXCEPT ![r.on] = [fd |-> r.fd, file |-> r.file]]
    /\ UNCHANGED <<table, opened, sqes, retries, mishaps, strays>>
ConnectFails(r) ==
    /\ r.op = "connect"
    /\ Released("close", r)
    /\ UNCHANGED <<opened, obj, sqes, retries, mishaps>>
\* the socket in the awaiter dies with it
DialFails(r) ==
    /\ r.op = "dial"
    /\ IF Full THEN SyncClose([fd |-> r.fd, file |-> r.file])
       ELSE /\ sqes' = Append(sqes, [r EXCEPT !.op = "close"])
            /\ UNCHANGED <<table, retries, mishaps, strays>>
    /\ UNCHANGED <<opened, obj>>
OpenResumes(r) ==
    /\ r.op \in {"open", "accept"} /\ Room
    /\ Opened
    /\ obj' = [obj EXCEPT ![r.on] = Fresh]
    /\ strays' = IF r.op = "accept" THEN Stray("io", r) ELSE strays
    /\ UNCHANGED <<sqes, retries, mishaps>>
IoResumes(r) ==
    /\ r.op \in {"open", "accept", "io"}
    /\ strays' = IF r.op = "open" THEN strays ELSE Stray("io", r)
    /\ UNCHANGED <<table, opened, obj, sqes, retries, mishaps>>

\* The kernel carries out a request, in any order, and the awaiter resumes
Complete(r) ==
    /\ inflight' = inflight \ {r}
    /\ \/ CloseResumes(r) \/ Connected(r) \/ ConnectFails(r) \/ DialFails(r)
       \/ OpenResumes(r) \/ IoResumes(r)
    /\ UNCHANGED <<halves, past>>

Step ==
    \/ \E o \in Objects : \/ Destroy(o) \/ close(o) \/ create(o) \/ bind_fails(o)
                          \/ connect(o) \/ dial(o) \/ open(o)
    \/ \E o, p \in Objects : \/ Move(o, p) \/ MoveAssign(o, p) \/ Copy(o, p)
                             \/ CopyAssign(o, p) \/ accept(o, p) \/ into_split(o, p)
                             \/ reunite(o, p)
    \/ \E o \in Objects, h \in {"none", "read", "write"} : Io(o, h) \/ DropHalf(o, h)
    \/ Submit
    \/ \E r \in inflight : Complete(r)
    \/ \E r \in retries : Retry(r)

Next == ~crashed /\ Step

Spec == Init /\ [][Next]_descriptorVars

-----------------------------------------------------------------------------
\* Who has the file a number stands for: an object, or a request that will
\* close it or turn it into an object
Holders(n) ==
    {o \in Objects : obj[o] = [fd |-> n, file |-> table[n]]} \union
    {r \in Pending : r.op \notin {"io", "accept"} /\ r.fd = n /\ r.file = table[n]}

\* A descriptor that is open is held by someone who will close it (FD's
\* destructor, its move assignment, the awaiters' error paths), except after a
\* close() that found no SQE, which gives the number up and closes nothing, and
\* after a copy assignment to an FD that had a number, which writes over it
\* (io.hpp:64, 68-72).
NoLeak ==
    \A n \in Fds : table[n] \in lost \union overwritten \union {0} \/ Holders(n) # {}

\* Files that lost their number to somebody else's mistake
Harmed == copied \union {s.hit : s \in strays}

\* The number an object closes still stands for its own file.  The exceptions
\* are the ones the code has: a copied object, close(2) called again after an
\* error (do_close), a connect whose fd_ was never set, and the owners of what
\* those closed.
ClosesOwnFile ==
    \A s \in strays : s.how = "close" => s.meant \in Harmed

\* A read, write or accept reaches the file it was prepared for, although one
\* half of a split stream may have been dropped and its number been reused.
IoOnOwnFile ==
    \A s \in strays : s.how = "io" => s.meant \in Harmed
=============================================================================
