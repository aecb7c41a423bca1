-------------------------------- MODULE Redis -------------------------------
(***************************************************************************)
(* The Redis client of the examples (examples/redis_client.cpp): set and   *)
(* get send one command each and decode one reply, up to the line ends     *)
(* that read_until of their BufReader finds.  A message is a sequence of   *)
(* tokens, a line end is two of them, and what a read returns may end      *)
(* anywhere.                                                               *)
(***************************************************************************)
EXTENDS Integers, Sequences, SequencesExt

CONSTANTS Values,               \* sequences of tokens that are set
          MaxCommands           \* bound on commands

CRLF == <<"cr", "lf">>
Ends(s) == {i \in 2..Len(s) : SubSeq(s, i - 1, i) = CRLF}
Null == <<"null">>              \* of a key that is not there
Refused == <<"refused">>
Numbers == [s \in {"-1", "0", "1", "2", "3", "4"} |->
              CASE s = "-1" -> -1 [] s = "0" -> 0 [] s = "1" -> 1 [] s = "2" -> 2 [] s = "3" -> 3
                [] s = "4" -> 4]
to_string(n) == CHOOSE s \in DOMAIN Numbers : Numbers[s] = n

VARIABLES cpc,                  \* where the client is
          command,              \* what it has asked for
          read,                 \* the lines it has decoded
          output,               \* what set compares, what get returns
          requests, stored,     \* commands on their way, and what the server has for the key
          reply,                \* bytes that the client has not read
          inbuf,                \* bytes in its BufReader
          part,                 \* what read_until has handed on of a line
          eof,                  \* the connection is broken
          answered,             \* history: what the server last answered with
          torn, refused,        \* history: a line end in an answer; an error reply
          split,                \* history: a line end came in two reads
          commands

redisVars == <<cpc, command, read, output, requests, stored, reply, inbuf, part, eof, answered,
               torn, refused, split, commands>>

Init ==
  /\ cpc = "idle" /\ command = <<>> /\ read = <<>> /\ output = <<>> /\ requests = <<>>
  /\ stored = Null /\ reply = <<>> /\ eof = FALSE /\ answered = Null
  /\ inbuf = <<>> /\ part = <<>>
  /\ torn = FALSE /\ refused = FALSE /\ split = FALSE /\ commands = 0

server == <<stored, answered, torn, refused>>
reader == <<inbuf, part, split>>

-----------------------------------------------------------------------------
(* The server                                                              *)

Ok == <<"+", "OK">> \o CRLF
Bulk(v) == IF v = Null THEN <<"$", "-1">> \o CRLF ELSE <<"$", to_string(Len(v))>> \o CRLF \o v \o CRLF

\* SET answers with OK and GET with what there is; both may be refused, for
\* want of memory or of a password.
Serve ==
  /\ requests # <<>> /\ ~eof /\ requests' = Tail(requests)
  /\ \/ /\ Head(requests)[1] = "SET" /\ stored' = Tail(Head(requests))
        /\ reply' = reply \o Ok /\ UNCHANGED <<answered, torn, refused>>
     \/ /\ Head(requests)[1] = "GET" /\ answered' = stored /\ reply' = reply \o Bulk(stored)
        /\ torn' = (torn \/ Ends(stored) # {}) /\ UNCHANGED <<stored, refused>>
     \/ /\ reply' = reply \o <<"-", "ERR">> \o CRLF /\ refused' = TRUE /\ answered' = Refused
        /\ UNCHANGED <<stored, torn>>
  /\ UNCHANGED <<cpc, command, read, output, reader, eof, commands>>

\* The connection breaks, and some of the last bytes are lost.
Break ==
  /\ ~eof /\ eof' = TRUE /\ requests' = <<>>
  /\ \E n \in 0..Len(reply) : reply' = SubSeq(reply, 1, n)
  /\ UNCHANGED <<cpc, command, read, output, server, reader, commands>>

-----------------------------------------------------------------------------
(* The client                                                              *)

\* encode: a command that cannot be written is only logged.
encode(message) == requests' = IF eof THEN requests ELSE Append(requests, message)
Send(message) ==
  /\ cpc = "idle" /\ commands < MaxCommands /\ commands' = commands + 1
  /\ encode(message) /\ command' = message /\ read' = <<>> /\ output' = <<>> /\ cpc' = "type"
  /\ UNCHANGED <<server, reply, reader, eof>>
send_set_command(value) == Send(<<"SET">> \o value)
send_get_command == Send(<<"GET">>)

\* read_until: everything up to the first line end in the buffer.  Without one
\* it hands on all that is there, and reads again until the stream ends: half
\* of a line end is handed on as well, and not found any more.
InLine == cpc \in {"simple", "bulk", "message"}
HasLine == Ends(inbuf) # {}
Taken == IF HasLine THEN Min(Ends(inbuf)) ELSE Len(inbuf)
Line == part \o SubSeq(inbuf, 1, Taken)
read_until ==
  /\ HasLine \/ (eof /\ reply = <<>>)
  /\ inbuf' = SubSeq(inbuf, Taken + 1, Len(inbuf)) /\ part' = <<>>

\* A read of the socket, which returns some of the bytes that are there
Receive ==
  /\ IF InLine THEN ~HasLine ELSE cpc = "type" /\ inbuf = <<>>
  /\ \E n \in 1..Len(reply) :
       inbuf' = SubSeq(reply, 1, n) /\ reply' = SubSeq(reply, n + 1, Len(reply))
  /\ part' = part \o inbuf
  /\ split' = (split \/ (inbuf # <<>> /\ <<Last(inbuf), Head(reply)>> = CRLF))
  /\ UNCHANGED <<cpc, command, read, output, requests, server, eof, commands>>

get(response) ==
  IF response = <<>> \/ response[1] # "$" THEN <<>>
  ELSE LET end == SelectInSeq(response, LAMBDA t : t = "lf")
           payload_len == Numbers[response[2]]
       IN IF end = 0 THEN <<>>
          ELSE SubSeq(response, end + 1, Min({end + end + payload_len, Len(response)}))

\* decode returns to set or get.
Decoded(response) ==
  /\ cpc' = "idle" /\ read' = <<>>
  /\ output' = IF command[1] = "SET" THEN response ELSE get(response)

\* The first byte; any other than + and $ is undefined behaviour.
DecodeType ==
  /\ cpc = "type"
  /\ \/ /\ inbuf # <<>> /\ inbuf' = Tail(inbuf) /\ read' = <<Head(inbuf)>> /\ UNCHANGED output
        /\ cpc' = (CASE Head(inbuf) = "+" -> "simple" [] Head(inbuf) = "$" -> "bulk"
                     [] OTHER -> "undefined")
     \/ inbuf = <<>> /\ reply = <<>> /\ eof /\ Decoded(<<>>) /\ UNCHANGED inbuf
  /\ UNCHANGED <<command, requests, server, reply, part, split, eof, commands>>

DecodeSimple ==
  /\ cpc = "simple" /\ read_until /\ Decoded(read \o Line)
  /\ UNCHANGED <<command, requests, server, reply, split, eof, commands>>

\* mutant: a null string has a value
IsNullNever(line) == FALSE
IsNull(line) == Numbers[line[1]] = -1

\* The length; stol throws if there is none.
DecodeLen ==
  /\ cpc = "bulk" /\ read_until
  /\ IF Line = <<>> \/ Head(Line) \notin DOMAIN Numbers
     THEN cpc' = "threw" /\ UNCHANGED <<read, output>>
     ELSE IF IsNull(Line) THEN Decoded(read \o Line)
     ELSE cpc' = "message" /\ read' = read \o Line /\ UNCHANGED output
  /\ UNCHANGED <<command, requests, server, reply, split, eof, commands>>

LenMatches(line) == Numbers[read[2]] = Len(line) - 2

\* The message, whose length is compared with an assert: only some builds go
\* on when it is another.
DecodeMessage ==
  /\ cpc = "message" /\ read_until
  /\ \/ Decoded(read \o Line)
     \/ /\ ~LenMatches(Line) /\ cpc' = "aborted" /\ UNCHANGED <<read, output>>
  /\ UNCHANGED <<command, requests, server, reply, split, eof, commands>>

\* Protocol::close
close ==
  /\ cpc = "idle" /\ cpc' = "closed"
  /\ UNCHANGED <<command, read, output, requests, server, reply, reader, eof, commands>>

Next ==
  \/ Serve \/ Break \/ Receive \/ DecodeType \/ DecodeSimple \/ DecodeLen \/ DecodeMessage \/ close
  \/ send_get_command \/ \E value \in Values : send_set_command(value)

-----------------------------------------------------------------------------
\* get returns what the server had for the key, with the line end after it,
\* or nothing, unless the connection broke, a reply was refused, a value with a
\* line end in it was read before, or a line end came in two reads
\* (redis_client.cpp:208-223, impl_buf_read.hpp:69-79).
GetsWhatIsStored ==
  cpc = "idle" /\ command = <<"GET">> /\ ~eof /\ ~refused /\ ~torn /\ ~split =>
    output = IF answered = Null THEN <<>> ELSE answered \o CRLF

\* Between two commands nothing is unread and nothing on its way, and the
\* client does not wait for bytes that nobody will send, however the replies
\* are cut up, with the same exceptions (redis_client.cpp:86-128).
RepliesInStep ==
  ~eof /\ ~torn /\ ~split =>
    /\ cpc = "idle" => requests = <<>> /\ inbuf \o reply = <<>>
    /\ (cpc = "type" \/ InLine) /\ requests = <<>> => Ends(inbuf \o reply) # {}

\* decode gets to std::unreachable only after an error reply, a line end in a
\* value or one in two reads; it throws or fails its assert only if the
\* connection broke, or because of such line ends (redis_client.cpp:105, 116,
\* 125).
DecodeIsDefined ==
  /\ cpc = "undefined" => refused \/ torn \/ split
  /\ cpc \in {"threw", "aborted"} => eof \/ torn \/ split
=============================================================================
