-------------------------------- MODULE Rpc --------------------------------
(***************************************************************************)
(* The RPC example: a client and a server that exchange frames over a TCP  *)
(* stream (examples/rpc_client.cpp, rpc_server.cpp and                     *)
(* rpc_examples/rpc_util.hpp).  A frame is the length of its payload, in   *)
(* FIXED_LEN bytes, and the payload.  Bytes are digits to the base RADIX,  *)
(* 256 in the code; the upper half of them are negative as a char.         *)
(***************************************************************************)
EXTENDS Integers, Sequences, FiniteSetsExt

CONSTANTS Payloads,           \* the requests: a method, then its arguments
          Methods,            \* the methods that are registered
          RADIX, FIXED_LEN,
          BufSize,            \* size of the array that a frame is read into
          MaxCalls, MaxFaults \* bounds: calls, and errors of the connection

Ends == {"client", "server"}
Peer(e) == IF e = "client" THEN "server" ELSE "client"

VARIABLES doing,     \* idle, write, read or gone, for both ends
          frame,     \* the array of read_frame
          nbytes,    \* of read_frame
          out,       \* the message of write_frame
          wire,      \* the bytes on their way to an end
          request,   \* the payload of the call
          answer,    \* what the call returned
          calls, rfaults,
          cut,       \* a frame was not written or not read in one piece
          gave_up,   \* a call has failed
          beyond     \* a span reaches beyond the array

rpcVars == <<doing, frame, nbytes, out, wire, request, answer, calls, rfaults, cut, gave_up, beyond>>

Zeros == [i \in 1..BufSize |-> 0]
Error == [ok |-> FALSE, payload |-> <<>>]

Init ==
  /\ doing = [e \in Ends |-> IF e = "client" THEN "idle" ELSE "read"]
  /\ frame = [e \in Ends |-> Zeros] /\ nbytes = [e \in Ends |-> 0]
  /\ out = [e \in Ends |-> <<>>] /\ wire = [e \in Ends |-> <<>>]
  /\ request = <<>> /\ answer = Error /\ calls = 0 /\ rfaults = 0
  /\ cut = FALSE /\ gave_up = FALSE /\ beyond = FALSE

-----------------------------------------------------------------------------
(* RpcCodec                                                                *)

Negative(byte) == byte >= RADIX \div 2

\* The bytes of a signed char are extended with their sign before they are
\* shifted: a negative one sets all the bits above it.
read_u32(b) ==
  LET digit(i) == IF \E j \in i + 1..FIXED_LEN : Negative(b[j]) THEN RADIX - 1 ELSE b[i]
  IN MapThenSumSet(LAMBDA i : digit(i) * RADIX ^ (FIXED_LEN - i), 1..FIXED_LEN)

write_u32(value) == [i \in 1..FIXED_LEN |-> (value \div RADIX ^ (FIXED_LEN - i)) % RADIX]

encode(payload) == write_u32(Len(payload)) \o payload

Sufficient(b, n) == n >= FIXED_LEN /\ n - FIXED_LEN >= read_u32(b)

decode(b) == SubSeq(b, FIXED_LEN + 1, FIXED_LEN + read_u32(b))

-----------------------------------------------------------------------------
(* Framed                                                                  *)

\* mutant: nbytes goes on from the last frame
FreshKept(e) == UNCHANGED <<frame, nbytes>>
\* read_frame starts again, with an array of its own.
Fresh(e) == frame' = [frame EXCEPT ![e] = Zeros] /\ nbytes' = [nbytes EXCEPT ![e] = 0]

\* write() may send a part of the frame; nobody sends the rest.
write_frame(e) ==
  /\ doing[e] = "write"
  /\ \E n \in 1..FIXED_LEN + Len(out[e]) :
       /\ wire' = [wire EXCEPT ![Peer(e)] = @ \o SubSeq(encode(out[e]), 1, n)]
       /\ cut' = (cut \/ n < FIXED_LEN + Len(out[e]))
  /\ doing' = [doing EXCEPT ![e] = "read"] /\ Fresh(e)
  /\ UNCHANGED <<out, request, answer, calls, rfaults, gave_up, beyond>>

\* What the handler of a method computes from the arguments: they themselves
result(payload) == Tail(payload)
invoke(payload) ==
  IF payload # <<>> /\ payload[1] \in Methods
  THEN [ok |-> TRUE, payload |-> result(payload)] ELSE Error

\* The result is the next message; without one the coroutine ends, and the
\* stream with it.
handle_rpc(has_result) ==
  IF has_result.ok
  THEN /\ doing' = [doing EXCEPT !["server"] = "write"]
       /\ out' = [out EXCEPT !["server"] = has_result.payload]
  ELSE doing' = [doing EXCEPT !["server"] = "gone"] /\ UNCHANGED out

\* call() returns what it got.
CallReturns(r) ==
  /\ doing' = [doing EXCEPT !["client"] = "idle"] /\ answer' = r
  /\ gave_up' = (gave_up \/ ~r.ok)

\* Every read goes to the start of the array, the first one and those after
\* it; nbytes counts all of them.
read_frame(e) ==
  /\ doing[e] = "read" /\ ~beyond
  /\ \E n \in 1..Min({BufSize, Len(wire[e])}) :
       LET b == [i \in 1..BufSize |-> IF i <= n THEN wire[e][i] ELSE frame[e][i]]
           total == nbytes[e] + n
       IN /\ wire' = [wire EXCEPT ![e] = SubSeq(@, n + 1, Len(@))]
          /\ cut' = (cut \/ n < Len(wire[e]))
          /\ frame' = [frame EXCEPT ![e] = b] /\ nbytes' = [nbytes EXCEPT ![e] = total]
          /\ beyond' = (total > BufSize)
          /\ IF beyond' \/ ~Sufficient(b, total) THEN UNCHANGED <<doing, out, answer, gave_up>>
             ELSE IF e = "server" THEN handle_rpc(invoke(decode(b))) /\ UNCHANGED <<answer, gave_up>>
             ELSE CallReturns([ok |-> TRUE, payload |-> decode(b)]) /\ UNCHANGED out
  /\ UNCHANGED <<request, calls, rfaults>>

\* The end of the stream, or an error of the connection: a call returns the
\* error, the server's coroutine ends.
FrameFails(e) ==
  /\ \/ doing[e] = "read" /\ wire[e] = <<>> /\ doing[Peer(e)] = "gone" /\ UNCHANGED rfaults
     \/ doing[e] \in {"read", "write"} /\ rfaults < MaxFaults /\ rfaults' = rfaults + 1
  /\ IF e = "client" THEN CallReturns(Error)
     ELSE doing' = [doing EXCEPT ![e] = "gone"] /\ UNCHANGED <<answer, gave_up>>
  /\ UNCHANGED <<frame, nbytes, out, wire, request, calls, cut, beyond>>

call(payload) ==
  /\ doing["client"] = "idle" /\ calls < MaxCalls /\ calls' = calls + 1
  /\ doing' = [doing EXCEPT !["client"] = "write"]
  /\ request' = payload /\ out' = [out EXCEPT !["client"] = payload]
  /\ UNCHANGED <<frame, nbytes, wire, answer, rfaults, cut, gave_up, beyond>>

\* ~RpcClient
Disconnect ==
  /\ doing["client"] = "idle" /\ doing' = [doing EXCEPT !["client"] = "gone"]
  /\ UNCHANGED <<frame, nbytes, out, wire, request, answer, calls, rfaults, cut, gave_up, beyond>>

Next ==
  \/ \E payload \in Payloads : call(payload)
  \/ \E e \in Ends : write_frame(e) \/ read_frame(e) \/ FrameFails(e)
  \/ Disconnect

-----------------------------------------------------------------------------
\* A call that returns a value returns the result of its own request, as long
\* as every frame came in one piece and no call failed before: the reads go
\* to buf, not to the rest s of it (rpc_util.hpp:188-189), and an answer that
\* was given up is still read by the next call.
AnswersOwnCall ==
  doing["client"] = "idle" /\ answer.ok /\ ~cut /\ ~gave_up => answer.payload = result(request)

\* The client and the server never wait for each other's bytes at once, unless
\* a frame was cut, a call failed before, or a length has a byte above 127,
\* which read_u32 takes for a length that no frame has (rpc_util.hpp:29-37).
NobodyWaitsForNothing ==
  (\A e \in Ends : doing[e] = "read" /\ wire[e] = <<>>) /\ calls > 0 =>
    \/ cut \/ gave_up
    \/ \E e \in Ends, i \in 1..FIXED_LEN : Negative(write_u32(Len(out[e]))[i])

\* decode never looks beyond the array, unless a frame was cut or a call
\* failed before (rpc_util.hpp:197-199).
SpanInArray == beyond => cut \/ gave_up
=============================================================================
