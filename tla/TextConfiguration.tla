------------------------- MODULE TextConfiguration -------------------------
(***************************************************************************)
(* SetTextConfiguration and GetTextConfiguration: a list of commands is    *)
(* packed into as few requests as fit and sent one request after the       *)
(* other; the first that fails ends the call.                              *)
(*                                                                         *)
(* A command is its length, a request the interval of commands it holds.   *)
(* The connection is in step: an exchange brings the request's own answer, *)
(* or fails, whether or not the detector took the request up.  What late   *)
(* answers do is the matter of AmptekHardwareInterface.  An answer to a    *)
(* readback is as long as the detector makes it; the code copies it into a *)
(* buffer unseen, and of a program that overruns it no more is said.       *)
(***************************************************************************)
EXTENDS Integers, Sequences

CONSTANTS MaxPacket,        \* 512, the bytes of a request's data
          MaxPerRequest,    \* max_commands_per_request, 32
          Sizes,            \* the lengths of commands
          BufferSize,       \* MAX_UDP_PACKET_SIZE, 520, the bytes of configbuffer
          ShortestAnswer,   \* the lengths of "CMD=VAL;", 16 at most by the comment
          LongestAnswer,
          MaxCommands       \* bound: commands of a call

ASSUME PacketAssumption == MaxPacket \in Nat \ {0} /\ MaxPerRequest \in Nat \ {0}
\* A command and its separator fit in a packet, as every command of a DP5 does.
ASSUME SizesAssumption == Sizes \subseteq 0..MaxPacket - 1
ASSUME AnswersAssumption == {BufferSize, ShortestAnswer, LongestAnswer} \subseteq Nat
ASSUME CommandsAssumption == MaxCommands \in Nat

VARIABLES
    op,             \* the operation, "set" or "get", in progress or returned last
    pc,             \* where it is
    commands,       \* its argument
    i,              \* how many commands have been appended
    first,          \* the first command in cmdstream; the last is i
    bytes,          \* the length of cmdstream
    streamsize,     \* what the code counts
    requests,       \* the requests sent
    applied,        \* the commands the detector has carried out, in its order
    configs,        \* the answers collected
    result,         \* of the call
    error           \* current_state = ERROR

argument == <<op, commands>>
stream == <<i, first, bytes, streamsize>>
vars == <<argument, pc, stream, requests, applied, configs, result, error>>

CommandLists == UNION {[1..n -> Sizes] : n \in 0..MaxCommands}

Init ==
    /\ op = "set"
    /\ pc = "idle"
    /\ commands = <<>>
    /\ i = 0 /\ first = 1 /\ bytes = 0 /\ streamsize = 0
    /\ requests = <<>> /\ applied = <<>> /\ configs = <<>>
    /\ result = "true"
    /\ error = FALSE

\* The call; without a command nothing is sent.
Begin(o, cs) ==
    /\ pc = "idle"
    /\ op' = o
    /\ commands' = cs
    /\ pc' = IF cs = <<>> THEN "idle" ELSE o
    /\ result' = IF cs = <<>> THEN "true" ELSE "none"
    /\ i' = 0 /\ first' = 1 /\ bytes' = 0 /\ streamsize' = 0
    /\ requests' = <<>> /\ applied' = <<>> /\ configs' = <<>>
    /\ UNCHANGED error

Interval(a, b) == [k \in 1..b - a + 1 |-> a + k - 1]

\* The request in cmdstream is sent, and the detector takes it up or not.
Send(taken_up) ==
    /\ requests' = Append(requests, [first |-> first, last |-> i, bytes |-> bytes])
    /\ applied' = IF taken_up /\ op = "set" THEN applied \o Interval(first, i) ELSE applied

Returns(r) ==
    /\ pc' = "idle"
    /\ result' = r

-----------------------------------------------------------------------------
(* SetTextConfiguration.                                                   *)

\* A mistake: the stream is not cleared, and its commands are sent again.
FlushKeepingStream ==
    /\ pc = "set"
    /\ streamsize + commands[i + 1] > MaxPacket - 1
    /\ Send(TRUE)
    /\ pc' = "append"
    /\ UNCHANGED <<argument, stream, configs, result, error>>

\* The next command would not fit: what there is, is sent first.
Flush ==
    /\ pc = "set"
    /\ streamsize + commands[i + 1] > MaxPacket - 1
    /\ Send(TRUE)
    /\ first' = i + 1
    /\ bytes' = 0
    /\ pc' = "append"
    /\ UNCHANGED <<argument, i, streamsize, configs, result, error>>

Adds(counted) ==
    /\ \/ pc = "set" /\ streamsize + commands[i + 1] <= MaxPacket - 1
       \/ pc = "append"
    /\ i' = i + 1
    /\ bytes' = bytes + commands[i + 1] + 1
    /\ streamsize' = streamsize + counted
    /\ pc' = IF i + 1 = Len(commands) THEN "last" ELSE "set"
    /\ UNCHANGED <<argument, first, requests, applied, configs, result, error>>

\* A mistake: the separators are not counted.
AddUncounted == Adds(commands[i + 1])

\* The command and its separator are appended.
Add == Adds(commands[i + 1] + 1)

\* A mistake: the next stream is begun although no command is left.
SendLastClearing ==
    /\ pc = "last"
    /\ Send(TRUE)
    /\ Returns("true")
    /\ first' = i + 1
    /\ UNCHANGED <<argument, i, bytes, streamsize, configs, error>>

\* The last request.
SendLast ==
    /\ pc = "last"
    /\ Send(TRUE)
    /\ Returns("true")
    /\ UNCHANGED <<argument, stream, configs, error>>

\* A request fails and the call with it, although the detector may have
\* carried the request out.
Fail(taken_up) ==
    /\ \/ pc = "set" /\ streamsize + commands[i + 1] > MaxPacket - 1
       \/ pc = "last"
    /\ Send(taken_up)
    /\ Returns("false")
    /\ error' = TRUE
    /\ UNCHANGED <<argument, stream, configs>>

-----------------------------------------------------------------------------
(* GetTextConfiguration.                                                   *)

\* The code's i is ours, for it is about to append command i + 1.
Full == i > 0 /\ i % MaxPerRequest = 0

\* A command is appended; after the last one and, by the code's count, whenever
\* a request is full, the request is due.
Collect ==
    /\ pc = "get"
    /\ i' = i + 1
    /\ bytes' = bytes + commands[i + 1] + 1
    /\ pc' = IF Full \/ i + 1 = Len(commands) THEN "ask" ELSE "get"
    /\ UNCHANGED <<argument, first, streamsize, requests, applied, configs, result,
                   error>>

\* The lengths an answer to the commands in cmdstream may have.
AnswerSizes ==
    LET n == i - first + 1 IN n * ShortestAnswer..n * LongestAnswer

\* The request asks for everything in cmdstream, which is never cleared; its answer
\* is copied into configbuffer, a zero written behind it, and what it says is added to
\* what there is.
Ask(size) ==
    /\ pc = "ask"
    /\ size < BufferSize
    /\ Send(TRUE)
    /\ configs' = configs \o Interval(first, i)
    /\ IF i = Len(commands) THEN Returns("true") ELSE pc' = "get" /\ UNCHANGED result
    /\ UNCHANGED <<argument, stream, error>>

\* The answer and its zero are longer than configbuffer.
Overrun(size) ==
    /\ pc = "ask"
    /\ size >= BufferSize
    /\ Send(TRUE)
    /\ pc' = "undefined"
    /\ UNCHANGED <<argument, stream, configs, result, error>>

\* A mistake: a request that fails is passed over.
AskPassesOver ==
    /\ pc = "ask"
    /\ Send(FALSE)
    /\ IF i = Len(commands) THEN Returns("true") ELSE pc' = "get" /\ UNCHANGED result
    /\ UNCHANGED <<argument, stream, configs, error>>

\* No answer or another packet: the exception leaves the call.
AskFails ==
    /\ pc = "ask"
    /\ Send(FALSE)
    /\ Returns("thrown")
    /\ UNCHANGED <<argument, stream, configs, error>>

Next ==
    \/ \E o \in {"set", "get"}, cs \in CommandLists : Begin(o, cs)
    \/ Flush \/ Add \/ SendLast
    \/ \E taken_up \in BOOLEAN : Fail(taken_up)
    \/ Collect
    \/ \E size \in AnswerSizes : Ask(size) \/ Overrun(size)
    \/ AskFails
    \/ pc = "undefined" /\ UNCHANGED vars

Spec == Init /\ [][Next]_vars

-----------------------------------------------------------------------------
(* Properties.                                                             *)

\* Every variable holds a value of its type; a stream begins with a command of
\* the call.
TypeOK ==
    /\ op \in {"set", "get"}
    /\ pc \in {"idle", "set", "append", "last", "get", "ask", "undefined"}
    /\ commands \in CommandLists
    /\ i \in 0..Len(commands)
    /\ first \in 1..Len(commands) \/ commands = <<>>
    /\ {bytes, streamsize} \subseteq Nat
    /\ requests \in Seq([first : Nat, last : Nat, bytes : Nat])
    /\ {applied, configs} \subseteq Seq(1..Len(commands))
    /\ result \in {"none", "true", "false", "thrown"}
    /\ error \in BOOLEAN

\* SetTextConfiguration carries the commands out in their order, each once, and
\* all of them if it returns true; if it fails, none behind the failed request.
AppliedInOrder ==
    /\ applied = Interval(1, Len(applied))
    /\ op = "set" /\ result = "true" => Len(applied) = Len(commands)

\* No request of SetTextConfiguration is larger than a packet.
RequestsFit ==
    op = "set" => \A k \in DOMAIN requests : requests[k].bytes <= MaxPacket

\* "Vector of strings in the format CMD=VAL": when GetTextConfiguration returns, and if
\* it took one request, it has an answer for each command, in their order and once.  A
\* longer list gets the answers of its first requests as well, again and again; only
\* the last answers are those that were asked for.
AnswersComplete ==
    LET n == Len(commands)
        m == Len(configs)
    IN  op = "get" /\ result = "true" =>
            /\ n <= MaxPerRequest + 1 => configs = Interval(1, n)
            /\ m >= n /\ SubSeq(configs, m - n + 1, m) = Interval(1, n)

\* "32 command will always be below 512 byte": a request of GetTextConfiguration
\* asks for no more than max_commands_per_request.
AnswersFit ==
    op = "get" => \A k \in DOMAIN requests :
        requests[k].last - requests[k].first + 1 <= MaxPerRequest
=============================================================================
