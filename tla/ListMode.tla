------------------------------ MODULE ListMode ------------------------------
(***************************************************************************)
(* EnableListMode, DisableListMode and the worker thread they start and    *)
(* stop: it reads list data over the connection that it shares with the    *)
(* caller and writes it to a file, until a flag tells it to stop.  With    *)
(* them the destructor, and the detector with its list mode FIFO.          *)
(*                                                                         *)
(* The connection is the one ConnectionHandler promises.  An event is its   *)
(* number; events of a full FIFO are lost, which the detector reports with *)
(* the data (LISTDATA_FULL).                                               *)
(***************************************************************************)
EXTENDS Integers, Sequences, FiniteSets

CONSTANTS Workers,      \* the threads that EnableListMode can start
          caller,       \* the thread that uses the interface
          NoThread,     \* nullptr
          FifoSize,     \* events that the detector's FIFO holds
          MaxTurns,     \* bound: exchanges
          MaxEvents,    \* bound: events
          MaxStarts     \* bound: calls of EnableListMode

ASSUME ThreadsAssumption == caller \notin Workers /\ NoThread \notin Workers
ASSUME BoundsAssumption ==
    FifoSize \in Nat \ {0} /\ {MaxTurns, MaxEvents, MaxStarts} \subseteq Nat

Threads == Workers \cup {caller}

VARIABLES
    phase, turns, last, answer,     \* the connection handler
    op,                 \* where the caller is in its call
    listmode_flag,
    list_reader_thread,
    at,                 \* where each worker is
    record,             \* the response that a worker has accepted
    streamfile,         \* open; good: neither failbit nor badbit; what was written
    exchange,           \* by turn: the request, or the detector's reply, or Gone
    events,             \* the events whose data it has handed out or lost
    starts,             \* calls of EnableListMode
    hist                \* history: see below

handlerVars == <<phase, turns, last, answer>>
fileVars == <<record, streamfile>>
deviceVars == <<exchange, events>>
vars == <<handlerVars, op, listmode_flag, list_reader_thread, at, fileVars,
          deviceVars, starts, hist>>

Handler == INSTANCE ConnectionHandler

Packet(kind, data, full) == [kind |-> kind, data |-> data, full |-> full]
\* Requests that the detector has not served.
AskList == Packet("asklist", <<>>, FALSE)
AskOther == Packet("askother", <<>>, FALSE)
Requests == {AskList, AskOther}
\* Replies: list data; another packet; a list response put together from others.
List(data, full) == Packet("list", data, full)
Other == Packet("other", <<>>, FALSE)
Garbled == Packet("garbled", <<>>, FALSE)
\* A reply that was handed over or passed over, and none.
Gone == Packet("none", <<>>, FALSE)

Init ==
    /\ Handler!Init
    /\ op = "idle"
    /\ listmode_flag \in BOOLEAN        \* it is not initialized
    /\ list_reader_thread = NoThread
    /\ at = [w \in Workers |-> "none"]
    /\ record = [w \in Workers |-> Gone]
    /\ streamfile = [open |-> FALSE, good |-> TRUE, written |-> <<>>]
    /\ exchange = <<>> /\ events = 0
    /\ starts = 0
    /\ hist = [accepted |-> <<>>,       \* what workers accepted for this file
               upset |-> FALSE,         \* a call threw or got a foreign answer
               doubled |-> FALSE,       \* list mode was enabled while enabled
               abandoned |-> FALSE,     \* ... or enabled when it was destroyed
               crashed |-> FALSE]       \* a destroyed object was used

-----------------------------------------------------------------------------
(* Exchanges.                                                              *)

MayCall == turns + Cardinality({t \in Threads : phase[t] # "idle"}) < MaxTurns

\* The request goes out when it is the thread's turn.
Send(t) ==
    /\ op # "destroyed"
    /\ Handler!Acquire(t)
    /\ exchange' = Append(exchange, IF t \in Workers THEN AskList ELSE AskOther)
    /\ UNCHANGED <<op, listmode_flag, list_reader_thread, at, fileVars, events, starts,
                   hist>>

\* sendAndReceive ends with `reply`, or throws: Gone.
Ends(t, reply, foreign) ==
    \/ \E r \in 1..turns :
        /\ exchange[r] \notin Requests
        /\ Handler!Deliver(t, r)
        /\ reply = exchange[r]
        /\ foreign = (r # turns)
        /\ exchange' = [q \in 1..turns |-> IF q <= r THEN Gone ELSE exchange[q]]
    \/ /\ Handler!DeliverJunk(t)
       /\ reply \in {Garbled, Other}
       /\ foreign
       /\ UNCHANGED exchange
    \/ /\ Handler!End(t)
       /\ reply = Gone
       /\ foreign
       /\ UNCHANGED exchange

Replies == {exchange[r] : r \in 1..turns} \cup {Gone, Garbled, Other}

-----------------------------------------------------------------------------
(* The worker.                                                             *)

\* while (listmode_flag): it asks for list data, or ends.
Test(w) ==
    /\ op # "destroyed"
    /\ at[w] = "test"
    /\ IF listmode_flag
       THEN MayCall /\ Handler!Enter(w) /\ at' = [at EXCEPT ![w] = "calling"]
       ELSE at' = [at EXCEPT ![w] = "finished"] /\ UNCHANGED handlerVars
    /\ UNCHANGED <<op, listmode_flag, list_reader_thread, fileVars, deviceVars, starts,
                   hist>>

\* A list response with data is to be written; at any other response, and when
\* there is none, an exception is thrown and caught in the loop.
Accepted ==
    {reply \in Replies : \/ reply.kind = "list" /\ reply.data # <<>>
                         \/ reply.kind = "garbled"}

Reads(w, accepted, otherwise) ==
    \E reply \in Replies, foreign \in BOOLEAN :
        /\ op # "destroyed"
        /\ at[w] = "calling"
        /\ Ends(w, reply, foreign)
        /\ at' = [at EXCEPT ![w] = IF reply \in accepted THEN "write" ELSE otherwise]
        /\ record' = [record EXCEPT ![w] = IF reply \in accepted THEN reply ELSE @]
        /\ hist' = [hist EXCEPT
                !.upset = @ \/ foreign,
                !.accepted = IF reply \in accepted THEN Append(@, reply) ELSE @]
        /\ UNCHANGED <<op, listmode_flag, list_reader_thread, streamfile, events, starts>>

\* A mistake the checks must notice: after an exception the response before is
\* written again.
ReadAgain(w) == Reads(w, Accepted, "write")

Read(w) == Reads(w, Accepted, "test")

Writes(w, packet) ==
    /\ op # "destroyed"
    /\ at[w] = "write"
    /\ at' = [at EXCEPT ![w] = "test"]
    /\ streamfile' =
        IF streamfile.open /\ streamfile.good
        THEN [streamfile EXCEPT !.written = Append(@, packet)]
        ELSE [streamfile EXCEPT !.good = FALSE]
    /\ UNCHANGED <<handlerVars, op, listmode_flag, list_reader_thread, record, deviceVars,
                   starts, hist>>

\* A mistake: the last event of the response is left out.
WriteShort(w) ==
    Writes(w, [record[w] EXCEPT !.data = IF Len(@) < 2 THEN @ ELSE SubSeq(@, 1, Len(@) - 1)])

\* A stream with an error set, or without an open file, writes nothing.
Write(w) == Writes(w, record[w])

\* The object is gone, the handler with it: undefined behaviour.
UseDestroyed(w) ==
    /\ op = "destroyed"
    /\ at[w] \notin {"none", "finished"}
    /\ hist' = [hist EXCEPT !.crashed = TRUE]
    /\ UNCHANGED <<handlerVars, op, listmode_flag, list_reader_thread, at, fileVars,
                   deviceVars, starts>>

Work(w) == Test(w) \/ Read(w) \/ Write(w)

-----------------------------------------------------------------------------
(* The caller.                                                             *)

\* EnableListMode: a file that cannot be opened, or a stream that is open
\* already, sets failbit; a file that can is truncated and clears it.
Enable(exists) ==
    /\ op = "idle"
    /\ starts < MaxStarts
    /\ MayCall
    /\ starts' = starts + 1
    /\ LET opens == exists /\ ~streamfile.open
       IN  /\ streamfile' =
                IF opens THEN [open |-> TRUE, good |-> TRUE, written |-> <<>>]
                ELSE [streamfile EXCEPT !.good = FALSE]
           /\ hist' = [hist EXCEPT !.accepted = IF opens THEN <<>> ELSE @,
                                   !.doubled = @ \/ list_reader_thread # NoThread]
    /\ listmode_flag' = TRUE
    /\ Handler!Enter(caller)            \* ResetListModeTimer
    /\ op' = "reset"
    /\ UNCHANGED <<list_reader_thread, at, record, deviceVars>>

\* Nobody looks at what ResetListModeTimer returns.
TimerReset ==
    \E reply \in Replies, foreign \in BOOLEAN :
        /\ op = "reset"
        /\ Ends(caller, reply, foreign)
        /\ op' = "start"
        /\ hist' = [hist EXCEPT !.upset = @ \/ foreign]
        /\ UNCHANGED <<listmode_flag, list_reader_thread, at, fileVars, events, starts>>

\* new std::thread; the pointer to one that runs already is lost.
Start(w) ==
    /\ op = "start"
    /\ at[w] = "none"
    /\ at' = [at EXCEPT ![w] = "test"]
    /\ list_reader_thread' = w
    /\ op' = "idle"
    /\ UNCHANGED <<handlerVars, listmode_flag, fileVars, deviceVars, starts, hist>>

\* A mistake: the flag is not reset.
DisableKeepingFlag ==
    /\ op = "idle"
    /\ op' = IF list_reader_thread = NoThread THEN "idle" ELSE "join"
    /\ UNCHANGED <<handlerVars, listmode_flag, list_reader_thread, at, fileVars, deviceVars,
                   starts, hist>>

\* DisableListMode.
Disable ==
    /\ op = "idle"
    /\ listmode_flag' = FALSE
    /\ op' = IF list_reader_thread = NoThread THEN "idle" ELSE "join"
    /\ UNCHANGED <<handlerVars, list_reader_thread, at, fileVars, deviceVars, starts, hist>>

\* A mistake: the thread is not waited for.
Detach ==
    /\ op = "join"
    /\ streamfile' = [streamfile EXCEPT !.open = FALSE]
    /\ list_reader_thread' = NoThread
    /\ op' = "idle"
    /\ UNCHANGED <<handlerVars, listmode_flag, at, record, deviceVars, starts, hist>>

\* The file is closed, which fails if it is not open, and the thread deleted.
CloseAndDelete ==
    /\ op = "join"
    /\ at' = [at EXCEPT ![list_reader_thread] = "none"]
    /\ streamfile' = [streamfile EXCEPT !.open = FALSE, !.good = @ /\ streamfile.open]
    /\ list_reader_thread' = NoThread
    /\ op' = "idle"
    /\ UNCHANGED <<handlerVars, listmode_flag, record, deviceVars, starts, hist>>

\* Once the thread has ended.
Join == op = "join" /\ at[list_reader_thread] = "finished" /\ CloseAndDelete

\* Any other operation of the interface.
Command ==
    /\ op = "idle"
    /\ MayCall
    /\ Handler!Enter(caller)
    /\ op' = "command"
    /\ UNCHANGED <<listmode_flag, list_reader_thread, at, fileVars, deviceVars, starts, hist>>

CommandReturns ==
    \E reply \in Replies, foreign \in BOOLEAN :
        /\ op = "command"
        /\ Ends(caller, reply, foreign)
        /\ op' = "idle"
        /\ hist' = [hist EXCEPT !.upset = @ \/ foreign]
        /\ UNCHANGED <<listmode_flag, list_reader_thread, at, fileVars, events, starts>>

\* The destructor deletes the handler and stops nobody.
Destroy ==
    /\ op = "idle"
    /\ op' = "destroyed"
    /\ hist' = [hist EXCEPT !.abandoned = list_reader_thread # NoThread]
    /\ UNCHANGED <<handlerVars, listmode_flag, list_reader_thread, at, fileVars, deviceVars,
                   starts>>

Call ==
    \/ \E exists \in BOOLEAN : Enable(exists)
    \/ TimerReset
    \/ \E w \in Workers : Start(w)
    \/ Disable \/ Join
    \/ Command \/ CommandReturns
    \/ Destroy

-----------------------------------------------------------------------------
(* The detector.                                                           *)

\* The numbers of the events that the FIFO holds when n have come since it was
\* emptied.
Held(n) == [k \in 1..(IF n < FifoSize THEN n ELSE FifoSize) |-> events + k]

\* Requests are served in their order, some after their callers gave up and some
\* never; a request for list data empties the FIFO.
DeviceServes(r, n) ==
    /\ op # "destroyed"
    /\ exchange[r] \in Requests
    /\ \A q \in 1..turns : last < q /\ exchange[q] \notin Requests => q < r
    /\ events + n <= MaxEvents
    /\ IF exchange[r] = AskList
       THEN /\ exchange' = [exchange EXCEPT ![r] = List(Held(n), n > FifoSize)]
            /\ events' = events + n
       ELSE /\ n = 0
            /\ exchange' = [exchange EXCEPT ![r] = Other]
            /\ UNCHANGED events
    /\ UNCHANGED <<handlerVars, op, listmode_flag, list_reader_thread, at, fileVars, starts,
                   hist>>

-----------------------------------------------------------------------------

Done == op = "destroyed" /\ UNCHANGED vars

Next ==
    \/ Call
    \/ \E t \in Threads : Send(t)
    \/ \E w \in Workers : Work(w) \/ UseDestroyed(w)
    \/ \E r \in 1..turns, n \in 0..FifoSize + 1 : DeviceServes(r, n)
    \/ Done

\* The operating system runs the worker, and an exchange begins when its turn
\* comes and ends by its timeout.  The caller is not obliged to call.
Fairness ==
    /\ \A w \in Workers : WF_vars(Work(w))
    /\ \A t \in Threads : WF_vars(Send(t))
    /\ WF_vars(TimerReset \/ CommandReturns \/ Join)

Spec == Init /\ [][Next]_vars
FairSpec == Spec /\ Fairness

-----------------------------------------------------------------------------
(* Properties.                                                             *)

PacketType == [kind : {"none", "asklist", "askother", "list", "other", "garbled"},
               data : Seq(Nat), full : BOOLEAN]

\* Every variable holds a value of its type; a worker is in a call of the
\* handler just when the handler says so.
TypeOK ==
    /\ phase \in [Threads -> {"idle", "waiting", "holding"}]
    /\ {turns, last, events, starts} \subseteq Nat
    /\ op \in {"idle", "reset", "start", "join", "command", "destroyed"}
    /\ listmode_flag \in BOOLEAN
    /\ list_reader_thread \in Workers \cup {NoThread}
    /\ at \in [Workers -> {"none", "test", "calling", "write", "finished"}]
    /\ record \in [Workers -> PacketType]
    /\ streamfile \in [open : BOOLEAN, good : BOOLEAN, written : Seq(PacketType)]
    /\ exchange \in Seq(PacketType) /\ Len(exchange) = turns
    /\ hist \in [accepted : Seq(PacketType), upset : BOOLEAN, doubled : BOOLEAN,
                 abandoned : BOOLEAN, crashed : BOOLEAN]
    /\ \A w \in Workers : at[w] = "calling" <=> phase[w] # "idle"

\* While list mode is disabled no worker runs, unless it was once enabled twice:
\* "close the target file and delete the worker thread".  So none uses the handler
\* or the file after the destructor, if list mode was disabled before it.
DisabledMeansStopped ==
    /\ list_reader_thread = NoThread /\ ~hist.doubled =>
           \A w \in Workers : at[w] = "none"
    /\ hist.crashed => hist.abandoned \/ hist.doubled

\* When DisableListMode has closed the file, it holds everything that the worker
\* accepted for it, also what arrived while DisableListMode was waiting.
FileComplete ==
    ~streamfile.open /\ streamfile.good /\ ~hist.doubled =>
        streamfile.written = hist.accepted

Number(k) == streamfile.written[k].data
Data == {k \in DOMAIN streamfile.written : streamfile.written[k].kind = "list"}

\* No event is written twice or behind a later one, whoever is handed whose
\* answers and however late they come.
FileInOrder ==
    ~hist.doubled =>
        \A j, k \in Data : j < k =>
            \A a \in DOMAIN Number(j), b \in DOMAIN Number(k) : Number(j)[a] < Number(k)[b]

\* "a clean way to find FIFO overflow packets during analysis": where events are
\* missing between two packets of the file, the first of them says FULL, as long
\* as every exchange succeeded.
LossIsMarked ==
    ~hist.upset /\ ~hist.doubled =>
        \A k \in 1..Len(streamfile.written) - 1 :
            \/ streamfile.written[k].full
            \/ Number(k + 1)[1] = Number(k)[Len(Number(k))] + 1

\* DisableListMode returns, also while the detector does not answer.
DisableReturns == op = "join" ~> op # "join"
=============================================================================
