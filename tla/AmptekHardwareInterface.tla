---------------------- MODULE AmptekHardwareInterface ----------------------
(***************************************************************************)
(* AmptekHardwareInterface on top of a connection handler: commands that   *)
(* expect an acknowledge, the caches of the last status and spectrum, the  *)
(* state it reports, and the detector at the other end.                    *)
(*                                                                         *)
(* The connection is the one ConnectionHandler promises, no more: a call   *)
(* may throw although the detector carries the request out, then or later, *)
(* and a later call may be handed the answer that came too late.  Time is  *)
(* counted in milliseconds.                                                *)
(***************************************************************************)
EXTENDS Integers, Sequences

CONSTANTS Threads,      \* the threads that share the connection
          caller,       \* the thread that uses this interface
          Ops,          \* the operations the caller uses
          Ages,         \* the values of max_age_ms it passes
          RecvTimeout,  \* how long an exchange may last
          Epoch,        \* the timestamp of the caches before their first update
          MaxTurns,     \* bound: exchanges
          MaxTime       \* bound: the clock

\* Commands whose failure is reported by GetState as well as by the result.
MarkingCommands == {"enable", "disable", "ping", "clear", "preset"}
\* Commands whose failure is reported by the result alone.
OtherCommands == {"listtimer", "startbuffering", "stopbuffering", "buffer",
                  "bufferclear", "commtest", "stopcommtest"}
Commands == MarkingCommands \cup OtherCommands
CachedReads == {"status", "spectrum"}
AllOps == Commands \cup CachedReads \cup {"getbuffered"}
\* The commands that start and stop the acquisition.
Switches == {"enable", "disable"}

ASSUME CallerAssumption == caller \in Threads
ASSUME OpsAssumption == Ops \subseteq AllOps
\* from_time_t(0) was before the program started, longer ago than any age.
ASSUME EpochAssumption == Epoch \in Int /\ Epoch <= 0
ASSUME AgesAssumption == Ages \subseteq Int /\ \A a \in Ages : a <= -Epoch
ASSUME TimeAssumption == RecvTimeout \in Nat /\ MaxTurns \in Nat /\ MaxTime \in Nat

VARIABLES
    phase, turns, last, answer,     \* the connection handler
    connected,      \* connection_handler # nullptr
    current_state,  \* what GetState reports
    last_status,    \* the caches: `at` is the timestamp the code keeps, `taken`
    last_spectrum,  \*   when the detector took the data, `own` whether it was
                    \*   the answer to the call that stored it
    paired,         \* history: the cached spectrum and a status came together,
                    \*   in one answer of the detector
    call,           \* the caller's call in progress
    outcome,        \* what the caller's latest call returned
    request,        \* the requests, by turn
    served,         \* the detector's replies, by turn
    device,         \* the detector
    now,            \* the clock
    deadline,       \* when the exchange in progress times out, else 0
    adrift,         \* history: a switch threw or got what was not its own answer,
                    \*   and none has succeeded by its own since
    wanted          \* history: the acquisition as last switched successfully

handlerVars == <<phase, turns, last, answer>>
cacheVars == <<last_status, last_spectrum, paired>>
wireVars == <<request, served, device>>
vars == <<handlerVars, connected, current_state, cacheVars, call, outcome,
          wireVars, now, deadline, adrift, wanted>>

Handler == INSTANCE ConnectionHandler

NoCall == [op |-> "none", max_age |-> 0, since |-> 0]
NoOutcome == [op |-> "none", result |-> "none", turn |-> 0, refused |-> FALSE,
              max_age |-> 0, since |-> 0]
NoReply == [kind |-> "none", taken |-> Epoch]
Ack == [kind |-> "ack", taken |-> Epoch]
Nak == [kind |-> "nak", taken |-> Epoch]
\* A spectrum packet: with the status behind the bins, without it ("bare"), or
\* with a PID2 of neither ("unknown").
SpectrumKinds == {"spectrum", "bare", "unknown"}
NeverRead == [at |-> Epoch, taken |-> Epoch, own |-> TRUE]
\* The detector: `todo` are the switches it acknowledged and has yet to carry out,
\* `preset` whether some preset ends the acquisition.  History: `switched`, the
\* switch it acknowledged last; `crossed`, that one overtook another; `ended`, a
\* preset has ended the acquisition since it was switched.
PoweredUp == [enabled |-> FALSE, todo |-> {}, preset |-> FALSE, buffering |-> FALSE,
              slot |-> Epoch, switched |-> FALSE, crossed |-> FALSE, ended |-> FALSE]

Init ==
    /\ Handler!Init
    /\ connected = FALSE
    /\ current_state = "NOT_CONNECTED"
    /\ last_status = NeverRead
    /\ last_spectrum = NeverRead
    /\ paired = TRUE
    /\ call = NoCall
    /\ outcome = NoOutcome
    /\ request = <<>>
    /\ served = <<>>
    /\ device = PoweredUp
    /\ now = 0
    /\ deadline = 0
    /\ adrift = FALSE
    /\ wanted = FALSE

-----------------------------------------------------------------------------
(* Starting a call.                                                        *)

\* A mistake the checks must notice: connecting claims that data is recorded.
ConnectRecording ==
    /\ ~connected
    /\ connected' = TRUE
    /\ current_state' = "RECORDING"
    /\ UNCHANGED <<handlerVars, cacheVars, call, outcome, wireVars, now, deadline,
                   adrift, wanted>>

\* connectUDP, connectUSB, connectSimulator.
Connect ==
    /\ ~connected
    /\ connected' = TRUE
    /\ current_state' = "ON"
    /\ UNCHANGED <<handlerVars, cacheVars, call, outcome, wireVars, now, deadline,
                   adrift, wanted>>

\* A mistake: data just as old as the limit is taken.
AgeOkInclusive(cache, max_age) == max_age >= 0 /\ now - cache.at <= max_age

\* statusAgeOk and spectrumAgeOk.
AgeOk(cache, max_age) == max_age >= 0 /\ now - cache.at < max_age

CacheOf(op) == IF op = "status" THEN last_status ELSE last_spectrum

\* updateStatus or GetSpectrum finds its cache young enough.
ServeFromCache(op, max_age) ==
    /\ connected
    /\ call = NoCall
    /\ op \in CachedReads
    /\ AgeOk(CacheOf(op), max_age)
    /\ outcome' = [op |-> op, result |-> "returned", turn |-> 0, refused |-> FALSE,
                   max_age |-> max_age, since |-> now]
    /\ UNCHANGED <<handlerVars, connected, current_state, cacheVars, call, wireVars,
                   now, deadline, adrift, wanted>>

\* Any other call enters connection_handler->sendAndReceive.
Begin(op, max_age) ==
    /\ connected
    /\ call = NoCall
    /\ turns < MaxTurns
    /\ op \in CachedReads => ~AgeOk(CacheOf(op), max_age)
    /\ call' = [op |-> op, max_age |-> max_age, since |-> now]
    /\ outcome' = NoOutcome
    /\ Handler!Enter(caller)
    /\ UNCHANGED <<connected, current_state, cacheVars, wireVars, now, deadline,
                   adrift, wanted>>

\* The request goes out.
Send ==
    /\ Handler!Acquire(caller)
    /\ request' = Append(request, call.op)
    /\ served' = Append(served, NoReply)
    /\ deadline' = now + RecvTimeout
    /\ UNCHANGED <<connected, current_state, cacheVars, call, outcome, device, now,
                   adrift, wanted>>

-----------------------------------------------------------------------------
(* Ending a call: what each operation makes of the packet it was handed.    *)
(* r is the turn the packet answers.                                        *)

Return(result, r, refused) ==
    /\ call' = NoCall
    /\ deadline' = 0
    /\ outcome' = [op |-> call.op, result |-> result, turn |-> r,
                   refused |-> refused, max_age |-> call.max_age,
                   since |-> call.since]

\* What a read stores of a reply to turn r.
Read(reply, r) == [at |-> now, taken |-> reply.taken, own |-> r = turns]

\* A command returns whether expectAcknowledge accepted the packet; some
\* commands set the state to ERROR when it did not.
CommandReturns(ok, r) ==
    /\ call.op \in Commands
    /\ Return(IF ok THEN "true" ELSE "false", r, FALSE)
    /\ current_state' = IF ~ok /\ call.op \in MarkingCommands THEN "ERROR"
                        ELSE current_state
    /\ wanted' = IF ok /\ call.op \in Switches THEN call.op = "enable" ELSE wanted
    /\ adrift' = IF call.op \in Switches THEN r # turns \/ (adrift /\ ~ok) ELSE adrift
    /\ UNCHANGED cacheVars

\* updateStatus takes a status packet and throws at any other.
StatusReturns(reply, r) ==
    /\ call.op = "status"
    /\ IF reply.kind = "status"
       THEN last_status' = Read(reply, r) /\ Return("returned", r, FALSE)
       ELSE UNCHANGED last_status /\ Return("threw", r, FALSE)
    /\ UNCHANGED <<last_spectrum, paired, current_state, adrift, wanted>>

\* updateSpectrum stores the spectrum of a packet, and the status if it brings
\* one; it throws at a PID2 it does not know, and returns false at a packet that
\* is no spectrum, where GetSpectrum returns the cached one.
SpectrumStores(reply, r, brings_status) ==
    /\ call.op = "spectrum"
    /\ IF reply.kind \in {"spectrum", "bare"}
       THEN /\ last_spectrum' = Read(reply, r)
            /\ last_status' = IF brings_status THEN Read(reply, r) ELSE last_status
            /\ paired' = (reply.kind = "spectrum" /\ r # 0)
       ELSE UNCHANGED cacheVars
    /\ Return(IF reply.kind = "unknown" THEN "threw" ELSE "returned", r,
              reply.kind \notin SpectrumKinds)
    /\ UNCHANGED <<current_state, adrift, wanted>>

\* A mistake: the status that comes with the spectrum is not stored.
SpectrumAloneReturns(reply, r) == SpectrumStores(reply, r, FALSE)

SpectrumReturns(reply, r) == SpectrumStores(reply, r, reply.kind = "spectrum")

\* GetBufferedSpectrum takes a spectrum packet with its status and throws at any
\* other; it leaves the caches alone.
BufferedReturns(reply, r) ==
    /\ call.op = "getbuffered"
    /\ Return(IF reply.kind = "spectrum" THEN "returned" ELSE "threw", r, FALSE)
    /\ UNCHANGED <<cacheVars, current_state, adrift, wanted>>

\* A mistake: expectAcknowledge looks at PID1 alone, which error ACKs have too.
DecodeAnyAck(reply, r) ==
    \/ CommandReturns(reply.kind \in {"ack", "nak"}, r)
    \/ StatusReturns(reply, r)
    \/ SpectrumReturns(reply, r)
    \/ BufferedReturns(reply, r)

Decode(reply, r) ==
    \/ CommandReturns(reply.kind = "ack", r)
    \/ StatusReturns(reply, r)
    \/ SpectrumReturns(reply, r)
    \/ BufferedReturns(reply, r)

\* sendAndReceive returns an answer of the detector.
Receive(r) ==
    /\ served[r] # NoReply
    /\ Handler!Deliver(caller, r)
    /\ Decode(served[r], r)
    /\ UNCHANGED <<connected, wireVars, now>>

\* A packet that no request was answered with is refused by every operation, or
\* is a spectrum put together from several datagrams; a status and an acknowledge
\* fit into one datagram and are never put together.  The parts are of any age.
JunkReplies == [kind : {"junk"} \cup SpectrumKinds, taken : {Epoch, now}]

ReceiveJunk ==
    /\ Handler!DeliverJunk(caller)
    /\ \E reply \in JunkReplies : Decode(reply, 0)
    /\ UNCHANGED <<connected, wireVars, now>>

\* sendAndReceive throws: commands catch it, the other operations do not.
Throw ==
    /\ Handler!End(caller)
    /\ \/ CommandReturns(FALSE, 0)
       \/ /\ call.op \notin Commands
          /\ Return("threw", 0, FALSE)
          /\ UNCHANGED <<cacheVars, current_state, adrift, wanted>>
    /\ UNCHANGED <<connected, wireVars, now>>

-----------------------------------------------------------------------------
(* The detector and the clock.                                             *)

\* What the detector may answer to op when it does not refuse it.  Spectrum
\* requests are refused (ACK BUSY) in buffering mode.
RepliesTo(op) ==
    CASE op = "status"      -> [kind : {"status"}, taken : {now}]
      [] op = "spectrum"    -> IF device.buffering THEN {Nak}
                               ELSE [kind : {"spectrum", "bare"}, taken : {now}]
      [] op = "getbuffered" -> [kind : {"spectrum", "bare"}, taken : {device.slot}]
      [] OTHER              -> {Ack}

\* The acquisition is switched.
Switched(d, op) == [d EXCEPT !.enabled = op = "enable", !.ended = FALSE]

\* The detector switches at once, the simulator after its answer.
SwitchedBy(op) ==
    LET d == [device EXCEPT !.switched = op = "enable", !.crossed = device.todo # {}]
    IN  {Switched(d, op), [d EXCEPT !.todo = @ \cup {op}]}

\* What the detector may do about op.
DevicesAfter(op) ==
    CASE op \in Switches       -> SwitchedBy(op)
      [] op = "preset"         -> {[device EXCEPT !.preset = TRUE]}
      [] op = "startbuffering" -> {[device EXCEPT !.buffering = TRUE]}
      [] op = "stopbuffering"  -> {[device EXCEPT !.buffering = FALSE]}
      [] op \in {"buffer", "bufferclear"} -> {[device EXCEPT !.slot = now]}
      [] OTHER                 -> {device}

\* The detector carries out request r, whether or not its caller still waits,
\* in the order of the requests; requests it passes over were lost.
Pending(r) ==
    /\ r \in 1..Len(served)
    /\ \A q \in r..Len(served) : served[q] = NoReply

DeviceServes(r) ==
    /\ Pending(r)
    /\ \E reply \in RepliesTo(request[r]) : served' = [served EXCEPT ![r] = reply]
    /\ device' \in DevicesAfter(request[r])
    /\ UNCHANGED <<handlerVars, connected, current_state, cacheVars, call, outcome,
                   request, now, deadline, adrift, wanted>>

\* The detector refuses a command (a bad parameter, an interface that is busy).
DeviceRefuses(r) ==
    /\ Pending(r)
    /\ request[r] \in Commands
    /\ served' = [served EXCEPT ![r] = Nak]
    /\ UNCHANGED <<handlerVars, connected, current_state, cacheVars, call, outcome,
                   request, device, now, deadline, adrift, wanted>>

\* What the detector does by itself: sequential buffering ends when every buffer
\* is full, a preset is reached, a switch it has acknowledged takes effect.
DeviceMoves ==
    /\ \/ /\ device.buffering
          /\ device' = [device EXCEPT !.buffering = FALSE]
       \/ /\ device.enabled /\ device.preset
          /\ device' = [device EXCEPT !.enabled = FALSE, !.ended = TRUE]
       \/ \E op \in device.todo :
            device' = Switched([device EXCEPT !.todo = @ \ {op}], op)
    /\ UNCHANGED <<handlerVars, connected, current_state, cacheVars, call, outcome,
                   request, served, now, deadline, adrift, wanted>>

\* An exchange is over by its deadline.
Tick ==
    /\ now < MaxTime
    /\ phase[caller] = "holding" => now < deadline
    /\ now' = now + 1
    /\ UNCHANGED <<handlerVars, connected, current_state, cacheVars, call, outcome,
                   wireVars, deadline, adrift, wanted>>

-----------------------------------------------------------------------------

\* The bound on exchanges is reached and the last one is over.
Done ==
    /\ turns = MaxTurns
    /\ call = NoCall
    /\ UNCHANGED vars

Next ==
    \/ Connect
    \/ \E op \in Ops, max_age \in Ages : ServeFromCache(op, max_age)
    \/ \E op \in Ops \cap CachedReads, max_age \in Ages : Begin(op, max_age)
    \/ \E op \in Ops \ CachedReads : Begin(op, 0)
    \/ Send
    \/ \E r \in 1..turns : Receive(r)
    \/ Throw
    \/ ReceiveJunk
    \/ \E r \in 1..turns : DeviceServes(r) \/ DeviceRefuses(r)
    \/ DeviceMoves
    \/ Tick
    \/ Done

Spec == Init /\ [][Next]_vars

-----------------------------------------------------------------------------
(* Properties.                                                             *)

CacheType == [at : Int, taken : Int, own : BOOLEAN]
ReplyType == [kind : {"none", "ack", "nak", "status"} \cup SpectrumKinds, taken : Int]
DeviceType == [enabled : BOOLEAN, todo : SUBSET Switches, preset : BOOLEAN,
               buffering : BOOLEAN, slot : Int, switched : BOOLEAN,
               crossed : BOOLEAN, ended : BOOLEAN]

\* Every variable holds a value of its type, and the detector answers no
\* request that was not sent.
TypeOK ==
    /\ phase \in [Threads -> {"idle", "waiting", "holding"}]
    /\ turns \in Nat
    /\ last \in Nat
    /\ answer \in [Threads -> Int]
    /\ connected \in BOOLEAN
    /\ current_state \in {"NOT_CONNECTED", "ON", "ERROR"}
    /\ last_status \in CacheType
    /\ last_spectrum \in CacheType
    /\ paired \in BOOLEAN
    /\ call \in [op : AllOps \cup {"none"}, max_age : Int, since : Nat]
    /\ outcome \in [op : AllOps \cup {"none"},
                    result : {"none", "true", "false", "returned", "threw"},
                    turn : Nat, refused : BOOLEAN, max_age : Int, since : Nat]
    /\ request \in Seq(AllOps) /\ Len(request) = turns
    /\ served \in Seq(ReplyType) /\ Len(served) = turns
    /\ device \in DeviceType
    /\ now \in Nat
    /\ deadline \in Nat
    /\ adrift \in BOOLEAN
    /\ wanted \in BOOLEAN

\* A spectrum the detector sent with its status is never cached next to an older
\* status, even when late answers are taken for others; a saved spectrum has the
\* counters of last_status.  A packet without a status replaces the spectrum
\* alone, and its bins are then saved with the counters of an older reading.
StatusNotBeforeSpectrum == paired => last_spectrum.taken <= last_status.taken

\* If the latest Enable or Disable was given its own answer, the acquisition is in
\* the state that the latest one which returned true put it in, whatever became of
\* the other calls; unless a preset has ended it since, or, with the simulator,
\* whose answers come before their effects, the switch is still to be carried out
\* or was acknowledged while another one was.
AcquisitionAsCommanded ==
    ~adrift /\ call.op \notin Switches /\ device.todo = {} /\ ~device.crossed =>
        device.enabled = (wanted /\ ~device.ended)

\* A read that returns data fetched in step returns data that is not older than
\* the caller allows, but for the time an exchange takes: the age is counted
\* from the arrival of the answer, not from when the detector took the data.
DataFresh ==
    outcome.op \in CachedReads /\ outcome.result = "returned" /\ ~outcome.refused =>
        LET data == CacheOf(outcome.op)
        IN  data.own =>
                \/ outcome.since <= data.taken
                \/ outcome.since - data.taken < outcome.max_age + RecvTimeout

\* What Enable and the other commands document, "@return true on success": a
\* command that returns true was carried out by the detector.
TrueMeansCarriedOut ==
    outcome.op \in Commands /\ outcome.result = "true" =>
        outcome.turn = turns /\ served[turns] = Ack

\* What updateSpectrum documents for GetSpectrum: if the spectrum is too old it
\* is read from the detector; so, when the detector's answer is to this very
\* request, what is returned is not too old.
SpectrumNotTooOld ==
    /\ outcome.op = "spectrum" /\ outcome.result = "returned"
    /\ outcome.turn = turns /\ turns > 0 /\ outcome.max_age >= 0
    => outcome.since - last_spectrum.at <= outcome.max_age
=============================================================================
