------------------------ MODULE UsbConnectionHandler ------------------------
(***************************************************************************)
(* AmptekUsbConnectionHandler: the constructor, which looks through the    *)
(* devices of the bus for the detector with the wanted serial number, the  *)
(* exchanges that the threads of a program make with the detector it kept, *)
(* and the destructor.                                                     *)
(*                                                                         *)
(* A detector takes the requests from one endpoint and puts its responses  *)
(* into another, where they stay until somebody reads them: the two are    *)
(* one queue here, pipe, in which each request becomes its response.  A    *)
(* response carries the turn of its request, which the code cannot see; it *)
(* is 0 for what the constructor asked and for what was there before.      *)
(***************************************************************************)
EXTENDS Integers, Sequences, FiniteSets

CONSTANTS Threads,      \* the threads that share the connection
          SerialOf,     \* the serial numbers of the devices, in the bus's order
          Targets,      \* serial numbers asked for; a negative one takes any
          Leftovers,    \* what may be in a detector's endpoint: sequences of kinds
          MaxTurns,     \* bound: exchanges
          MaxAttempts   \* bound: calls of the constructor

Devices == DOMAIN SerialOf

ASSUME DevicesAssumption == SerialOf \in Seq(Nat) /\ Targets \subseteq Int
ASSUME UsbBoundsAssumption == {MaxTurns, MaxAttempts} \subseteq Nat
Answers == {"status", "short", "long"}
ASSUME LeftoversAssumption == Leftovers \subseteq [Devices -> Seq(Answers)]

VARIABLES
    stage,          \* "scan", "ready", "failed", "closed"
    target,         \* the serial number wanted
    probe,          \* the device looked at, and ...
    step,           \* ... what is next to do with it
    attempts,       \* calls of the constructor
    scratch,        \* the serial number that the bytes of input_buffer spell
    handle,         \* each device: "closed", "open" or "claimed"
    usb_handle,     \* the device kept; 0 for nullptr
    pipe,           \* each device: requests and the responses to them
    comm_mutex,     \* whether it is locked
    pc,             \* where each thread is in its call
    turns, turn,    \* turns so far; the turn of each thread's latest call
    last, answer,   \* history, as in ConnectionHandler
    hist            \* history: see below

scanVars == <<stage, target, probe, step, attempts, scratch, handle, usb_handle>>
callVars == <<comm_mutex, pc, turns, turn, last, answer>>
vars == <<scanVars, callVars, pipe, hist>>

NoAnswer == 0
Junk == -1

Item(n, kind) == [turn |-> n, kind |-> kind]

Init ==
    /\ stage = "scan" /\ target \in Targets /\ attempts = 1
    /\ probe = 1 /\ step = "open"
    /\ scratch \in {0, target}    \* new byte[]: not initialized
    /\ handle = [d \in Devices |-> "closed"]
    /\ usb_handle = 0
    /\ \E old \in Leftovers :
        pipe = [d \in Devices |-> [k \in DOMAIN old[d] |-> Item(0, old[d][k])]]
    /\ comm_mutex = FALSE
    /\ pc = [t \in Threads |-> "idle"]
    /\ turns = 0 /\ turn = [t \in Threads |-> 0]
    /\ last = 0 /\ answer = [t \in Threads |-> NoAnswer]
    /\ hist = [upset |-> FALSE,     \* some response was left behind or not read
               stuck |-> {},        \* devices that could not be released
               failed |-> {},       \* devices this constructor got no serial number of
               crashed |-> FALSE]   \* input_buffer was read past its end

-----------------------------------------------------------------------------
(* Transfers.                                                              *)

Front(d) == Head(pipe[d])     \* the response that is read next
Ready(d) == pipe[d] # <<>> /\ Front(d).kind # "asked"

\* A bulk read ends with the first response, ...
Reads(d) == Ready(d) /\ pipe' = [pipe EXCEPT ![d] = Tail(@)]

\* ... or fails before there was any, or in the midst of it: what is left is its
\* tail, or the packet of length 0 that ends a response of full packets.
ReadFails(d) ==
    \/ UNCHANGED pipe
    \/ /\ Ready(d)
       /\ \E kind \in {"tail", "empty"} :
            /\ Front(d).kind = "empty" => kind = "empty"
            /\ pipe' = [pipe EXCEPT ![d][1].kind = kind]

\* A bulk write succeeds; one that fails may have reached the detector.
Writes(d, n) == pipe' = [pipe EXCEPT ![d] = Append(@, Item(n, "asked"))]

-----------------------------------------------------------------------------
(* The constructor.                                                        *)

Scanning(s) == stage = "scan" /\ step = s /\ probe \in Devices
NextDevice == probe' = probe + 1 /\ step' = "open"
Fail(ds) == hist' = [hist EXCEPT !.failed = @ \cup ds]

Throw(i, unseen) ==
    /\ stage = "scan" /\ step = "open" /\ probe = i
    /\ stage' = "failed"
    /\ Fail(unseen)
    /\ UNCHANGED <<target, probe, step, attempts, scratch, handle, usb_handle, callVars,
                   pipe>>

\* libusb_init or libusb_get_device_list fails; no device is left.
InitFails == Throw(1, Devices)
NoneFound == Throw(Len(SerialOf) + 1, {})

\* A device that has no descriptor, is no PX5 or cannot be opened is passed over;
\* so is, once its claim fails, one that could not be released before.
Open ==
    /\ Scanning("open")
    /\ \/ NextDevice /\ Fail({probe}) /\ UNCHANGED handle
       \/ /\ handle[probe] = "closed"
          /\ handle' = [handle EXCEPT ![probe] = "open"]
          /\ step' = "claim"
          /\ UNCHANGED <<probe, hist>>
    /\ UNCHANGED <<stage, target, attempts, scratch, usb_handle, callVars, pipe>>

\* Claiming the interface succeeds, ...
Claimed ==
    /\ handle' = [handle EXCEPT ![probe] = "claimed"]
    /\ step' = "ask"
    /\ UNCHANGED <<stage, probe, hist>>

\* ... or not: what becomes of the device, and what is next.
Unclaimed(left) == handle' = [handle EXCEPT ![probe] = left] /\ Fail({probe})
PassesOver == NextDevice /\ UNCHANGED stage

Claims(fails) ==
    /\ Scanning("claim")
    /\ Claimed \/ fails
    /\ UNCHANGED <<target, attempts, scratch, usb_handle, callVars, pipe>>

\* Mistakes the checks must notice: the device is not closed; the error is
\* ignored; it ends the search.
ClaimOrLeave == Claims(Unclaimed("open") /\ PassesOver)
ClaimUnchecked == Claims(Unclaimed("open") /\ step' = "ask" /\ UNCHANGED <<stage, probe>>)
ClaimOrThrow == Claims(Unclaimed("closed") /\ stage' = "failed" /\ UNCHANGED <<probe, step>>)

Claim == Claims(Unclaimed("closed") /\ PassesOver)

Keep ==
    /\ usb_handle' = probe
    /\ stage' = "ready"
    /\ hist' = [hist EXCEPT !.upset = @ \/ pipe'[probe] # <<>>]
    /\ UNCHANGED <<probe, step>>

Drop == step' = "close" /\ UNCHANGED <<probe, stage, usb_handle>>

\* hasSerialNb: any device will do, or it is asked for its status.
Ask ==
    /\ Scanning("ask")
    /\ IF target < 0
       THEN UNCHANGED pipe /\ Keep
       ELSE \/ /\ Writes(probe, 0)
               /\ step' = "read"
               /\ UNCHANGED <<probe, stage, usb_handle, hist>>
            \/ Drop /\ Fail({probe}) /\ (UNCHANGED pipe \/ Writes(probe, 0))
    /\ UNCHANGED <<target, attempts, scratch, handle, callVars>>

\* What may spell a serial number where only some of the bytes were written: what
\* was there, the number asked for, or another one, for which 0 stands.
Garbled == {scratch, 0, target}

\* The bytes at the serial number's place are compared, whatever response they
\* belong to: a short one leaves there what was there, a tail may be anything.
Compare ==
    /\ Reads(probe)
    /\ CASE Front(probe).kind = "status" -> scratch' = SerialOf[probe]
         [] Front(probe).kind = "tail" -> scratch' \in Garbled
         [] Front(probe).kind \in {"short", "empty"} -> UNCHANGED scratch
         [] OTHER -> FALSE
    /\ IF scratch' = target THEN Keep
       ELSE Drop /\ Fail(IF Front(probe).kind = "status" THEN {} ELSE {probe})

\* A response longer than the 100 bytes asked for is an error.
Overflow ==
    /\ Ready(probe)
    /\ Front(probe).kind = "long"
    /\ pipe' = [pipe EXCEPT ![probe][1].kind = "tail"]

\* A read that fails may have written some of its bytes before.
CheckSerial ==
    /\ Scanning("read")
    /\ \/ Compare
       \/ /\ ReadFails(probe) \/ Overflow
          /\ scratch' \in IF Ready(probe) THEN Garbled ELSE {scratch}
          /\ Drop /\ Fail({probe})
    /\ UNCHANGED <<target, attempts, handle, callVars>>

\* CloseUsbDevice: an interface that cannot be released stays claimed and open.
Close ==
    /\ Scanning("close")
    /\ \/ handle' = [handle EXCEPT ![probe] = "closed"] /\ UNCHANGED hist
       \/ UNCHANGED handle /\ hist' = [hist EXCEPT !.stuck = @ \cup {probe}]
    /\ NextDevice
    /\ UNCHANGED <<stage, target, attempts, scratch, usb_handle, callVars, pipe>>

\* The caller tries again, with a new handler.
Retry ==
    /\ stage = "failed"
    /\ attempts < MaxAttempts
    /\ attempts' = attempts + 1
    /\ stage' = "scan" /\ target' \in Targets
    /\ probe' = 1 /\ step' = "open"
    /\ scratch' \in {0, target'}
    /\ hist' = [hist EXCEPT !.failed = {}]
    /\ UNCHANGED <<handle, usb_handle, callVars, pipe>>

-----------------------------------------------------------------------------
(* The calls.  A request of more than 520 bytes is refused before the lock  *)
(* and changes nothing.                                                     *)

Busy == {t \in Threads : pc[t] # "idle"}

\* sendAndReceive is called.
Enter(t) ==
    /\ stage = "ready"
    /\ pc[t] = "idle"
    /\ turns + Cardinality({u \in Busy : pc[u] = "waiting"}) < MaxTurns
    /\ pc' = [pc EXCEPT ![t] = "waiting"]
    /\ answer' = [answer EXCEPT ![t] = NoAnswer]
    /\ UNCHANGED <<scanVars, comm_mutex, turns, turn, last, pipe, hist>>

Locks(t) ==
    /\ pc[t] = "waiting"
    /\ comm_mutex' = TRUE
    /\ pc' = [pc EXCEPT ![t] = "out"]
    /\ turns' = turns + 1
    /\ turn' = [turn EXCEPT ![t] = turns + 1]
    /\ UNCHANGED <<scanVars, last, answer, pipe, hist>>

\* A mistake: the lock_guard is left out.
LockNot(t) == Locks(t)

Lock(t) == ~comm_mutex /\ Locks(t)

\* The lock_guard unlocks as the call returns r or throws (NoAnswer).
Leave(t, r) ==
    /\ comm_mutex' = FALSE
    /\ pc' = [pc EXCEPT ![t] = "idle"]
    /\ answer' = [answer EXCEPT ![t] = r]
    /\ UNCHANGED <<scanVars, turns, turn>>

\* The request is written, ...
Send(t) ==
    /\ pc[t] = "out"
    /\ Writes(usb_handle, turn[t])
    /\ pc' = [pc EXCEPT ![t] = "in"]
    /\ UNCHANGED <<scanVars, comm_mutex, turns, turn, last, answer, hist>>

\* ... or not.
SendFails(t) ==
    /\ pc[t] = "out"
    /\ \/ UNCHANGED <<pipe, hist>>
       \/ Writes(usb_handle, turn[t]) /\ hist' = [hist EXCEPT !.upset = TRUE]
    /\ Leave(t, NoAnswer)
    /\ UNCHANGED last

\* What is read is a response to a request of this handler.  Behind a read that
\* failed input_buffer still holds all of it, and fromByteArray, which does not
\* look at bytes_transferred, finds it there when nothing more comes.
Receive(t) ==
    /\ pc[t] = "in"
    /\ Reads(usb_handle)
    /\ Front(usb_handle).turn > 0
    /\ Front(usb_handle).kind # "tail"
    /\ Leave(t, Front(usb_handle).turn)
    /\ last' = Front(usb_handle).turn
    /\ UNCHANGED hist

\* It is a response to somebody else, or a tail, which is taken for a packet
\* together with the bytes behind it.  The LEN in it may be anything up to twice
\* the size of input_buffer.
ReceiveStray(t) ==
    /\ pc[t] = "in"
    /\ Reads(usb_handle)
    /\ Front(usb_handle).turn = 0 \/ Front(usb_handle).kind = "tail"
    /\ \/ Leave(t, NoAnswer) \/ Leave(t, Junk)
    /\ \E overrun \in BOOLEAN :
        hist' = [hist EXCEPT !.upset = TRUE, !.crashed = overrun]
    /\ UNCHANGED last

\* Mistakes: after an error the bytes in input_buffer are parsed; the read is
\* tried again.
ReceiveAnyway(t) ==
    /\ pc[t] = "in"
    /\ ReadFails(usb_handle)
    /\ Leave(t, last)
    /\ UNCHANGED <<last, hist>>

ReceiveRetries(t) ==
    /\ pc[t] = "in"
    /\ ReadFails(usb_handle)
    /\ UNCHANGED <<scanVars, callVars, hist>>

\* The read fails or times out: throw.
ReceiveFails(t) ==
    /\ pc[t] = "in"
    /\ ReadFails(usb_handle)
    /\ Leave(t, NoAnswer)
    /\ hist' = [hist EXCEPT !.upset = TRUE]
    /\ UNCHANGED last

\* The destructor, once no call is in progress.
Destroy ==
    /\ stage = "ready"
    /\ Busy = {}
    /\ stage' = "closed"
    /\ \/ handle' = [handle EXCEPT ![usb_handle] = "closed"] /\ UNCHANGED hist
       \/ UNCHANGED handle /\ hist' = [hist EXCEPT !.stuck = @ \cup {usb_handle}]
    /\ UNCHANGED <<target, probe, step, attempts, scratch, usb_handle, callVars, pipe>>

-----------------------------------------------------------------------------
(* The detectors.                                                          *)

\* A detector serves its requests in their order, or passes one over.
DeviceServes(d) ==
    \E k \in DOMAIN pipe[d] :
        /\ pipe[d][k].kind = "asked"
        /\ \A j \in 1..k - 1 : pipe[d][j].kind # "asked"
        /\ \/ pipe' = [pipe EXCEPT ![d][k].kind =
                            IF pipe[d][k].turn = 0 THEN "status" ELSE "short"]
           \/ pipe' = [pipe EXCEPT ![d] = SubSeq(@, 1, k - 1) \o SubSeq(@, k + 1, Len(@))]
        /\ UNCHANGED <<scanVars, callVars, hist>>

-----------------------------------------------------------------------------

Construct == Open \/ Claim \/ Ask \/ CheckSerial \/ Close \/ NoneFound

Proceed(t) ==
    \/ Send(t) \/ SendFails(t)
    \/ Receive(t) \/ ReceiveStray(t) \/ ReceiveFails(t)

Done ==
    /\ \/ hist.crashed \/ stage = "closed"
       \/ stage = "failed" /\ attempts = MaxAttempts
    /\ UNCHANGED vars

Next ==
    \/ /\ ~hist.crashed
       /\ \/ Construct \/ InitFails \/ Retry \/ Destroy
          \/ \E t \in Threads : Enter(t) \/ Lock(t) \/ Proceed(t)
          \/ \E d \in Devices : DeviceServes(d)
    \/ Done

\* The operating system runs the threads, and libusb ends every transfer within
\* its timeout of 1000 ms.
Fairness ==
    /\ WF_vars(~hist.crashed /\ Construct)
    /\ \A t \in Threads : WF_vars(~hist.crashed /\ Proceed(t))
    /\ WF_vars(~hist.crashed /\ \E t \in Threads : Lock(t))

Spec == Init /\ [][Next]_vars
FairSpec == Spec /\ Fairness

-----------------------------------------------------------------------------
(* Properties.                                                             *)

Kinds == Answers \cup {"asked", "tail", "empty"}

\* Every variable holds a value of its type, and there is a device to talk to
\* whenever a call is made.
TypeOK ==
    /\ stage \in {"scan", "ready", "failed", "closed"}
    /\ step \in {"open", "claim", "ask", "read", "close"}
    /\ probe \in Nat /\ attempts \in Nat
    /\ target \in Targets /\ scratch \in Int
    /\ handle \in [Devices -> {"closed", "open", "claimed"}]
    /\ usb_handle \in Devices \cup {0}
    /\ stage = "ready" => usb_handle \in Devices /\ handle[usb_handle] = "claimed"
    /\ pipe \in [Devices -> Seq([turn : Nat, kind : Kinds])]
    /\ comm_mutex \in BOOLEAN
    /\ pc \in [Threads -> {"idle", "waiting", "out", "in"}]
    /\ \A t \in Threads : pc[t] # "idle" => stage = "ready"
    /\ turns \in Nat /\ turn \in [Threads -> Nat]
    /\ last \in Nat /\ answer \in [Threads -> Nat \cup {Junk}]
    /\ hist \in [upset : BOOLEAN, stuck : SUBSET Devices, failed : SUBSET Devices, crashed : BOOLEAN]

\* connectUSB: "the serial number of the detector to connect with".  The device
\* that is kept has the serial number asked for.
RightDevice == stage = "ready" /\ target >= 0 => SerialOf[usb_handle] = target

\* No detector that fits is passed over, neither for one behind it nor because
\* another one failed, in whatever step: the constructor goes on with the next one
\* until one fits, and misses only those it did not get a serial number of.
Fits(d) == target < 0 \/ SerialOf[d] = target

NoFitPassedOver ==
    \A d \in Devices :
        /\ Fits(d)
        /\ stage \in {"ready", "closed"} => d < usb_handle
        /\ stage = "scan" => d < probe
        => d \in hist.failed

\* The constructor leaves no device open but the one it kept, and the destructor
\* none, except where releasing it failed: other programs can have them.
OthersClosed ==
    stage # "scan" =>
        \A d \in Devices : handle[d] = "closed" \/ d \in hist.stuck
                            \/ (stage = "ready" /\ d = usb_handle)

\* As long as the connection began with an empty endpoint and no response was
\* left behind, every caller gets the response to its own request.
InStepUntilUpset ==
    ~hist.upset => \A t \in Threads : answer[t] \in {NoAnswer, turn[t]}

\* The handler implements ConnectionHandler.
PhaseOf(t) == IF pc[t] \in {"out", "in"} THEN "holding" ELSE pc[t]

Handler == INSTANCE ConnectionHandler WITH
    phase <- [t \in Threads |-> PhaseOf(t)]
HandlerSpec == Handler!Spec

\* Every call ends, whether the detector answers or not.
CallReturns == \A t \in Threads : pc[t] \in {"out", "in"} ~> pc[t] = "idle" \/ hist.crashed
=============================================================================
