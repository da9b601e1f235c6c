------------------- MODULE AmptekHardwareInterface_proofs -------------------
(* Proofs about AmptekHardwareInterface, for any connection that keeps what  *)
(* ConnectionHandler promises, any operations and ages, and any duration of  *)
(* an exchange.                                                              *)
EXTENDS AmptekHardwareInterface, TLAPS, SequenceTheorems

Holding == phase[caller] = "holding"

-----------------------------------------------------------------------------
(* The parts of the inductive invariant.                                   *)

\* Only the caller uses the connection, for the call in progress, whose request
\* is the last one; what was handed over belongs to a turn that was answered.
InProgress ==
    /\ \A t \in Threads : t # caller => phase[t] = "idle"
    /\ call = NoCall <=> phase[caller] = "idle"
    /\ call # NoCall => call.op \in AllOps /\ outcome = NoOutcome
    /\ last <= turns /\ (last > 0 => served[last] # NoReply)
    /\ Holding => last < turns /\ request[turns] = call.op

\* A reply is to its request, and was not given before the program started.
Replies ==
    /\ Epoch <= device.slot /\ device.slot <= now
    /\ \A r \in 1..turns :
        /\ Epoch <= served[r].taken /\ served[r].taken <= now
        /\ served[r].kind = "none" => served[r] = NoReply
        /\ served[r].kind = "ack" => served[r] = Ack
        /\ served[r].kind = "status" => request[r] = "status"

\* A status is never from before a reply to an earlier request, nor, if it may
\* still be handed over, from before a spectrum that is cached with its status.
Order ==
    /\ Epoch <= last_spectrum.taken /\ last_spectrum.taken <= now
    /\ \A q, r \in 1..turns :
            q < r /\ served[r].kind = "status" => served[q].taken <= served[r].taken
    /\ \A r \in 1..turns :
            paired /\ last < r /\ served[r].kind = "status" =>
                last_spectrum.taken <= served[r].taken

\* What a read stores.
Fills(op, kind) ==
    \/ op = "status" /\ kind = "status"
    \/ op = "spectrum" /\ kind \in {"spectrum", "bare"}

\* An exchange begins after its call and ends by its deadline; data that a read
\* gets as its own answer was taken between the two.
InTime ==
    /\ call # NoCall => call.since <= now
    /\ Holding =>
        /\ call.since <= deadline - RecvTimeout
        /\ deadline - RecvTimeout <= now /\ now <= deadline
        /\ Fills(call.op, served[turns].kind) =>
                deadline - RecvTimeout <= served[turns].taken
    /\ last_status.own => last_status.at - last_status.taken <= RecvTimeout
    /\ last_spectrum.own => last_spectrum.at - last_spectrum.taken <= RecvTimeout

\* A switch is carried out as acknowledged, unless it crossed another.
Switching ==
    ~device.crossed =>
        IF device.todo = {} THEN device.enabled = (device.switched /\ ~device.ended)
        ELSE device.todo = {IF device.switched THEN "enable" ELSE "disable"}

\* The call in progress is a switch that the detector has acknowledged.
Acknowledged == Holding /\ served[turns] = Ack /\ call.op \in Switches

\* Unless a switch went wrong, the detector will answer none but that of the call
\* in progress, and is switched as commanded, that one included if acknowledged.
InStep ==
    /\ Acknowledged => device.switched = (call.op = "enable")
    /\ ~adrift =>
        /\ \A q \in 1..turns :
            request[q] \in Switches /\ ~(Holding /\ q = turns) =>
                \E p \in q..turns : served[p] # NoReply
        /\ ~Acknowledged => device.switched = wanted

IInv ==
    /\ TypeOK
    /\ InProgress /\ Replies /\ Order /\ InTime /\ Switching /\ InStep
    /\ StatusNotBeforeSpectrum /\ DataFresh

-----------------------------------------------------------------------------
(* Types.                                                                  *)

CallType == [op : AllOps \cup {"none"}, max_age : Int, since : Nat]
OutcomeType == [op : AllOps \cup {"none"},
                result : {"none", "true", "false", "returned", "threw"},
                turn : Nat, refused : BOOLEAN, max_age : Int, since : Nat]

\* The constants of the module have their types.
LEMMA ConstantTypes ==
    /\ Epoch \in Int /\ RecvTimeout \in Nat /\ caller \in Threads
    /\ Ops \subseteq AllOps /\ Ages \subseteq Int
    /\ NoCall \in CallType /\ NoOutcome \in OutcomeType
    /\ NoReply \in ReplyType /\ Ack \in ReplyType /\ Nak \in ReplyType
    /\ NeverRead \in CacheType /\ PoweredUp \in DeviceType
    /\ "none" \notin AllOps /\ Commands \subseteq AllOps
BY CallerAssumption, OpsAssumption, AgesAssumption, EpochAssumption, TimeAssumption
   DEF CallType, OutcomeType, ReplyType, CacheType, NoCall, NoOutcome, NoReply, Ack, Nak,
       NeverRead, PoweredUp, DeviceType, SpectrumKinds, AllOps, Commands, MarkingCommands, OtherCommands, CachedReads

\* The switch of the detector is as before.
SameSwitch(d) ==
    /\ d.enabled = device.enabled /\ d.todo = device.todo /\ d.switched = device.switched
    /\ d.crossed = device.crossed /\ d.ended = device.ended

\* What the detector answers, ...
LEMMA ReplyLemma ==
    ASSUME device \in DeviceType, now \in Nat, NEW op \in AllOps, NEW reply \in RepliesTo(op)
    PROVE  /\ reply \in ReplyType /\ reply.taken \in {now, device.slot, Epoch}
           /\ reply.kind \in {"ack", "nak", "status"} \cup SpectrumKinds
           /\ reply.kind = "ack" => reply = Ack
           /\ reply.kind = "status" => op = "status"
           /\ Fills(op, reply.kind) => reply.taken = now
           /\ op \in Switches => reply = Ack
<1>1. Epoch \in Int /\ now \in Int /\ device.slot \in Int
  BY ConstantTypes DEF DeviceType
<1> USE DEF RepliesTo, ReplyType, Ack, Nak, Fills, Switches, SpectrumKinds
<1>2. CASE op = "status"
  BY <1>1, <1>2
<1>3. CASE op = "spectrum"
  BY <1>1, <1>3
<1>4. CASE op = "getbuffered"
  BY <1>1, <1>4
<1>5. CASE op \notin {"status", "spectrum", "getbuffered"}
  <2>1. reply = Ack
    BY <1>5
  <2> QED
    BY <1>1, <1>5, <2>1
<1> QED
  BY <1>2, <1>3, <1>4, <1>5

\* ... and what becomes of it.
LEMMA DeviceLemma ==
    ASSUME device \in DeviceType, now \in Nat, NEW op \in AllOps, NEW d \in DevicesAfter(op)
    PROVE  /\ d \in DeviceType /\ d.slot \in {now, device.slot}
           /\ op \in Switches => d \in SwitchedBy(op)
           /\ op \notin Switches => SameSwitch(d)
<1> USE DEF DevicesAfter, DeviceType, SameSwitch
<1>1. CASE op \in Switches
  <2>1. d \in SwitchedBy(op)
    BY <1>1 DEF Switches
  <2> DEFINE e == [device EXCEPT !.switched = op = "enable", !.crossed = device.todo # {}]
  <2>2. d \in {Switched(e, op), [e EXCEPT !.todo = @ \cup {op}]}
    BY <2>1 DEF SwitchedBy
  <2>3. e \in DeviceType /\ e.slot = device.slot
    OBVIOUS
  <2> HIDE DEF e
  <2>4. d \in DeviceType /\ d.slot = device.slot
    <3>1. CASE d = Switched(e, op)
      BY <2>3, <3>1 DEF Switched
    <3>2. CASE d = [e EXCEPT !.todo = @ \cup {op}]
      <4>1. e.todo \cup {op} \in SUBSET Switches
        BY <1>1, <2>3
      <4> QED
        BY <2>3, <3>2, <4>1
    <3> QED
      BY <2>2, <3>1, <3>2
  <2> QED
    BY <1>1, <2>1, <2>4
<1>2. CASE op \notin Switches
  <2>1. CASE op \in {"preset", "startbuffering", "stopbuffering"}
    BY <1>2, <2>1
  <2>2. CASE op \in {"buffer", "bufferclear"}
    BY <1>2, <2>2
  <2>3. CASE op \notin {"preset", "startbuffering", "stopbuffering", "buffer", "bufferclear"}
    BY <1>2, <2>3
  <2> QED
    BY <2>1, <2>2, <2>3
<1> QED
  BY <1>1, <1>2

AnyReply == [kind : {"none", "ack", "nak", "status", "junk"} \cup SpectrumKinds, taken : Int]

\* What a call that is handed a packet makes of it: what it returns, ...
LEMMA DecodeReturns ==
    ASSUME TypeOK, call.op \in AllOps, NEW reply \in AnyReply, NEW r \in Nat, Decode(reply, r)
    PROVE  /\ call' = NoCall /\ outcome' \in OutcomeType
           /\ outcome'.op = call.op /\ outcome'.since = call.since
           /\ outcome'.op \in CachedReads /\ outcome'.result = "returned" /\ ~outcome'.refused =>
                Fills(call.op, reply.kind)
<1>1. call \in CallType
  BY DEF TypeOK, CallType
<1>2. CASE CommandReturns(reply.kind = "ack", r)
  <2>1. call.op \in Commands /\ call.op \notin CachedReads
    BY <1>2 DEF CommandReturns, Commands, MarkingCommands, OtherCommands, CachedReads
  <2>2. PICK result \in {"true", "false"} :
            /\ call' = NoCall
            /\ outcome' = [op |-> call.op, result |-> result, turn |-> r, refused |-> FALSE,
                           max_age |-> call.max_age, since |-> call.since]
    BY <1>2 DEF CommandReturns, Return
  <2> QED
    BY <1>1, <2>1, <2>2 DEF OutcomeType, CallType
<1>3. CASE StatusReturns(reply, r)
  <2>1. CASE reply.kind = "status"
    <3>1. call' = NoCall /\ call.op = "status"
          /\ outcome' = [op |-> call.op, result |-> "returned", turn |-> r, refused |-> FALSE,
                         max_age |-> call.max_age, since |-> call.since]
      BY <1>3, <2>1 DEF StatusReturns, Return
    <3> QED
      BY <1>1, <2>1, <3>1 DEF OutcomeType, CallType, Fills
  <2>2. CASE reply.kind # "status"
    <3>1. outcome'.result = "threw" /\ call' = NoCall
          /\ outcome' = [op |-> call.op, result |-> "threw", turn |-> r, refused |-> FALSE,
                         max_age |-> call.max_age, since |-> call.since]
      BY <1>3, <2>2 DEF StatusReturns, Return
    <3> QED
      BY <1>1, <3>1 DEF OutcomeType, CallType
  <2> QED
    BY <2>1, <2>2
<1>4. CASE SpectrumReturns(reply, r)
  <2>1. PICK result \in {"returned", "threw"}, refused \in BOOLEAN :
            /\ call' = NoCall /\ call.op = "spectrum"
            /\ result = IF reply.kind = "unknown" THEN "threw" ELSE "returned"
            /\ refused = (reply.kind \notin SpectrumKinds)
            /\ outcome' = [op |-> call.op, result |-> result, turn |-> r, refused |-> refused,
                           max_age |-> call.max_age, since |-> call.since]
    BY <1>4 DEF SpectrumReturns, SpectrumStores, Return
  <2>2. outcome' \in OutcomeType
    BY <1>1, <2>1 DEF OutcomeType, CallType
  <2> QED
    BY <2>1, <2>2 DEF Fills, SpectrumKinds
<1>5. CASE BufferedReturns(reply, r)
  <2>1. call.op = "getbuffered" /\ call.op \notin CachedReads
    BY <1>5 DEF BufferedReturns, CachedReads
  <2>2. PICK result \in {"returned", "threw"} :
            /\ call' = NoCall
            /\ outcome' = [op |-> call.op, result |-> result, turn |-> r, refused |-> FALSE,
                           max_age |-> call.max_age, since |-> call.since]
    BY <1>5 DEF BufferedReturns, Return
  <2> QED
    BY <1>1, <2>1, <2>2 DEF OutcomeType, CallType
<1> QED
  BY <1>2, <1>3, <1>4, <1>5 DEF Decode

\* A read fills its cache with a reply to turn r, or no cache is touched.
Stores(reply, r) ==
    \/ UNCHANGED cacheVars /\ ~Fills(call.op, reply.kind)
    \/ /\ Fills(call.op, reply.kind) /\ call.op = "status" /\ reply.kind = "status"
       /\ UNCHANGED <<last_spectrum, paired>> /\ last_status' = Read(reply, r)
    \/ /\ Fills(call.op, reply.kind) /\ call.op = "spectrum"
       /\ last_spectrum' = Read(reply, r) /\ paired' = (reply.kind = "spectrum" /\ r # 0)
       /\ last_status' = IF reply.kind = "spectrum" THEN Read(reply, r) ELSE last_status

\* ... what it stores, ...
LEMMA DecodeStores ==
    ASSUME TypeOK, call.op \in AllOps, NEW reply \in AnyReply, NEW r \in Nat, Decode(reply, r)
    PROVE  Stores(reply, r)
<1>1. CASE CommandReturns(reply.kind = "ack", r)
  BY <1>1 DEF CommandReturns, Stores, Fills, Commands, MarkingCommands, OtherCommands
<1>2. CASE StatusReturns(reply, r)
  BY <1>2 DEF StatusReturns, Stores, Fills, cacheVars
<1>3. CASE SpectrumReturns(reply, r)
  BY <1>3 DEF SpectrumReturns, SpectrumStores, Stores, Fills
<1>4. CASE BufferedReturns(reply, r)
  BY <1>4 DEF BufferedReturns, Stores, Fills
<1> QED
  BY <1>1, <1>2, <1>3, <1>4 DEF Decode

\* What a call believes of the acquisition after a reply of a kind to turn r.
Believes(kind, r) ==
    /\ wanted' = IF call.op \in Switches /\ kind = "ack" THEN call.op = "enable" ELSE wanted
    /\ adrift' = IF call.op \in Switches THEN r # turns \/ (adrift /\ kind # "ack") ELSE adrift

\* ... and what it believes: the state that is reported and the acquisition asked for
\* depend on commands alone.
LEMMA DecodeSwitches ==
    ASSUME TypeOK, call.op \in AllOps, NEW reply \in AnyReply, NEW r \in Nat, Decode(reply, r)
    PROVE  current_state' \in {current_state, "ERROR"} /\ Believes(reply.kind, r)
<1>1. CASE CommandReturns(reply.kind = "ack", r)
  BY <1>1 DEF CommandReturns, Believes
<1>2. CASE StatusReturns(reply, r) \/ SpectrumReturns(reply, r) \/ BufferedReturns(reply, r)
  BY <1>2 DEF StatusReturns, SpectrumReturns, SpectrumStores, BufferedReturns, Believes, Switches
<1> QED
  BY <1>1, <1>2 DEF Decode

HandlerTyped ==
    /\ phase \in [Threads -> {"idle", "waiting", "holding"}]
    /\ turns \in Nat /\ last \in Nat /\ answer \in [Threads -> Int]

CallerTyped ==
    /\ connected \in BOOLEAN /\ adrift \in BOOLEAN /\ wanted \in BOOLEAN
    /\ paired \in BOOLEAN
    /\ current_state \in {"NOT_CONNECTED", "ON", "ERROR"}
    /\ last_status \in CacheType /\ last_spectrum \in CacheType
    /\ call \in CallType /\ outcome \in OutcomeType

WireTyped ==
    /\ request \in Seq(AllOps) /\ Len(request) = turns
    /\ served \in Seq(ReplyType) /\ Len(served) = turns
    /\ device \in DeviceType /\ now \in Nat /\ deadline \in Nat

LEMMA TypeParts == TypeOK <=> HandlerTyped /\ CallerTyped /\ WireTyped
BY DEF TypeOK, HandlerTyped, CallerTyped, WireTyped, CallType, OutcomeType, DeviceType

LEMMA TypePartsNext == TypeOK' <=> HandlerTyped' /\ CallerTyped' /\ WireTyped'
BY DEF TypeOK, HandlerTyped, CallerTyped, WireTyped, CallType, OutcomeType, DeviceType

\* What is on the wire has its type.
LEMMA WireLemma ==
    ASSUME TypeOK, NEW r \in 1..turns
    PROVE  request[r] \in AllOps /\ served[r] \in ReplyType
BY TypeParts DEF WireTyped

-----------------------------------------------------------------------------
(* The steps that end a call, in one.                                      *)

\* The call in progress ends with a reply to turn r, or without one (r = 0).
Ends(reply, r) ==
    /\ Holding
    /\ phase' = [phase EXCEPT ![caller] = "idle"]
    /\ turns' = turns /\ last' \in {last, r} /\ answer' \in [Threads -> Int]
    /\ UNCHANGED <<connected, wireVars, now>> /\ deadline' = 0
    /\ call' = NoCall /\ outcome' \in OutcomeType
    /\ outcome'.op = call.op /\ outcome'.since = call.since
    /\ outcome'.op \in CachedReads /\ outcome'.result = "returned" /\ ~outcome'.refused =>
            Fills(call.op, reply.kind)
    /\ Stores(reply, r) /\ Believes(reply.kind, r)
    /\ current_state' \in {current_state, "ERROR"}

\* Whatever becomes of a call, its deadline is over.
LEMMA DecodeOver ==
    ASSUME NEW reply, NEW r, Decode(reply, r)
    PROVE  deadline' = 0
BY DEF Decode, CommandReturns, StatusReturns, SpectrumReturns, SpectrumStores, BufferedReturns,
       Return

LEMMA ReceiveEnds ==
    ASSUME TypeOK, InProgress, NEW r \in 1..turns, Receive(r)
    PROVE  /\ Ends(served[r], r) /\ served[r] # NoReply
           /\ last < r /\ last' = r
<1>1. HandlerTyped /\ caller \in Threads /\ Handler!Deliver(caller, r)
  BY TypeParts, ConstantTypes DEF Receive
<1>2. Holding /\ call.op \in AllOps
  BY <1>1 DEF Handler!Deliver, Holding, InProgress
<1>3. served[r] \in AnyReply /\ r \in Nat
  BY <1>1, WireLemma DEF ReplyType, AnyReply, HandlerTyped
<1>4. Decode(served[r], r) /\ UNCHANGED <<connected, wireVars, now>>
  BY DEF Receive
<1>5. /\ phase' = [phase EXCEPT ![caller] = "idle"] /\ turns' = turns
      /\ last' = r /\ last < r /\ answer' \in [Threads -> Int]
  BY <1>1 DEF Handler!Deliver, HandlerTyped
<1>6. last' \in {last, r}
  BY <1>5
<1>7. served[r] # NoReply
  BY DEF Receive
<1>8. Ends(served[r], r)
  BY <1>2, <1>3, <1>4, <1>5, <1>6, DecodeReturns, DecodeStores,
     DecodeSwitches, DecodeOver DEF Ends
<1> QED
  BY <1>5, <1>7, <1>8

LEMMA JunkEnds ==
    ASSUME TypeOK, InProgress, ReceiveJunk
    PROVE  /\ \E reply \in JunkReplies : Ends(reply, 0)
           /\ last' = last
<1>1. HandlerTyped /\ caller \in Threads /\ Handler!DeliverJunk(caller)
  BY TypeParts, ConstantTypes DEF ReceiveJunk
<1>2. Holding /\ call.op \in AllOps
  BY <1>1 DEF Handler!DeliverJunk, Holding, InProgress
<1>3. PICK reply \in JunkReplies : Decode(reply, 0)
  BY DEF ReceiveJunk
<1>4. reply \in AnyReply /\ 0 \in Nat
  BY <1>3, ConstantTypes, TypeParts DEF JunkReplies, AnyReply, SpectrumKinds, WireTyped
<1>5. /\ phase' = [phase EXCEPT ![caller] = "idle"] /\ turns' = turns
      /\ last' = last /\ answer' \in [Threads -> Int]
  BY <1>1 DEF Handler!DeliverJunk, Handler!Junk, HandlerTyped
<1>6. last' \in {last, 0} /\ UNCHANGED <<connected, wireVars, now>>
  BY <1>5 DEF ReceiveJunk
<1>7. Ends(reply, 0)
  BY <1>2, <1>3, <1>4, <1>5, <1>6, DecodeReturns, DecodeStores,
     DecodeSwitches, DecodeOver DEF Ends
<1> QED
  BY <1>5, <1>6, <1>7

LEMMA ThrowEnds ==
    ASSUME TypeOK, InProgress, Throw
    PROVE  Ends(NoReply, 0) /\ last' = last
<1>1. HandlerTyped /\ CallerTyped /\ caller \in Threads /\ Handler!End(caller)
  BY TypeParts, ConstantTypes DEF Throw
<1>2. Holding /\ call.op \in AllOps
  BY <1>1 DEF Handler!End, Holding, InProgress
<1>3. /\ phase' = [phase EXCEPT ![caller] = "idle"] /\ turns' = turns
      /\ last' = last /\ answer' \in [Threads -> Int]
  BY <1>1 DEF Handler!End, HandlerTyped
<1>4. last' \in {last, 0} /\ UNCHANGED <<connected, wireVars, now>>
  BY <1>3 DEF Throw
<1>5. /\ UNCHANGED cacheVars /\ current_state' \in {current_state, "ERROR"} /\ deadline' = 0
      /\ Believes("none", 0)
      /\ \E result \in {"false", "threw"} :
            /\ call' = NoCall
            /\ outcome' = [op |-> call.op, result |-> result, turn |-> 0, refused |-> FALSE,
                           max_age |-> call.max_age, since |-> call.since]
  <2>1. CASE CommandReturns(FALSE, 0)
    BY <2>1 DEF CommandReturns, Return, Believes
  <2>2. CASE call.op \notin Commands
    <3>1. call.op \notin Switches
      BY <2>2 DEF Commands, MarkingCommands, Switches
    <3> QED
      BY <2>2, <3>1 DEF Throw, CommandReturns, Return, Believes
  <2> QED
    BY <2>1, <2>2 DEF Throw
<1>6. /\ outcome' \in OutcomeType /\ outcome'.op = call.op /\ outcome'.since = call.since
      /\ outcome'.result # "returned"
  BY <1>1, <1>5 DEF OutcomeType, CallType, CallerTyped
<1>7. Stores(NoReply, 0) /\ Believes(NoReply.kind, 0)
  BY <1>5 DEF Stores, Fills, NoReply
<1>8. Ends(NoReply, 0)
  BY <1>2, <1>3, <1>4, <1>5, <1>6, <1>7 DEF Ends
<1> QED
  BY <1>3, <1>4, <1>8

\* Every ending is one of the three.
LEMMA AllEnds ==
    ASSUME TypeOK, InProgress, (\E r \in 1..turns : Receive(r)) \/ ReceiveJunk \/ Throw
    PROVE  \/ \E r \in 1..turns :
                /\ Ends(served[r], r) /\ served[r] # NoReply
                /\ last < r /\ last' = r
           \/ \E reply \in JunkReplies \cup {NoReply} :
                Ends(reply, 0) /\ last' = last
<1>1. CASE \E r \in 1..turns : Receive(r)
  BY <1>1, ReceiveEnds
<1>2. CASE ReceiveJunk
  BY <1>2, JunkEnds
<1>3. CASE Throw
  BY <1>3, ThrowEnds
<1> QED
  BY <1>1, <1>2, <1>3

\* The steps by name: a call starts, its request goes out, it ends, the detector
\* serves a request, or something else happens.
LEMMA NextCases ==
    ASSUME TypeOK, InProgress, [Next]_vars
    PROVE  \/ Connect \/ DeviceMoves \/ Tick \/ UNCHANGED vars
           \/ \E op \in CachedReads, max_age \in Int : ServeFromCache(op, max_age)
           \/ \E op \in AllOps, max_age \in Int : Begin(op, max_age)
           \/ Send
           \/ \E r \in 1..turns : DeviceServes(r)
           \/ \E r \in 1..turns : DeviceRefuses(r)
           \/ (\E r \in 1..turns : Receive(r)) \/ ReceiveJunk \/ Throw
<1>1. ASSUME NEW op \in Ops, NEW max_age \in Ages, ServeFromCache(op, max_age)
      PROVE  \E o \in CachedReads, m \in Int : ServeFromCache(o, m)
  BY <1>1, ConstantTypes DEF ServeFromCache
<1>2. ASSUME NEW op \in Ops \cap CachedReads, NEW max_age \in Ages, Begin(op, max_age)
      PROVE  \E o \in AllOps, m \in Int : Begin(o, m)
  BY <1>2, ConstantTypes
<1>3. ASSUME NEW op \in Ops \ CachedReads, Begin(op, 0)
      PROVE  \E o \in AllOps, m \in Int : Begin(o, m)
  BY <1>3, ConstantTypes
<1>4. CASE Done
  BY <1>4 DEF Done
<1> QED
  BY <1>1, <1>2, <1>3, <1>4 DEF Next

-----------------------------------------------------------------------------
(* Every step keeps the types.                                             *)

LEMMA EndsTyped ==
    ASSUME TypeOK, NEW reply \in AnyReply, NEW r \in Nat, Ends(reply, r)
    PROVE  TypeOK'
<1>1. HandlerTyped /\ CallerTyped /\ WireTyped
  BY TypeParts
<1>2. HandlerTyped'
  BY <1>1 DEF HandlerTyped, Ends
<1>3. WireTyped'
  BY <1>1 DEF WireTyped, Ends, wireVars
<1>4. Read(reply, r) \in CacheType
  BY <1>1 DEF CacheType, WireTyped, AnyReply, Read
<1>5. last_status' \in CacheType /\ last_spectrum' \in CacheType /\ paired' \in BOOLEAN
  BY <1>1, <1>4 DEF CallerTyped, Ends, Stores, cacheVars
<1>6. /\ connected' \in BOOLEAN /\ wanted' \in BOOLEAN /\ adrift' \in BOOLEAN
      /\ current_state' \in {"NOT_CONNECTED", "ON", "ERROR"}
      /\ call' \in CallType /\ outcome' \in OutcomeType
  BY <1>1, ConstantTypes DEF CallerTyped, Ends, Believes
<1> QED
  BY <1>2, <1>3, <1>5, <1>6, TypePartsNext DEF CallerTyped

LEMMA ServedTyped ==
    ASSUME TypeOK, NEW r \in 1..turns, NEW reply \in ReplyType,
           served' = [served EXCEPT ![r] = reply]
    PROVE  /\ served' \in Seq(ReplyType) /\ Len(served') = Len(served)
           /\ \A q \in 1..turns : served'[q] = IF q = r THEN reply ELSE served[q]
<1>1. served \in Seq(ReplyType) /\ Len(served) = turns /\ turns \in Nat
  BY TypeParts DEF WireTyped, HandlerTyped
<1> QED
  BY <1>1, ExceptSeq

LEMMA SendLemma ==
    ASSUME TypeOK, InProgress, Send
    PROVE  /\ HandlerTyped /\ HandlerTyped' /\ call # NoCall /\ call.op \in AllOps
           /\ turns' = turns + 1 /\ last' = last /\ phase[caller] = "waiting"
           /\ phase' = [phase EXCEPT ![caller] = "holding"]
           /\ request' \in Seq(AllOps) /\ Len(request') = turns + 1
           /\ served' \in Seq(ReplyType) /\ Len(served') = turns + 1
           /\ \A q \in 1..turns + 1 :
                /\ request'[q] = IF q = turns + 1 THEN call.op ELSE request[q]
                /\ served'[q] = IF q = turns + 1 THEN NoReply ELSE served[q]
           /\ deadline' = now + RecvTimeout /\ deadline' \in Nat
           /\ UNCHANGED <<connected, current_state, cacheVars, call, outcome, device, now,
                          adrift, wanted>>
<1>1. HandlerTyped /\ WireTyped /\ caller \in Threads /\ Handler!Acquire(caller)
  BY TypeParts, ConstantTypes DEF Send
<1>2. /\ phase[caller] = "waiting" /\ turns' = turns + 1 /\ last' = last
      /\ phase' = [phase EXCEPT ![caller] = "holding"] /\ HandlerTyped'
  BY <1>1 DEF Handler!Acquire, HandlerTyped
<1>3. call # NoCall /\ call.op \in AllOps
  BY <1>1, <1>2 DEF InProgress
<1>4. /\ request' \in Seq(AllOps) /\ Len(request') = turns + 1
      /\ \A q \in 1..turns + 1 : request'[q] = IF q = turns + 1 THEN call.op ELSE request[q]
  BY <1>1, <1>3, AppendProperties DEF Send, WireTyped
<1>5. /\ served' \in Seq(ReplyType) /\ Len(served') = turns + 1
      /\ \A q \in 1..turns + 1 : served'[q] = IF q = turns + 1 THEN NoReply ELSE served[q]
  BY <1>1, ConstantTypes, AppendProperties DEF Send, WireTyped
<1> QED
  BY <1>1, <1>2, <1>3, <1>4, <1>5, ConstantTypes DEF Send, WireTyped

LEMMA BeginLemma ==
    ASSUME TypeOK, InProgress, NEW op \in AllOps, NEW max_age \in Int, Begin(op, max_age)
    PROVE  /\ HandlerTyped' /\ call = NoCall
           /\ call' = [op |-> op, max_age |-> max_age, since |-> now] /\ call' # NoCall
           /\ phase[caller] = "idle" /\ phase' = [phase EXCEPT ![caller] = "waiting"]
           /\ outcome' = NoOutcome
           /\ UNCHANGED <<turns, last, connected, current_state, cacheVars, wireVars, now,
                          deadline, adrift, wanted>>
<1>1. HandlerTyped /\ caller \in Threads /\ Handler!Enter(caller)
  BY TypeParts, ConstantTypes DEF Begin
<1>2. op # "none"
  BY ConstantTypes
<1>3. [op |-> op, max_age |-> max_age, since |-> now] # NoCall
  BY <1>2 DEF NoCall
<1>4. phase' \in [Threads -> {"idle", "waiting", "holding"}] /\ answer' \in [Threads -> Int]
  BY <1>1 DEF Handler!Enter, Handler!NoAnswer, HandlerTyped
<1> QED
  BY <1>1, <1>3, <1>4 DEF Begin, Handler!Enter, HandlerTyped

\* What the detector does by itself keeps its type, its slot, and what it has
\* acknowledged; a switch is carried out as it was.
LEMMA MovesLemma ==
    ASSUME device \in DeviceType, DeviceMoves
    PROVE  /\ device' \in DeviceType /\ device'.slot = device.slot
           /\ device'.switched = device.switched
           /\ Switching => Switching'
<1>1. ASSUME NEW op \in device.todo,
             device' = Switched([device EXCEPT !.todo = @ \ {op}], op)
      PROVE  /\ device' \in DeviceType /\ device'.slot = device.slot
             /\ device'.switched = device.switched
             /\ Switching => Switching'
  <2>1. /\ device'.todo = device.todo \ {op} /\ device'.enabled = (op = "enable")
        /\ device'.ended = FALSE /\ device'.switched = device.switched
        /\ device'.crossed = device.crossed /\ device'.slot = device.slot
        /\ device' \in DeviceType
    BY <1>1 DEF Switched, DeviceType
  <2>2. CASE Switching /\ ~device.crossed
    <3>1. op = IF device.switched THEN "enable" ELSE "disable"
      BY <1>1, <2>2 DEF Switching
    <3>2. device.todo = {op}
      BY <1>1, <2>2, <3>1 DEF Switching
    <3>3. device'.todo = {} /\ device'.enabled = device.switched
      BY <2>1, <3>1, <3>2 DEF DeviceType
    <3> QED
      BY <2>1, <3>3 DEF Switching, DeviceType
  <2> QED
    BY <2>1, <2>2 DEF Switching
<1>2. ASSUME device.buffering, device' = [device EXCEPT !.buffering = FALSE]
      PROVE  /\ device' \in DeviceType /\ device'.slot = device.slot
             /\ device'.switched = device.switched
             /\ Switching => Switching'
  BY <1>2 DEF DeviceType, Switching
<1>3. ASSUME device.enabled, device' = [device EXCEPT !.enabled = FALSE, !.ended = TRUE]
      PROVE  /\ device' \in DeviceType /\ device'.slot = device.slot
             /\ device'.switched = device.switched
             /\ Switching => Switching'
  BY <1>3 DEF DeviceType, Switching
<1> QED
  BY <1>1, <1>2, <1>3 DEF DeviceMoves

LEMMA StepTypes == ASSUME TypeOK, InProgress, [Next]_vars PROVE TypeOK'
<1>0. HandlerTyped /\ CallerTyped /\ WireTyped
  BY TypeParts
<1>1. CASE Connect
  BY <1>0, <1>1, TypePartsNext
     DEF Connect, HandlerTyped, CallerTyped, WireTyped, handlerVars, cacheVars, wireVars
<1>2. CASE UNCHANGED vars
  BY <1>0, <1>2, TypePartsNext
     DEF vars, HandlerTyped, CallerTyped, WireTyped, handlerVars, cacheVars, wireVars
<1>3. CASE DeviceMoves
  <2>1. device' \in DeviceType
    BY <1>0, <1>3, MovesLemma DEF WireTyped
  <2> QED
    BY <1>0, <1>3, <2>1, TypePartsNext
       DEF DeviceMoves, HandlerTyped, CallerTyped, WireTyped, handlerVars, cacheVars
<1>4. CASE Tick
  BY <1>0, <1>4, TypePartsNext
     DEF Tick, HandlerTyped, CallerTyped, WireTyped, handlerVars, cacheVars, wireVars
<1>5. ASSUME NEW op \in CachedReads, NEW max_age \in Int, ServeFromCache(op, max_age)
      PROVE  TypeOK'
  <2>1. outcome' \in OutcomeType
    BY <1>0, <1>5 DEF ServeFromCache, OutcomeType, WireTyped, AllOps
  <2> QED
    BY <1>0, <1>5, <2>1, TypePartsNext
       DEF ServeFromCache, HandlerTyped, CallerTyped, WireTyped, handlerVars, cacheVars, wireVars
<1>6. ASSUME NEW op \in AllOps, NEW max_age \in Int, Begin(op, max_age)
      PROVE  TypeOK'
  <2>1. call' \in CallType
    BY <1>0, <1>6, BeginLemma DEF CallType, WireTyped
  <2> QED
    BY <1>0, <1>6, <2>1, BeginLemma, TypePartsNext, ConstantTypes
       DEF CallerTyped, WireTyped, cacheVars, wireVars
<1>7. CASE Send
  BY <1>0, <1>7, SendLemma, TypePartsNext DEF CallerTyped, WireTyped, cacheVars
<1>8. ASSUME NEW r \in 1..turns, DeviceServes(r) PROVE TypeOK'
  <2>1. request[r] \in AllOps
    BY WireLemma
  <2>2. RepliesTo(request[r]) \subseteq ReplyType /\ device' \in DeviceType
    BY <1>0, <1>8, <2>1, ReplyLemma, DeviceLemma DEF WireTyped, DeviceServes
  <2>3. served' \in Seq(ReplyType) /\ Len(served') = Len(served)
    BY <1>8, <2>2, ServedTyped DEF DeviceServes
  <2> QED
    BY <1>0, <1>8, <2>2, <2>3, TypePartsNext
       DEF DeviceServes, HandlerTyped, CallerTyped, WireTyped, handlerVars, cacheVars
<1>9. ASSUME NEW r \in 1..turns, DeviceRefuses(r) PROVE TypeOK'
  <2>1. served' \in Seq(ReplyType) /\ Len(served') = Len(served)
    BY <1>9, ServedTyped, ConstantTypes DEF DeviceRefuses
  <2> QED
    BY <1>0, <1>9, <2>1, TypePartsNext
       DEF DeviceRefuses, HandlerTyped, CallerTyped, WireTyped, handlerVars, cacheVars
<1>10. CASE (\E r \in 1..turns : Receive(r)) \/ ReceiveJunk \/ Throw
  <2>1. ASSUME NEW r \in 1..turns, Ends(served[r], r)
        PROVE  TypeOK'
    <3>1. served[r] \in AnyReply /\ r \in Nat
      BY <1>0, <2>1, WireLemma DEF ReplyType, AnyReply, HandlerTyped
    <3> QED
      BY <2>1, <3>1, EndsTyped
  <2>2. ASSUME NEW reply \in JunkReplies \cup {NoReply}, Ends(reply, 0)
        PROVE  TypeOK'
    <3>1. reply \in AnyReply
      BY <1>0, ConstantTypes DEF WireTyped, JunkReplies, NoReply, AnyReply
    <3> QED
      BY <2>2, <3>1, EndsTyped
  <2> QED
    BY <1>10, <2>1, <2>2, AllEnds
<1> QED
  BY <1>1, <1>2, <1>3, <1>4, <1>5, <1>6, <1>7, <1>8, <1>9, <1>10, NextCases

-----------------------------------------------------------------------------
(* The detector's steps, in one.                                           *)

\* Request r, and none after it, is answered.
Answers(r, reply) ==
    /\ \A q \in r..turns : served[q] = NoReply
    /\ \A q \in 1..turns : served'[q] = IF q = r THEN reply ELSE served[q]
    /\ reply.kind \in {"ack", "nak", "status"} \cup SpectrumKinds
    /\ reply.taken \in {now, device.slot, Epoch}
    /\ reply.kind = "ack" => reply = Ack
    /\ reply.kind = "status" => request[r] = "status"
    /\ Fills(request[r], reply.kind) => reply.taken = now
    /\ device'.slot \in {now, device.slot}
    /\ IF reply = Ack /\ request[r] \in Switches THEN device' \in SwitchedBy(request[r])
       ELSE SameSwitch(device')
    /\ UNCHANGED <<handlerVars, connected, current_state, cacheVars, call, outcome,
                   request, now, deadline, adrift, wanted>>

LEMMA ServesAnswers ==
    ASSUME TypeOK, NEW r \in 1..turns, DeviceServes(r) \/ DeviceRefuses(r)
    PROVE  \E reply \in ReplyType : Answers(r, reply)
<1>1. HandlerTyped /\ WireTyped /\ request[r] \in AllOps
  BY TypeParts, WireLemma
<1>2. /\ \A q \in r..turns : served[q] = NoReply
      /\ UNCHANGED <<handlerVars, connected, current_state, cacheVars, call, outcome,
                     request, now, deadline, adrift, wanted>>
  BY <1>1 DEF DeviceServes, DeviceRefuses, Pending, WireTyped
<1>3. CASE DeviceServes(r)
  <2>1. PICK reply \in RepliesTo(request[r]) : served' = [served EXCEPT ![r] = reply]
    BY <1>3 DEF DeviceServes
  <2>2. /\ reply \in ReplyType /\ reply.taken \in {now, device.slot, Epoch}
        /\ reply.kind \in {"ack", "nak", "status"} \cup SpectrumKinds
        /\ reply.kind = "ack" => reply = Ack
        /\ reply.kind = "status" => request[r] = "status"
        /\ Fills(request[r], reply.kind) => reply.taken = now
        /\ request[r] \in Switches => reply = Ack
    BY <1>1, ReplyLemma DEF WireTyped
  <2>3. /\ device'.slot \in {now, device.slot}
        /\ request[r] \in Switches => device' \in SwitchedBy(request[r])
        /\ request[r] \notin Switches => SameSwitch(device')
    BY <1>1, <1>3, DeviceLemma DEF WireTyped, DeviceServes
  <2>4. \A q \in 1..turns : served'[q] = IF q = r THEN reply ELSE served[q]
    BY <2>1, <2>2, ServedTyped
  <2>5. Answers(r, reply)
    BY <1>2, <2>2, <2>3, <2>4 DEF Answers
  <2> QED
    BY <2>2, <2>5
<1>4. CASE DeviceRefuses(r)
  <2>1. served' = [served EXCEPT ![r] = Nak] /\ device' = device /\ request[r] \in Commands
    BY <1>4 DEF DeviceRefuses
  <2>2. \A q \in 1..turns : served'[q] = IF q = r THEN Nak ELSE served[q]
    BY <2>1, ServedTyped, ConstantTypes
  <2>3. SameSwitch(device')
    BY <2>1 DEF SameSwitch
  <2>4. Answers(r, Nak)
    BY <1>2, <2>1, <2>2, <2>3 DEF Answers, Nak, Ack, Fills
  <2> QED
    BY <2>4, ConstantTypes
<1> QED
  BY <1>3, <1>4

\* The steps once more, those of the detector in one and the endings in one.
LEMMA StepCases ==
    ASSUME TypeOK, InProgress, [Next]_vars
    PROVE  \/ Connect \/ DeviceMoves \/ Tick \/ UNCHANGED vars
           \/ \E op \in CachedReads, max_age \in Int : ServeFromCache(op, max_age)
           \/ \E op \in AllOps, max_age \in Int : Begin(op, max_age)
           \/ Send
           \/ \E r \in 1..turns, reply \in ReplyType : Answers(r, reply)
           \/ \E r \in 1..turns :
                /\ Ends(served[r], r) /\ served[r] # NoReply
                /\ last < r /\ last' = r
           \/ \E reply \in JunkReplies \cup {NoReply} :
                Ends(reply, 0) /\ last' = last
BY NextCases, AllEnds, ServesAnswers

-----------------------------------------------------------------------------
(* Every step keeps the parts of the invariant.                            *)

\* A step that neither starts nor ends a call, nor sends or answers a request.
Aside ==
    /\ UNCHANGED <<handlerVars, call, request, served, deadline, adrift, wanted, cacheVars>>
    /\ call # NoCall => outcome' = outcome
    /\ device'.slot = device.slot /\ device'.switched = device.switched
    /\ Switching => Switching'
    /\ now <= now' /\ (now' = now \/ (Holding => now' <= deadline))

LEMMA AsideLemma ==
    ASSUME TypeOK,
           \/ Connect \/ DeviceMoves \/ Tick \/ UNCHANGED vars
           \/ \E op \in CachedReads, max_age \in Int : ServeFromCache(op, max_age)
    PROVE  Aside
<1>0. WireTyped
  BY TypeParts
<1>1. CASE device' = device
  <2>1. Switching => Switching'
    BY <1>1 DEF Switching
  <2>2. CASE Connect
    BY <1>0, <1>1, <2>1, <2>2 DEF Connect, Aside, wireVars, WireTyped
  <2>3. CASE Tick
    BY <1>0, <1>1, <2>1, <2>3 DEF Tick, Aside, Holding, wireVars, WireTyped
  <2>4. CASE UNCHANGED vars
    BY <1>0, <1>1, <2>1, <2>4 DEF vars, Aside, wireVars, WireTyped
  <2>5. ASSUME NEW op \in CachedReads, NEW max_age \in Int, ServeFromCache(op, max_age)
        PROVE  Aside
    BY <1>0, <1>1, <2>1, <2>5 DEF ServeFromCache, Aside, wireVars, WireTyped
  <2>6. CASE DeviceMoves
    BY <1>0, <1>1, <2>1, <2>6 DEF DeviceMoves, Aside, WireTyped
  <2> QED
    BY <2>2, <2>3, <2>4, <2>5, <2>6
<1>2. CASE DeviceMoves
  <2>1. /\ device'.slot = device.slot /\ device'.switched = device.switched
        /\ Switching => Switching'
    BY <1>0, <1>2, MovesLemma DEF WireTyped
  <2>2. UNCHANGED <<handlerVars, connected, current_state, cacheVars, call, outcome,
                    request, served, now, deadline, adrift, wanted>>
    BY <1>2 DEF DeviceMoves
  <2> QED
    BY <1>0, <2>1, <2>2 DEF Aside, WireTyped
<1>3. Connect \/ Tick \/ UNCHANGED vars => device' = device
  BY DEF Connect, Tick, vars, wireVars
<1>4. ASSUME NEW op \in CachedReads, NEW max_age \in Int, ServeFromCache(op, max_age)
      PROVE  device' = device
  BY <1>4 DEF ServeFromCache, wireVars
<1> QED
  BY <1>1, <1>2, <1>3, <1>4

LEMMA StepInProgress == ASSUME TypeOK, InProgress, [Next]_vars PROVE InProgress'
<1>0. HandlerTyped /\ WireTyped /\ caller \in Threads
  BY TypeParts, ConstantTypes
<1>1. CASE Aside
  BY <1>1 DEF Aside, InProgress, Holding, handlerVars
<1>2. ASSUME NEW op \in AllOps, NEW max_age \in Int, Begin(op, max_age)
      PROVE  InProgress'
  BY <1>0, <1>2, BeginLemma DEF InProgress, Holding, HandlerTyped, wireVars
<1>3. CASE Send
  BY <1>0, <1>3, SendLemma DEF InProgress, Holding, HandlerTyped
<1>4. ASSUME NEW r \in 1..turns, NEW reply \in ReplyType, Answers(r, reply)
      PROVE  InProgress'
  BY <1>0, <1>4 DEF Answers, InProgress, Holding, HandlerTyped, handlerVars, NoReply
<1>5. ASSUME NEW r \in 1..turns, Ends(served[r], r), served[r] # NoReply, last' = r
      PROVE  InProgress'
  BY <1>0, <1>5 DEF Ends, InProgress, Holding, HandlerTyped, wireVars
<1>6. ASSUME NEW reply, Ends(reply, 0), last' = last
      PROVE  InProgress'
  BY <1>0, <1>6 DEF Ends, InProgress, Holding, HandlerTyped, wireVars
<1> QED
  BY <1>1, <1>2, <1>3, <1>4, <1>5, <1>6, StepCases, AsideLemma

LEMMA StepReplies == ASSUME TypeOK, InProgress, Replies, [Next]_vars PROVE Replies'
<1>0. HandlerTyped /\ WireTyped /\ caller \in Threads /\ Epoch \in Int
  BY TypeParts, ConstantTypes
<1>1. CASE Aside
  <2>1. \A r \in 1..turns : served[r].taken \in Int
    BY WireLemma DEF ReplyType
  <2>2. now \in Int /\ device.slot \in Int /\ now' \in Int
    BY <1>0, StepTypes, TypePartsNext DEF WireTyped, DeviceType
  <2> QED
    BY <1>0, <1>1, <2>1, <2>2 DEF Aside, Replies, handlerVars
<1>2. ASSUME NEW op \in AllOps, NEW max_age \in Int, Begin(op, max_age)
      PROVE  Replies'
  BY <1>0, <1>2, BeginLemma DEF Replies, wireVars
<1>3. CASE Send
  <2>1. Epoch <= 0 /\ 0 <= now
    BY <1>0, EpochAssumption DEF WireTyped
  <2>2. ASSUME NEW r \in 1..turns + 1
        PROVE  /\ Epoch <= served'[r].taken /\ served'[r].taken <= now
               /\ served'[r].kind = "none" => served'[r] = NoReply
               /\ served'[r].kind = "ack" => served'[r] = Ack
               /\ served'[r].kind = "status" => request'[r] = "status"
    <3>1. CASE r = turns + 1
      BY <1>0, <1>3, <2>1, <3>1, SendLemma DEF NoReply, WireTyped
    <3>2. CASE r # turns + 1
      <4>1. r \in 1..turns
        BY <1>0, <3>2 DEF HandlerTyped
      <4> QED
        BY <1>3, <3>2, <4>1, SendLemma DEF Replies
    <3> QED
      BY <3>1, <3>2
  <2> QED
    BY <1>0, <1>3, <2>2, SendLemma DEF Replies
<1>4. ASSUME NEW r \in 1..turns, NEW reply \in ReplyType, Answers(r, reply)
      PROVE  Replies'
  <2>1. Epoch <= 0 /\ 0 <= now /\ now \in Int /\ device.slot \in Int
    BY <1>0, EpochAssumption DEF WireTyped, DeviceType
  <2>2. Epoch <= reply.taken /\ reply.taken <= now
    BY <1>0, <1>4, <2>1 DEF Answers, Replies
  <2>3. Epoch <= device'.slot /\ device'.slot <= now
    BY <1>0, <1>4, <2>1 DEF Answers, Replies
  <2>4. reply.kind # "none"
    BY <1>4 DEF Answers, SpectrumKinds
  <2> QED
    BY <1>4, <2>2, <2>3, <2>4 DEF Answers, Replies, handlerVars
<1>5. ASSUME NEW r, NEW reply, Ends(reply, r)
      PROVE  Replies'
  BY <1>5 DEF Ends, Replies, wireVars
<1> QED
  BY <1>1, <1>2, <1>3, <1>4, <1>5, StepCases, AsideLemma

\* The times of the state are integers.
LEMMA Times ==
    ASSUME TypeOK
    PROVE  /\ now \in Nat /\ deadline \in Nat /\ device.slot \in Int /\ turns \in Nat /\ last \in Nat
           /\ last_status.taken \in Int /\ last_spectrum.taken \in Int
           /\ last_status.at \in Int /\ last_spectrum.at \in Int
           /\ call.since \in Nat /\ RecvTimeout \in Nat /\ Epoch \in Int /\ Epoch <= 0
           /\ \A r \in 1..turns : served[r].taken \in Int
BY TypeParts, ConstantTypes, WireLemma, EpochAssumption
   DEF HandlerTyped, CallerTyped, WireTyped, CallType, CacheType, ReplyType, DeviceType

LEMMA StepOrder == ASSUME TypeOK, InProgress, Replies, Order, [Next]_vars PROVE Order'
<1>0. /\ now \in Nat /\ turns \in Nat /\ last \in Nat /\ last_spectrum.taken \in Int
      /\ Epoch \in Int /\ Epoch <= 0 /\ \A r \in 1..turns : served[r].taken \in Int
  BY Times
<1>1. CASE Aside
  <2>1. now' \in Nat
    BY StepTypes, TypePartsNext DEF WireTyped
  <2> QED
    BY <1>0, <1>1, <2>1 DEF Aside, Order, handlerVars, cacheVars
<1>2. ASSUME NEW op \in AllOps, NEW max_age \in Int, Begin(op, max_age)
      PROVE  Order'
  BY <1>0, <1>2, BeginLemma DEF Order, wireVars, cacheVars
<1>3. CASE Send
  <2>1. /\ turns' = turns + 1 /\ UNCHANGED <<last, last_spectrum, paired, now>>
        /\ \A q \in 1..turns + 1 : served'[q] = IF q = turns + 1 THEN NoReply ELSE served[q]
    BY <1>3, SendLemma DEF cacheVars
  <2>2. \A q \in 1..turns + 1 : q # turns + 1 => q \in 1..turns
    BY <1>0
  <2>3. ASSUME NEW r \in 1..turns + 1, served'[r].kind = "status"
        PROVE  r \in 1..turns /\ served'[r] = served[r]
    BY <2>1, <2>2, <2>3 DEF NoReply
  <2>4. ASSUME NEW q \in 1..turns + 1, NEW r \in 1..turns + 1, q < r, served'[r].kind = "status"
        PROVE  served'[q].taken <= served'[r].taken
    <3>1. q \in 1..turns /\ q # turns + 1 /\ r \in 1..turns
      BY <1>0, <2>3, <2>4
    <3>2. served'[q] = served[q] /\ served'[r] = served[r]
      BY <2>1, <2>3, <2>4, <3>1
    <3> QED
      BY <2>4, <3>1, <3>2 DEF Order
  <2>5. ASSUME paired, NEW r \in 1..turns + 1, last < r, served'[r].kind = "status"
        PROVE  last_spectrum.taken <= served'[r].taken
    BY <2>3, <2>5 DEF Order
  <2> QED
    BY <2>1, <2>4, <2>5 DEF Order
<1>4. ASSUME NEW r \in 1..turns, NEW reply \in ReplyType, Answers(r, reply)
      PROVE  Order'
  <2>1. /\ UNCHANGED <<turns, last, last_spectrum, paired, now>>
        /\ \A q \in 1..turns : served'[q] = IF q = r THEN reply ELSE served[q]
        /\ \A q \in r..turns : served[q].kind = "none"
    BY <1>4 DEF Answers, handlerVars, cacheVars, NoReply
  <2>2. reply.kind = "status" => reply.taken = now
    BY <1>4 DEF Answers, Fills
  <2>3. ASSUME NEW p \in 1..turns, NEW q \in 1..turns, p < q, served'[q].kind = "status"
        PROVE  served'[p].taken <= served'[q].taken
    <3>1. CASE q = r
      BY <1>0, <2>1, <2>2, <2>3, <3>1 DEF Replies
    <3>2. CASE q # r
      <4>1. q < r
        BY <1>0, <2>1, <2>3, <3>2
      <4> QED
        BY <1>0, <2>1, <2>3, <3>2, <4>1 DEF Order
    <3> QED
      BY <3>1, <3>2
  <2>4. ASSUME paired, NEW q \in 1..turns, last < q, served'[q].kind = "status"
        PROVE  last_spectrum.taken <= served'[q].taken
    BY <2>1, <2>2, <2>4 DEF Order
  <2> QED
    BY <2>1, <2>3, <2>4 DEF Order
<1>5. ASSUME NEW r \in 1..turns, Ends(served[r], r), last < r, last' = r
      PROVE  Order'
  <2>1. UNCHANGED <<turns, served, now>>
    BY <1>5 DEF Ends, wireVars
  <2>2. \/ UNCHANGED <<last_spectrum, paired>>
        \/ last_spectrum'.taken = served[r].taken
    BY <1>5 DEF Ends, Stores, Read, cacheVars
  <2>3. CASE UNCHANGED <<last_spectrum, paired>>
    BY <1>0, <1>5, <2>1, <2>3 DEF Order
  <2>4. CASE last_spectrum'.taken = served[r].taken
    BY <1>0, <1>5, <2>1, <2>4 DEF Order, Replies
  <2> QED
    BY <2>2, <2>3, <2>4
<1>6. ASSUME NEW reply \in JunkReplies \cup {NoReply}, Ends(reply, 0), last' = last
      PROVE  Order'
  <2>1. UNCHANGED <<turns, served, now>>
    BY <1>6 DEF Ends, wireVars
  <2>2. reply.taken \in {Epoch, now}
    BY <1>6 DEF JunkReplies, NoReply
  <2>3. \/ UNCHANGED <<last_spectrum, paired>>
        \/ last_spectrum'.taken \in {Epoch, now} /\ paired' = FALSE
    <3>1. Stores(reply, 0)
      BY <1>6 DEF Ends
    <3>2. CASE last_spectrum' = Read(reply, 0) /\ paired' = (reply.kind = "spectrum" /\ 0 # 0)
      <4>1. last_spectrum'.taken = reply.taken /\ paired' = FALSE
        BY <3>2 DEF Read
      <4> QED
        BY <2>2, <4>1
    <3> QED
      BY <3>1, <3>2 DEF Stores, cacheVars
  <2>4. CASE UNCHANGED <<last_spectrum, paired>>
    BY <1>6, <2>1, <2>4 DEF Order
  <2>5. CASE last_spectrum'.taken \in {Epoch, now} /\ paired' = FALSE
    BY <1>0, <1>6, <2>1, <2>5 DEF Order, Replies
  <2> QED
    BY <2>3, <2>4, <2>5
<1> QED
  BY <1>1, <1>2, <1>3, <1>4, <1>5, <1>6, StepCases, AsideLemma

\* The status that is read is not from before the spectrum that is cached, since its
\* turn comes after that of the spectrum.
LEMMA StepStatus ==
    ASSUME TypeOK, InProgress, Replies, Order, StatusNotBeforeSpectrum, [Next]_vars
    PROVE  StatusNotBeforeSpectrum'
<1>0. last_spectrum.taken \in Int /\ last_status.taken \in Int /\ Epoch \in Int
  BY Times
<1>1. CASE UNCHANGED cacheVars
  BY <1>1 DEF StatusNotBeforeSpectrum, cacheVars
<1>2. ASSUME NEW r \in 1..turns, Ends(served[r], r), last < r
      PROVE  StatusNotBeforeSpectrum'
  <2>1. CASE /\ UNCHANGED <<last_spectrum, paired>> /\ served[r].kind = "status"
             /\ last_status'.taken = served[r].taken
    BY <1>2, <2>1 DEF StatusNotBeforeSpectrum, Order
  <2>2. CASE last_status' = last_spectrum' /\ last_spectrum'.taken = served[r].taken
    BY <2>2, Times DEF StatusNotBeforeSpectrum
  <2>3. CASE paired' = FALSE
    BY <2>3 DEF StatusNotBeforeSpectrum
  <2>4. Stores(served[r], r)
    BY <1>2 DEF Ends
  <2>5. Read(served[r], r).taken = served[r].taken
    BY DEF Read
  <2>6. CASE /\ last_spectrum' = Read(served[r], r)
             /\ paired' = (served[r].kind = "spectrum" /\ r # 0)
             /\ last_status' = IF served[r].kind = "spectrum" THEN Read(served[r], r)
                               ELSE last_status
    <3>1. CASE served[r].kind = "spectrum"
      BY <2>2, <2>5, <2>6, <3>1
    <3>2. CASE served[r].kind # "spectrum"
      BY <2>3, <2>6, <3>2
    <3> QED
      BY <3>1, <3>2
  <2>7. CASE /\ served[r].kind = "status" /\ UNCHANGED <<last_spectrum, paired>>
             /\ last_status' = Read(served[r], r)
    BY <2>1, <2>5, <2>7
  <2> QED
    BY <1>1, <2>4, <2>6, <2>7 DEF Stores
<1>3. ASSUME NEW reply \in JunkReplies \cup {NoReply}, Ends(reply, 0)
      PROVE  StatusNotBeforeSpectrum'
  <2>1. reply.kind # "status"
    BY <1>3 DEF JunkReplies, NoReply, SpectrumKinds
  <2>2. CASE paired' = FALSE
    BY <2>2 DEF StatusNotBeforeSpectrum
  <2>3. Stores(reply, 0)
    BY <1>3 DEF Ends
  <2> QED
    BY <1>1, <2>1, <2>2, <2>3 DEF Stores
<1>4. ASSUME NEW op \in AllOps, NEW max_age \in Int, Begin(op, max_age)
      PROVE  UNCHANGED cacheVars
  BY <1>4, BeginLemma
<1>5. ASSUME NEW r \in 1..turns, NEW reply \in ReplyType, Answers(r, reply)
      PROVE  UNCHANGED cacheVars
  BY <1>5 DEF Answers
<1>6. Aside => UNCHANGED cacheVars
  BY DEF Aside
<1>7. Send => UNCHANGED cacheVars
  BY SendLemma
<1> QED
  BY <1>1, <1>2, <1>3, <1>4, <1>5, <1>6, <1>7, StepCases, AsideLemma

LEMMA StepInTime == ASSUME TypeOK, InProgress, InTime, [Next]_vars PROVE InTime'
<1>0. /\ now \in Nat /\ deadline \in Nat /\ turns \in Nat /\ last \in Nat
      /\ call.since \in Nat /\ RecvTimeout \in Nat
      /\ \A r \in 1..turns : served[r].taken \in Int
  BY Times
<1>1. caller \in Threads /\ HandlerTyped
  BY ConstantTypes, TypeParts
<1>2. CASE Aside
  <2>1. now' \in Nat
    BY StepTypes, TypePartsNext DEF WireTyped
  <2> QED
    BY <1>0, <1>2, <2>1 DEF Aside, InTime, Holding, handlerVars, cacheVars
<1>3. ASSUME NEW op \in AllOps, NEW max_age \in Int, Begin(op, max_age)
      PROVE  InTime'
  <2>1. call'.since = now /\ now' = now /\ ~Holding' /\ UNCHANGED cacheVars
    BY <1>0, <1>1, <1>3, BeginLemma DEF Holding, HandlerTyped
  <2> QED
    BY <1>0, <2>1 DEF InTime, cacheVars
<1>4. CASE Send
  <2>1. /\ turns' = turns + 1 /\ served'[turns + 1] = NoReply /\ deadline' = now + RecvTimeout
        /\ call # NoCall /\ UNCHANGED <<cacheVars, call, now>>
    BY <1>0, <1>4, SendLemma
  <2> QED
    BY <1>0, <2>1 DEF InTime, cacheVars, NoReply, Fills
<1>5. ASSUME NEW r \in 1..turns, NEW reply \in ReplyType, Answers(r, reply)
      PROVE  InTime'
  <2>1. UNCHANGED <<phase, turns, cacheVars, call, request, now, deadline>>
    BY <1>5 DEF Answers, handlerVars
  <2>2. ASSUME Holding, Fills(call.op, served'[turns].kind)
        PROVE  deadline - RecvTimeout <= served'[turns].taken
    <3>1. turns \in 1..turns /\ request[turns] = call.op
      BY <1>0, <2>2 DEF InProgress
    <3>2. CASE r = turns
      BY <1>5, <2>2, <3>1, <3>2 DEF Answers, InTime
    <3>3. CASE r # turns
      BY <1>5, <2>2, <3>1, <3>3 DEF Answers, InTime
    <3> QED
      BY <3>2, <3>3
  <2> QED
    BY <2>1, <2>2 DEF InTime, Holding, cacheVars
<1>6. ASSUME NEW r \in Nat, NEW reply, Ends(reply, r), r = turns => reply = served[turns]
      PROVE  InTime'
  <2>1. call' = NoCall /\ ~Holding' /\ now' = now
    BY <1>1, <1>6 DEF Ends, Holding, HandlerTyped
  <2>2. Holding /\ turns \in 1..turns
    BY <1>0, <1>6 DEF InProgress, Ends
  <2>3. ASSUME r = turns, Fills(call.op, reply.kind)
        PROVE  now - reply.taken <= RecvTimeout
    <3>1. deadline - RecvTimeout <= reply.taken /\ now <= deadline /\ reply.taken \in Int
      BY <1>0, <1>6, <2>2, <2>3 DEF InTime
    <3> QED
      BY <1>0, <3>1
  <2>4. /\ last_status'.own => last_status'.at - last_status'.taken <= RecvTimeout
        /\ last_spectrum'.own => last_spectrum'.at - last_spectrum'.taken <= RecvTimeout
    <3>1. CASE UNCHANGED cacheVars
      BY <3>1 DEF InTime, cacheVars
    <3>2. CASE /\ Fills(call.op, reply.kind)
               /\ last_status' \in {last_status, Read(reply, r)}
               /\ last_spectrum' \in {last_spectrum, Read(reply, r)}
      <4>1. Read(reply, r).own => Read(reply, r).at - Read(reply, r).taken <= RecvTimeout
        BY <2>3, <3>2 DEF Read
      <4> QED
        BY <3>2, <4>1 DEF InTime
    <3>3. Stores(reply, r)
      BY <1>6 DEF Ends
    <3> QED
      BY <3>1, <3>2, <3>3 DEF Stores
  <2> QED
    BY <2>1, <2>4 DEF InTime
<1>7. ASSUME NEW reply \in JunkReplies \cup {NoReply}, Ends(reply, 0)
      PROVE  InTime'
  <2>1. turns # 0
    BY <1>0, <1>7 DEF Ends, InProgress
  <2> QED
    BY <1>6, <1>7, <2>1
<1>8. ASSUME NEW r \in 1..turns, Ends(served[r], r)
      PROVE  InTime'
  BY <1>0, <1>6, <1>8
<1> QED
  BY <1>2, <1>3, <1>4, <1>5, <1>7, <1>8, StepCases, AsideLemma

\* What a read returns, whether from a cache or from the detector, is fresh.
LEMMA StepFresh == ASSUME TypeOK, InProgress, InTime, DataFresh, [Next]_vars PROVE DataFresh'
<1>0. /\ now \in Nat /\ deadline \in Nat /\ turns \in Nat /\ last \in Nat
      /\ last_status.taken \in Int /\ last_spectrum.taken \in Int
      /\ last_status.at \in Int /\ last_spectrum.at \in Int
      /\ call.since \in Nat /\ RecvTimeout \in Nat
      /\ \A r \in 1..turns : served[r].taken \in Int
  BY Times
<1>1. CASE UNCHANGED <<outcome, cacheVars>>
  BY <1>1 DEF DataFresh, CacheOf, cacheVars
<1>2. ASSUME NEW op \in CachedReads, NEW max_age \in Int, ServeFromCache(op, max_age)
      PROVE  DataFresh'
  <2> DEFINE data == CacheOf(op)
  <2>1. /\ outcome'.op = op /\ outcome'.since = now /\ outcome'.max_age = max_age
        /\ CacheOf(op)' = data /\ now - data.at < max_age
    BY <1>2 DEF ServeFromCache, AgeOk, CacheOf, cacheVars
  <2>2. data.own => data.at - data.taken <= RecvTimeout
    BY DEF InTime, CacheOf
  <2>3. data.at \in Int /\ data.taken \in Int
    BY <1>0 DEF CacheOf
  <2> HIDE DEF data
  <2>4. data.own => now - data.taken < max_age + RecvTimeout
    BY <1>0, <2>1, <2>2, <2>3
  <2> QED
    BY <2>1, <2>4 DEF DataFresh
<1>3. ASSUME NEW op \in AllOps, NEW max_age \in Int, Begin(op, max_age)
      PROVE  DataFresh'
  BY <1>3, BeginLemma DEF DataFresh, NoOutcome, CachedReads
<1>4. ASSUME NEW r \in Nat, NEW reply, Ends(reply, r), r = turns => reply = served[turns]
      PROVE  DataFresh'
  <2> SUFFICES ASSUME outcome'.op \in CachedReads, outcome'.result = "returned", ~outcome'.refused
               PROVE  DataFresh'
    BY DEF DataFresh
  <2> DEFINE data == IF call.op = "status" THEN last_status' ELSE last_spectrum'
  <2>1. /\ call.op \in CachedReads /\ Fills(call.op, reply.kind) /\ Holding
        /\ outcome'.since = call.since /\ outcome'.op = call.op
    BY <1>4 DEF Ends
  <2>2. data = Read(reply, r)
    BY <1>4, <2>1 DEF Ends, Stores, CachedReads
  <2>3. ASSUME r = turns PROVE call.since <= reply.taken
    <3>1. reply = served[turns] /\ turns \in 1..turns
      BY <1>0, <1>4, <2>1, <2>3 DEF InProgress
    <3>2. deadline - RecvTimeout <= reply.taken /\ call.since <= deadline - RecvTimeout
      BY <2>1, <3>1 DEF InTime
    <3>3. reply.taken \in Int
      BY <1>0, <3>1
    <3> QED
      BY <1>0, <3>2, <3>3
  <2>4. data.own = (r = turns) /\ data.taken = reply.taken
    BY <2>2 DEF Read
  <2>5. data = CacheOf(outcome.op)'
    BY <2>1 DEF CacheOf
  <2> HIDE DEF data
  <2>6. data.own => outcome'.since <= data.taken
    BY <2>1, <2>3, <2>4
  <2> QED
    BY <2>1, <2>5, <2>6 DEF DataFresh
<1>5. ASSUME NEW reply \in JunkReplies \cup {NoReply}, Ends(reply, 0)
      PROVE  DataFresh'
  <2>1. turns # 0
    BY <1>0, <1>5 DEF Ends, InProgress
  <2> QED
    BY <1>4, <1>5, <2>1
<1>6. ASSUME NEW r \in 1..turns, NEW reply \in ReplyType, Answers(r, reply)
      PROVE  UNCHANGED <<outcome, cacheVars>>
  BY <1>6 DEF Answers
<1>7. Connect \/ DeviceMoves \/ Tick \/ UNCHANGED vars => UNCHANGED <<outcome, cacheVars>>
  BY DEF Connect, DeviceMoves, Tick, vars
<1>8. Send => UNCHANGED <<outcome, cacheVars>>
  BY SendLemma
<1>9. ASSUME NEW r \in 1..turns, Ends(served[r], r)
      PROVE  DataFresh'
  BY <1>0, <1>4, <1>9
<1> QED
  BY <1>1, <1>2, <1>3, <1>5, <1>6, <1>7, <1>8, <1>9, StepCases

\* The detector's switch follows what it has acknowledged.
LEMMA StepSwitching == ASSUME TypeOK, InProgress, Switching, [Next]_vars PROVE Switching'
<1>0. device \in DeviceType
  BY TypeParts DEF WireTyped
<1>1. CASE device' = device
  BY <1>1 DEF Switching
<1>2. ASSUME NEW r \in 1..turns, NEW reply \in ReplyType, Answers(r, reply)
      PROVE  Switching'
  <2>1. CASE SameSwitch(device')
    BY <2>1 DEF SameSwitch, Switching
  <2>2. ASSUME NEW op \in Switches, device' \in SwitchedBy(op) PROVE Switching'
    <3> DEFINE d == [device EXCEPT !.switched = op = "enable", !.crossed = device.todo # {}]
    <3>1. device' \in {Switched(d, op), [d EXCEPT !.todo = @ \cup {op}]}
      BY <2>2 DEF SwitchedBy
    <3>2. /\ d \in DeviceType /\ d.switched = (op = "enable")
          /\ d.crossed = (device.todo # {}) /\ d.todo = device.todo
      BY <1>0 DEF DeviceType
    <3> HIDE DEF d
    <3>3. CASE device.todo # {}
      <4>1. device'.crossed
        BY <3>1, <3>2, <3>3 DEF Switched, DeviceType
      <4> QED
        BY <4>1 DEF Switching
    <3>4. CASE device.todo = {}
      <4>1. CASE device' = Switched(d, op)
        <5>1. /\ device'.todo = {} /\ device'.enabled = (op = "enable")
              /\ device'.switched = (op = "enable") /\ device'.ended = FALSE
          BY <3>2, <3>4, <4>1 DEF Switched, DeviceType
        <5> QED
          BY <5>1 DEF Switching
      <4>2. CASE device' = [d EXCEPT !.todo = @ \cup {op}]
        <5>1. device'.todo = {op} /\ device'.switched = (op = "enable")
          BY <3>2, <3>4, <4>2 DEF DeviceType
        <5>2. op = IF device'.switched THEN "enable" ELSE "disable"
          BY <5>1 DEF Switches
        <5> QED
          BY <5>1, <5>2 DEF Switching
      <4> QED
        BY <3>1, <4>1, <4>2
    <3> QED
      BY <3>3, <3>4
  <2> QED
    BY <1>2, <2>1, <2>2 DEF Answers
<1>3. ASSUME NEW op \in AllOps, NEW max_age \in Int, Begin(op, max_age)
      PROVE  device' = device
  BY <1>3 DEF Begin, wireVars
<1>4. Send => device' = device
  BY DEF Send
<1>5. ASSUME NEW reply, NEW r, Ends(reply, r) PROVE device' = device
  BY <1>5 DEF Ends, wireVars
<1>6. Aside => Switching'
  BY DEF Aside
<1> QED
  BY <1>1, <1>2, <1>3, <1>4, <1>5, <1>6, StepCases, AsideLemma

\* Unless a switch went wrong, what the detector has acknowledged and what the
\* interface believes differ only between the detector's answer and its arrival.
LEMMA StepInStep == ASSUME TypeOK, InProgress, Replies, InStep, [Next]_vars PROVE InStep'
<1>0. turns \in Nat /\ last \in Nat
  BY Times
<1>1. caller \in Threads /\ HandlerTyped
  BY ConstantTypes, TypeParts
<1>2. CASE Aside
  BY <1>2 DEF Aside, InStep, Acknowledged, Holding, handlerVars
<1>3. ASSUME NEW op \in AllOps, NEW max_age \in Int, Begin(op, max_age)
      PROVE  InStep'
  <2>1. ~Holding /\ ~Holding' /\ UNCHANGED <<turns, request, served, device, wanted, adrift>>
    BY <1>1, <1>3, BeginLemma DEF Holding, HandlerTyped, wireVars
  <2> QED
    BY <2>1 DEF InStep, Acknowledged
<1>4. CASE Send
  <2>1. /\ ~Holding /\ Holding' /\ UNCHANGED <<device, wanted, adrift>>
        /\ turns' = turns + 1 /\ served'[turns + 1] = NoReply
        /\ \A q \in 1..turns : request'[q] = request[q] /\ served'[q] = served[q]
    BY <1>0, <1>1, <1>4, SendLemma DEF Holding, HandlerTyped
  <2>2. ~Acknowledged /\ ~Acknowledged'
    BY <2>1 DEF Acknowledged, NoReply, Ack
  <2>3. ASSUME ~adrift, NEW q \in 1..turns + 1, request'[q] \in Switches, q # turns + 1
        PROVE  \E p \in q..turns + 1 : served'[p] # NoReply
    <3>1. q \in 1..turns
      BY <1>0, <2>3
    <3>2. PICK p \in q..turns : served[p] # NoReply
      BY <2>1, <2>3, <3>1 DEF InStep
    <3>3. p \in 1..turns /\ p \in q..turns + 1
      BY <1>0, <3>1, <3>2
    <3> QED
      BY <2>1, <3>2, <3>3
  <2> QED
    BY <2>1, <2>2, <2>3 DEF InStep
<1>5. ASSUME NEW r \in 1..turns, NEW reply \in ReplyType, Answers(r, reply)
      PROVE  InStep'
  <2>1. UNCHANGED <<phase, turns, call, request, wanted, adrift>> /\ Holding' = Holding
    BY <1>5 DEF Answers, handlerVars, Holding
  <2>2. served[turns] = NoReply /\ ~Acknowledged /\ turns \in r..turns
    BY <1>0, <1>5 DEF Answers, Acknowledged, NoReply, Ack
  <2>3. reply # NoReply
    BY <1>5 DEF Answers, NoReply, SpectrumKinds
  <2>4. /\ \A q \in r..turns : served[q] = NoReply
        /\ \A q \in 1..turns : served'[q] = IF q = r THEN reply ELSE served[q]
    BY <1>5 DEF Answers
  <2>5. Acknowledged' => r = turns /\ reply = Ack /\ request[r] \in Switches /\ request[r] = call.op
    <3>1. SUFFICES ASSUME Acknowledged'
                   PROVE  r = turns /\ reply = Ack /\ request[r] \in Switches /\ request[r] = call.op
      OBVIOUS
    <3>2. Holding /\ served'[turns] = Ack /\ call.op \in Switches
      BY <2>1, <3>1 DEF Acknowledged
    <3>3. turns \in 1..turns /\ Ack # NoReply
      BY <1>0 DEF Ack, NoReply
    <3>4. r = turns /\ reply = Ack
      BY <2>2, <2>4, <3>2, <3>3
    <3> QED
      BY <3>2, <3>4 DEF InProgress
  <2>6. ASSUME ~adrift, NEW q \in 1..turns, request[q] \in Switches, ~(Holding /\ q = turns)
        PROVE  \E p \in q..turns : served'[p] # NoReply
    <3>1. PICK p \in q..turns : served[p] # NoReply
      BY <2>6 DEF InStep
    <3>2. p \in 1..turns
      BY <1>0, <3>1
    <3> QED
      BY <2>3, <2>4, <3>1, <3>2
  <2>7. CASE reply = Ack /\ request[r] \in Switches
    <3>1. device' \in SwitchedBy(request[r]) /\ device \in DeviceType
      BY <1>5, <2>7, TypeParts DEF Answers, WireTyped
    <3>2. device'.switched = (request[r] = "enable")
      BY <3>1 DEF SwitchedBy, Switched, DeviceType
    <3>3. ~adrift => Acknowledged'
      <4>1. SUFFICES ASSUME ~adrift PROVE Acknowledged'
        OBVIOUS
      <4>2. Holding /\ r = turns
        BY <2>4, <2>7, <4>1 DEF InStep
      <4>3. served'[turns] = Ack /\ call.op \in Switches
        BY <2>4, <2>7, <4>2 DEF InProgress
      <4> QED
        BY <2>1, <4>2, <4>3 DEF Acknowledged
    <3> QED
      BY <2>1, <2>5, <2>6, <3>2, <3>3 DEF InStep
  <2>8. CASE ~(reply = Ack /\ request[r] \in Switches)
    <3>1. device'.switched = device.switched /\ ~Acknowledged'
      BY <1>5, <2>5, <2>8 DEF Answers, SameSwitch
    <3> QED
      BY <2>1, <2>2, <2>6, <3>1 DEF InStep
  <2> QED
    BY <2>7, <2>8
<1>6. ASSUME NEW r \in 1..turns, Ends(served[r], r), served[r] # NoReply, ~adrift'
      PROVE  InStep'
  <2>1. Holding /\ ~Holding' /\ UNCHANGED <<turns, device, request, served>>
    BY <1>1, <1>6 DEF Ends, Holding, HandlerTyped, wireVars
  <2>2. turns \in 1..turns /\ request[turns] = call.op
    BY <1>0, <2>1 DEF InProgress
  <2>3. CASE call.op \in Switches
    <3>1. r = turns /\ (adrift => served[turns].kind = "ack")
          /\ wanted' = IF served[turns].kind = "ack" THEN call.op = "enable" ELSE wanted
      BY <1>6, <2>3 DEF Ends, Believes
    <3>2. served[turns].kind = "ack" <=> served[turns] = Ack
      BY <2>2 DEF Replies, Ack
    <3>3. device.switched = wanted'
      BY <2>1, <2>3, <3>1, <3>2 DEF InStep, Acknowledged
    <3>4. \A q \in 1..turns : \E p \in q..turns : served[p] # NoReply
      BY <1>0, <1>6, <3>1
    <3> QED
      BY <2>1, <3>3, <3>4 DEF InStep, Acknowledged
  <2>4. CASE call.op \notin Switches
    <3>1. wanted' = wanted /\ ~adrift
      BY <1>6, <2>4 DEF Ends, Believes
    <3>2. device.switched = wanted
      BY <2>4, <3>1 DEF InStep, Acknowledged
    <3> QED
      BY <2>1, <2>2, <2>4, <3>1, <3>2 DEF InStep, Acknowledged
  <2> QED
    BY <2>3, <2>4
<1>7. ASSUME NEW reply, Ends(reply, 0), ~adrift'
      PROVE  InStep'
  <2>1. Holding /\ ~Holding' /\ UNCHANGED <<turns, device, request, served>>
    BY <1>1, <1>7 DEF Ends, Holding, HandlerTyped, wireVars
  <2>2. turns # 0 /\ request[turns] = call.op
    BY <1>0, <2>1 DEF InProgress
  <2>3. call.op \notin Switches /\ wanted' = wanted /\ ~adrift
    BY <1>7, <2>2 DEF Ends, Believes
  <2>4. device.switched = wanted
    BY <2>3 DEF InStep, Acknowledged
  <2> QED
    BY <2>1, <2>2, <2>3, <2>4 DEF InStep, Acknowledged
<1>8. ASSUME NEW reply, NEW r, Ends(reply, r), adrift'
      PROVE  InStep'
  <2>1. ~Holding'
    BY <1>1, <1>8 DEF Ends, Holding, HandlerTyped
  <2> QED
    BY <1>8, <2>1 DEF InStep, Acknowledged
<1> QED
  BY <1>2, <1>3, <1>4, <1>5, <1>6, <1>7, <1>8, StepCases, AsideLemma

LEMMA InitHolds == Init => IInv
<1> SUFFICES ASSUME Init PROVE IInv
  OBVIOUS
<1> USE DEF Init, Handler!Init
<1>1. TypeOK
  <2>1. /\ phase \in [Threads -> {"idle", "waiting", "holding"}] /\ turns \in Nat /\ last \in Nat
        /\ answer \in [Threads -> Int] /\ turns = 0
    BY DEF Handler!NoAnswer
  <2>2. NoCall \in [op : AllOps \cup {"none"}, max_age : Int, since : Nat]
    BY DEF NoCall
  <2>3. NoOutcome \in OutcomeType
    BY ConstantTypes
  <2>4. request \in Seq(AllOps) /\ served \in Seq(ReplyType) /\ Len(request) = 0 /\ Len(served) = 0
    OBVIOUS
  <2>5. NeverRead \in CacheType /\ Epoch \in Int /\ PoweredUp \in DeviceType
    BY ConstantTypes
  <2> QED
    BY <2>1, <2>2, <2>3, <2>4, <2>5 DEF TypeOK, OutcomeType
<1>2. ~Holding /\ caller \in Threads /\ Epoch \in Int /\ Epoch <= 0 /\ RecvTimeout \in Nat
  BY ConstantTypes, EpochAssumption DEF Holding
<1>3. InProgress
  BY <1>2 DEF InProgress
<1>4. Replies /\ Order
  BY <1>2 DEF Replies, Order, NeverRead, PoweredUp
<1>5. InStep /\ Switching
  <2>1. device.todo = {} /\ ~device.enabled /\ ~device.switched /\ ~device.ended
    BY DEF PoweredUp
  <2>2. device.enabled = FALSE /\ device.switched = FALSE
    BY DEF PoweredUp
  <2>3. Switching
    BY <2>1, <2>2 DEF Switching
  <2>4. ~Acknowledged
    BY <1>2 DEF Acknowledged
  <2>5. device.switched = wanted
    BY <2>2
  <2>6. \A q \in 1..turns : FALSE
    OBVIOUS
  <2>7. InStep
    BY <2>4, <2>5, <2>6 DEF InStep
  <2> QED
    BY <2>3, <2>7
<1>6. InTime /\ StatusNotBeforeSpectrum /\ DataFresh
  BY <1>2 DEF InTime, StatusNotBeforeSpectrum, DataFresh, NeverRead, NoOutcome, CachedReads
<1> QED
  BY <1>1, <1>3, <1>4, <1>5, <1>6 DEF IInv

LEMMA NextKeeps == IInv /\ [Next]_vars => IInv'
BY StepTypes, StepInProgress, StepReplies, StepOrder, StepStatus, StepInTime, StepFresh,
   StepSwitching, StepInStep
   DEF IInv

LEMMA Invariance == Spec => []IInv
BY InitHolds, NextKeeps, PTL DEF Spec

-----------------------------------------------------------------------------
(* What the interface promises.                                            *)

\* Every variable holds a value of its type, and the detector answers no
\* request that was not sent.
THEOREM TypeCorrect == Spec => []TypeOK
<1>1. IInv => TypeOK
  BY DEF IInv
<1> QED
  BY <1>1, Invariance, PTL

\* A spectrum that the detector sent with its status is never cached next to an older
\* status, whatever the ages the caller passes, the operations it mixes and the answers
\* that come late, broken or never.
THEOREM StatusNeverBeforeSpectrum == Spec => []StatusNotBeforeSpectrum
<1>1. IInv => StatusNotBeforeSpectrum
  BY DEF IInv
<1> QED
  BY <1>1, Invariance, PTL

\* A read that returns data which was fetched in step returns data no older than the
\* caller allows, but for the time an exchange takes, whether it comes from a cache
\* or from the detector.
THEOREM ReadsAreFresh == Spec => []DataFresh
<1>1. IInv => DataFresh
  BY DEF IInv
<1> QED
  BY <1>1, Invariance, PTL

\* If the latest Enable or Disable was given its own answer, the acquisition is in the
\* state that the latest one which returned true put it in, whatever became of the other
\* calls, unless a preset has ended it, or its switches crossed or are yet to be carried
\* out, as the simulator does.
THEOREM AcquisitionFollows == Spec => []AcquisitionAsCommanded
<1>1. IInv => AcquisitionAsCommanded
  BY DEF IInv, InStep, Acknowledged, Switching, AcquisitionAsCommanded
<1> QED
  BY <1>1, Invariance, PTL
=============================================================================
