--------------------- MODULE UsbConnectionHandler_proofs ---------------------
(* Proofs about UsbConnectionHandler, for any devices on the bus, whatever is *)
(* in their endpoints, and any number of threads and calls.                 *)
EXTENDS UsbConnectionHandler, TLAPS, SequenceTheorems

Items == [turn : Nat, kind : Kinds]

-----------------------------------------------------------------------------
(* The inductive invariant.                                                *)

\* A device is opened before it is claimed, and claimed before it is used; one
\* that is closed again does not fit, or failed.
Scan ==
    stage = "scan" =>
        /\ step # "open" => probe \in Devices
        /\ step = "claim" => handle[probe] = "open"
        /\ step \in {"ask", "read", "close"} => handle[probe] = "claimed"
        /\ step = "read" => target >= 0
        /\ step = "close" /\ Fits(probe) => probe \in hist.failed

\* A device that is not closed could not be released, is the one kept, or is the
\* one looked at.
Closed ==
    \A d \in Devices :
        \/ handle[d] = "closed" \/ d \in hist.stuck
        \/ stage = "ready" /\ d = usb_handle
        \/ stage = "scan" /\ step # "open" /\ d = probe

IInv == TypeOK /\ Scan /\ Closed /\ NoFitPassedOver

-----------------------------------------------------------------------------
(* What the transfers leave in an endpoint is requests and responses.      *)

PipeTyped == pipe \in [Devices -> Seq(Items)]

LEMMA ReadsTyped == ASSUME PipeTyped, NEW d \in Devices, Reads(d) PROVE PipeTyped'
<1>1. pipe[d] \in Seq(Items) /\ pipe[d] # <<>>
  BY DEF PipeTyped, Reads, Ready
<1>2. Tail(pipe[d]) \in Seq(Items)
  BY <1>1, EmptySeq, HeadTailProperties
<1> QED
  BY <1>2 DEF PipeTyped, Reads

\* The first response changes its kind: nobody sees which turn it has from it.
LEMMA RekindTyped ==
    ASSUME PipeTyped, NEW d \in Devices, NEW k \in DOMAIN pipe[d], NEW kind \in Kinds,
           pipe' = [pipe EXCEPT ![d][k].kind = kind]
    PROVE  PipeTyped'
<1>1. pipe[d] \in Seq(Items)
  BY DEF PipeTyped
<1>2. pipe[d][k] \in Items
  BY <1>1, ElementOfSeq, LenProperties
<1> DEFINE item == [pipe[d][k] EXCEPT !.kind = kind]
<1>3. item \in Items
  BY <1>2 DEF Items
<1>4. k \in 1..Len(pipe[d])
  BY <1>1, LenProperties
<1> HIDE DEF item
<1>5. [pipe[d] EXCEPT ![k] = item] \in Seq(Items)
  BY <1>1, <1>3, <1>4, ExceptSeq
<1>6. pipe' = [pipe EXCEPT ![d] = [pipe[d] EXCEPT ![k] = item]]
  BY DEF item
<1> QED
  BY <1>5, <1>6 DEF PipeTyped

LEMMA FrontTyped == ASSUME PipeTyped, NEW d \in Devices, Ready(d) PROVE Front(d) \in Items /\ 1 \in DOMAIN pipe[d]
<1>1. pipe[d] \in Seq(Items) /\ pipe[d] # <<>>
  BY DEF PipeTyped, Ready
<1>2. Head(pipe[d]) \in Items /\ Len(pipe[d]) \in Nat \ {0}
  BY <1>1, EmptySeq, HeadTailProperties, LenProperties
<1>3. DOMAIN pipe[d] = 1..Len(pipe[d])
  BY <1>1, LenProperties
<1> QED
  BY <1>2, <1>3 DEF Front

LEMMA ReadFailsTyped == ASSUME PipeTyped, NEW d \in Devices, ReadFails(d) PROVE PipeTyped'
<1>1. CASE UNCHANGED pipe
  BY <1>1 DEF PipeTyped
<1>2. ASSUME Ready(d), NEW kind \in {"tail", "empty"}, pipe' = [pipe EXCEPT ![d][1].kind = kind]
      PROVE  PipeTyped'
  BY <1>2, FrontTyped, RekindTyped DEF Kinds
<1> QED
  BY <1>1, <1>2 DEF ReadFails

LEMMA WritesTyped ==
    ASSUME PipeTyped, NEW d \in Devices, NEW n \in Nat, Writes(d, n) PROVE PipeTyped'
<1>1. pipe[d] \in Seq(Items)
  BY DEF PipeTyped
<1>2. Item(n, "asked") \in Items
  BY DEF Item, Items, Kinds
<1>3. Append(pipe[d], Item(n, "asked")) \in Seq(Items)
  BY <1>1, <1>2, AppendProperties
<1> QED
  BY <1>3 DEF PipeTyped, Writes

LEMMA ServesTyped == ASSUME PipeTyped, NEW d \in Devices, DeviceServes(d) PROVE PipeTyped'
<1>1. PICK k \in DOMAIN pipe[d] :
            \/ pipe' = [pipe EXCEPT ![d][k].kind =
                            IF pipe[d][k].turn = 0 THEN "status" ELSE "short"]
            \/ pipe' = [pipe EXCEPT ![d] =
                            SubSeq(pipe[d], 1, k - 1) \o SubSeq(pipe[d], k + 1, Len(pipe[d]))]
  BY DEF DeviceServes
<1>2. pipe[d] \in Seq(Items) /\ DOMAIN pipe[d] = 1..Len(pipe[d]) /\ Len(pipe[d]) \in Nat
  BY LenProperties DEF PipeTyped
<1>3. CASE pipe' = [pipe EXCEPT ![d][k].kind =
                            IF pipe[d][k].turn = 0 THEN "status" ELSE "short"]
  <2>1. (IF pipe[d][k].turn = 0 THEN "status" ELSE "short") \in Kinds
    BY DEF Kinds, Answers
  <2> QED
    BY <1>3, <2>1, RekindTyped
<1>4. CASE pipe' = [pipe EXCEPT ![d] =
                            SubSeq(pipe[d], 1, k - 1) \o SubSeq(pipe[d], k + 1, Len(pipe[d]))]
  <2>1. SubSeq(pipe[d], 1, k - 1) \in Seq(Items)
    BY <1>2
  <2>2. SubSeq(pipe[d], k + 1, Len(pipe[d])) \in Seq(Items)
    BY <1>2
  <2>3. SubSeq(pipe[d], 1, k - 1) \o SubSeq(pipe[d], k + 1, Len(pipe[d])) \in Seq(Items)
    BY <2>1, <2>2, ConcatProperties
  <2> QED
    BY <1>4, <2>3 DEF PipeTyped
<1> QED
  BY <1>1, <1>3, <1>4

-----------------------------------------------------------------------------
(* The constructor's steps.                                                *)

HistTyped ==
    hist \in [upset : BOOLEAN, stuck : SUBSET Devices, failed : SUBSET Devices, crashed : BOOLEAN]

ScanTyped ==
    /\ stage \in {"scan", "ready", "failed", "closed"}
    /\ step \in {"open", "claim", "ask", "read", "close"}
    /\ probe \in Nat /\ attempts \in Nat
    /\ target \in Targets /\ scratch \in Int
    /\ handle \in [Devices -> {"closed", "open", "claimed"}]
    /\ usb_handle \in Devices \cup {0}
    /\ stage = "ready" => usb_handle \in Devices /\ handle[usb_handle] = "claimed"

CallsTyped ==
    /\ comm_mutex \in BOOLEAN
    /\ pc \in [Threads -> {"idle", "waiting", "out", "in"}]
    /\ \A t \in Threads : pc[t] # "idle" => stage = "ready"
    /\ turns \in Nat /\ turn \in [Threads -> Nat]
    /\ last \in Nat /\ answer \in [Threads -> Nat \cup {Junk}]

LEMMA TypeParts == TypeOK <=> HistTyped /\ ScanTyped /\ CallsTyped /\ PipeTyped
BY DEF TypeOK, HistTyped, ScanTyped, CallsTyped, PipeTyped, Items

LEMMA TypePartsNext == TypeOK' <=> HistTyped' /\ ScanTyped' /\ CallsTyped' /\ PipeTyped'
BY DEF TypeOK, HistTyped, ScanTyped, CallsTyped, PipeTyped, Items

\* What a step leaves alone keeps its type.
LEMMA CallVarsTyped ==
    ASSUME CallsTyped, UNCHANGED callVars,
           stage = "ready" => stage' = "ready" \/ \A t \in Threads : pc[t] = "idle"
    PROVE  CallsTyped'
BY DEF CallsTyped, callVars

\* Devices are found to fail.
LEMMA FailTyped ==
    ASSUME HistTyped, NEW ds \in SUBSET Devices, Fail(ds)
    PROVE  /\ HistTyped' /\ hist'.failed = hist.failed \cup ds
           /\ hist'.stuck = hist.stuck /\ hist'.upset = hist.upset
BY DEF HistTyped, Fail

\* The search goes on with the next device: one that fits has failed.
LEMMA NextKeepsFits ==
    ASSUME NoFitPassedOver, stage = "scan", stage' = "scan", probe \in Devices,
           probe' = probe + 1, UNCHANGED target, hist.failed \subseteq hist'.failed,
           Fits(probe) => probe \in hist'.failed
    PROVE  NoFitPassedOver'
<1>1. Devices \subseteq Nat
  BY DevicesAssumption, LenProperties DEF Devices
<1>2. \A d \in Devices : d < probe' => d < probe \/ d = probe
  BY <1>1
<1>3. \A d \in Devices : Fits(d)' => Fits(d)
  BY DEF Fits
<1> QED
  BY <1>2, <1>3 DEF NoFitPassedOver

\* A device is passed over or opened.
LEMMA OpenKeeps == ASSUME IInv, Open PROVE IInv'
<1>1. /\ HistTyped /\ ScanTyped /\ CallsTyped /\ PipeTyped /\ Scan /\ Closed
      /\ NoFitPassedOver
      /\ stage = "scan" /\ stage' = "scan" /\ step = "open" /\ probe \in Devices
      /\ UNCHANGED <<target, attempts, scratch, usb_handle, callVars, pipe>>
  BY TypeParts DEF IInv, Open, Scanning
<1>2. CASE NextDevice /\ Fail({probe}) /\ UNCHANGED handle
  <2>1. /\ HistTyped' /\ hist'.failed = hist.failed \cup {probe} /\ hist'.stuck = hist.stuck
        /\ probe' = probe + 1 /\ step' = "open"
    BY <1>1, <1>2, FailTyped DEF NextDevice
  <2>2. CallsTyped' /\ PipeTyped' /\ ScanTyped'
    BY <1>1, <1>2, <2>1, CallVarsTyped DEF PipeTyped, ScanTyped
  <2>3. Scan' /\ Closed'
    BY <1>1, <1>2, <2>1 DEF Scan, Closed
  <2>4. NoFitPassedOver'
    BY <1>1, <2>1, NextKeepsFits
  <2> QED
    BY <2>1, <2>2, <2>3, <2>4, TypePartsNext DEF IInv
<1>3. CASE handle' = [handle EXCEPT ![probe] = "open"] /\ step' = "claim" /\ UNCHANGED <<probe, hist>>
  <2>1. HistTyped' /\ CallsTyped' /\ PipeTyped' /\ ScanTyped'
    BY <1>1, <1>3, CallVarsTyped DEF PipeTyped, ScanTyped, HistTyped
  <2>2. Scan' /\ Closed' /\ NoFitPassedOver'
    BY <1>1, <1>3 DEF ScanTyped, Scan, Closed, NoFitPassedOver, Fits
  <2> QED
    BY <2>1, <2>2, TypePartsNext DEF IInv
<1> QED
  BY <1>2, <1>3 DEF Open

\* It is claimed, or closed and passed over.
LEMMA ClaimKeeps == ASSUME IInv, Claim PROVE IInv'
<1>1. /\ HistTyped /\ ScanTyped /\ CallsTyped /\ PipeTyped /\ Scan /\ Closed
      /\ NoFitPassedOver
      /\ stage = "scan" /\ stage' = "scan" /\ step = "claim" /\ probe \in Devices
      /\ UNCHANGED <<target, attempts, scratch, usb_handle, callVars, pipe>>
  BY TypeParts DEF IInv, Claim, Claims, Scanning, Claimed, PassesOver
<1>2. CASE Claimed
  <2>1. /\ handle' = [handle EXCEPT ![probe] = "claimed"] /\ step' = "ask"
        /\ UNCHANGED <<probe, hist>>
    BY <1>2 DEF Claimed
  <2>2. HistTyped' /\ CallsTyped' /\ PipeTyped' /\ ScanTyped'
    BY <1>1, <2>1, CallVarsTyped DEF PipeTyped, ScanTyped, HistTyped
  <2>3. Scan' /\ Closed' /\ NoFitPassedOver'
    BY <1>1, <2>1 DEF ScanTyped, Scan, Closed, NoFitPassedOver, Fits
  <2> QED
    BY <2>2, <2>3, TypePartsNext DEF IInv
<1>3. CASE Unclaimed("closed") /\ PassesOver
  <2>1. /\ HistTyped' /\ hist'.failed = hist.failed \cup {probe} /\ hist'.stuck = hist.stuck
        /\ handle' = [handle EXCEPT ![probe] = "closed"]
        /\ probe' = probe + 1 /\ step' = "open"
    BY <1>1, <1>3, FailTyped DEF Unclaimed, PassesOver, NextDevice
  <2>2. CallsTyped' /\ PipeTyped' /\ ScanTyped'
    BY <1>1, <2>1, CallVarsTyped DEF PipeTyped, ScanTyped
  <2>3. Scan' /\ Closed'
    BY <1>1, <2>1 DEF ScanTyped, Scan, Closed
  <2>4. NoFitPassedOver'
    BY <1>1, <2>1, NextKeepsFits
  <2> QED
    BY <2>1, <2>2, <2>3, <2>4, TypePartsNext DEF IInv
<1> QED
  BY <1>2, <1>3 DEF Claim, Claims

\* A claimed device is kept.
LEMMA KeepKeeps ==
    ASSUME IInv, stage = "scan", step \in {"ask", "read"}, Keep,
           PipeTyped', scratch' \in Int,
           UNCHANGED <<target, attempts, handle, callVars>>
    PROVE  IInv'
<1>1. /\ HistTyped /\ ScanTyped /\ CallsTyped /\ Scan /\ Closed /\ NoFitPassedOver
      /\ probe \in Devices /\ handle[probe] = "claimed"
      /\ stage' = "ready" /\ usb_handle' = probe /\ UNCHANGED <<probe, step>>
  BY TypeParts DEF IInv, Scan, Keep
<1>2. HistTyped' /\ hist'.stuck = hist.stuck /\ hist'.failed = hist.failed
  <2> DEFINE left == pipe'[probe] # <<>>
  <2>1. hist' = [hist EXCEPT !.upset = @ \/ left]
    BY DEF Keep
  <2>2. left \in BOOLEAN
    OBVIOUS
  <2> HIDE DEF left
  <2> QED
    BY <1>1, <2>1, <2>2 DEF HistTyped
<1>3. CallsTyped'
  BY <1>1, CallVarsTyped
<1>4. ScanTyped'
  BY <1>1 DEF ScanTyped
<1>5. Scan'
  BY <1>1 DEF Scan
<1>6. Closed'
  BY <1>1, <1>2 DEF Closed
<1>7. NoFitPassedOver'
  BY <1>1, <1>2 DEF NoFitPassedOver, Fits
<1> QED
  BY <1>2, <1>3, <1>4, <1>5, <1>6, <1>7, TypePartsNext DEF IInv

\* It is asked, ...
LEMMA AskedKeeps ==
    ASSUME IInv, stage = "scan", step = "ask", step' = "read", target >= 0, PipeTyped',
           UNCHANGED <<target, attempts, scratch, handle, callVars, probe, stage,
                       usb_handle, hist>>
    PROVE  IInv'
<1>1. HistTyped /\ ScanTyped /\ CallsTyped /\ Scan /\ Closed /\ NoFitPassedOver
  BY TypeParts DEF IInv
<1>2. HistTyped' /\ ScanTyped' /\ CallsTyped'
  BY <1>1, CallVarsTyped DEF HistTyped, ScanTyped
<1>3. Scan' /\ Closed' /\ NoFitPassedOver'
  BY <1>1 DEF Scan, Closed, NoFitPassedOver, Fits
<1> QED
  BY <1>2, <1>3, TypePartsNext DEF IInv

\* ... or dropped: it failed, or has another serial number.
LEMMA DropKeeps ==
    ASSUME IInv, stage = "scan", step \in {"ask", "read"}, Drop,
           NEW ds \in SUBSET {probe}, Fail(ds), Fits(probe) => probe \in ds,
           PipeTyped', scratch' \in Int,
           UNCHANGED <<target, attempts, handle, callVars>>
    PROVE  IInv'
<1>1. /\ HistTyped /\ ScanTyped /\ CallsTyped /\ Scan /\ Closed /\ NoFitPassedOver
      /\ probe \in Devices /\ step' = "close" /\ UNCHANGED <<probe, stage, usb_handle>>
  BY TypeParts DEF IInv, Scan, Drop
<1>2. HistTyped' /\ hist'.failed = hist.failed \cup ds /\ hist'.stuck = hist.stuck
  BY <1>1, FailTyped
<1>3. ScanTyped' /\ CallsTyped'
  BY <1>1, CallVarsTyped DEF ScanTyped
<1>4. Scan'
  BY <1>1, <1>2 DEF Scan, Fits
<1>5. Closed' /\ NoFitPassedOver'
  BY <1>1, <1>2 DEF Closed, NoFitPassedOver, Fits
<1> QED
  BY <1>2, <1>3, <1>4, <1>5, TypePartsNext DEF IInv

LEMMA AskKeeps == ASSUME IInv, Ask PROVE IInv'
<1>1. /\ ScanTyped /\ PipeTyped /\ probe \in Devices /\ stage = "scan" /\ step = "ask"
      /\ UNCHANGED <<target, attempts, scratch, handle, callVars>>
  BY TypeParts DEF IInv, Ask, Scanning
<1>2. scratch' \in Int /\ target \in Int
  BY <1>1, DevicesAssumption DEF ScanTyped
<1>3. UNCHANGED pipe \/ Writes(probe, 0)
  BY DEF Ask
<1>4. PipeTyped'
  BY <1>1, <1>3, WritesTyped DEF PipeTyped
<1>5. CASE Keep
  BY <1>1, <1>2, <1>4, <1>5, KeepKeeps
<1>6. CASE target >= 0 /\ step' = "read" /\ UNCHANGED <<probe, stage, usb_handle, hist>>
  BY <1>1, <1>4, <1>6, AskedKeeps
<1>7. CASE Drop /\ Fail({probe})
  BY <1>1, <1>2, <1>4, <1>7, DropKeeps
<1> QED
  BY <1>2, <1>5, <1>6, <1>7 DEF Ask

LEMMA CheckSerialKeeps == ASSUME IInv, CheckSerial PROVE IInv'
<1>1. /\ ScanTyped /\ PipeTyped /\ probe \in Devices /\ stage = "scan" /\ step = "read"
      /\ target >= 0
      /\ UNCHANGED <<target, attempts, handle, callVars>>
  BY TypeParts DEF IInv, Scan, CheckSerial, Scanning
<1>0. target \in Int /\ scratch \in Int
  BY <1>1, DevicesAssumption DEF ScanTyped
<1>2. CASE Compare
  <2>1. PipeTyped' /\ Ready(probe)
    BY <1>1, <1>2, ReadsTyped DEF Compare, Reads
  <2>2. SerialOf[probe] \in Int
    <3>1. SerialOf \in Seq(Nat) /\ probe \in 1..Len(SerialOf)
      BY <1>1, DevicesAssumption, LenProperties DEF Devices
    <3> QED
      BY <3>1, ElementOfSeq
  <2>3. scratch' \in Int /\ (Front(probe).kind = "status" => scratch' = SerialOf[probe])
    BY <1>0, <1>2, <2>2 DEF Compare, Garbled
  <2>4. CASE Keep
    BY <1>1, <2>1, <2>3, <2>4, KeepKeeps
  <2>5. CASE scratch' # target /\ Drop
             /\ Fail(IF Front(probe).kind = "status" THEN {} ELSE {probe})
    <3> DEFINE ds == IF Front(probe).kind = "status" THEN {} ELSE {probe}
    <3>1. Fits(probe) => probe \in ds
      BY <1>0, <1>1, <2>3, <2>5 DEF Fits
    <3>2. ds \in SUBSET {probe} /\ Fail(ds)
      BY <2>5
    <3> HIDE DEF ds
    <3> QED
      BY <1>1, <2>1, <2>3, <2>5, <3>1, <3>2, DropKeeps
  <2> QED
    BY <1>2, <2>4, <2>5 DEF Compare
<1>3. CASE /\ ReadFails(probe) \/ Overflow
           /\ scratch' \in IF Ready(probe) THEN Garbled ELSE {scratch}
           /\ Drop /\ Fail({probe})
  <2>1. PipeTyped'
    <3>1. CASE ReadFails(probe)
      BY <1>1, <3>1, ReadFailsTyped
    <3>2. CASE Overflow
      BY <1>1, <3>2, FrontTyped, RekindTyped DEF Overflow, Kinds
    <3> QED
      BY <1>3, <3>1, <3>2
  <2>2. scratch' \in Int
    BY <1>0, <1>3 DEF Garbled
  <2> QED
    BY <1>1, <1>3, <2>1, <2>2, DropKeeps
<1> QED
  BY <1>2, <1>3 DEF CheckSerial

\* Closing a device, or remembering that it could not be released.
LEMMA ReleaseClosed ==
    ASSUME HistTyped, handle \in [Devices -> {"closed", "open", "claimed"}], NEW d \in Devices,
           \/ handle' = [handle EXCEPT ![d] = "closed"] /\ UNCHANGED hist
           \/ UNCHANGED handle /\ hist' = [hist EXCEPT !.stuck = @ \cup {d}]
    PROVE  /\ HistTyped' /\ handle' \in [Devices -> {"closed", "open", "claimed"}]
           /\ handle'[d] = "closed" \/ d \in hist'.stuck
           /\ \A e \in Devices : e # d => handle'[e] = handle[e]
           /\ hist.stuck \subseteq hist'.stuck /\ hist'.failed = hist.failed
<1>1. CASE handle' = [handle EXCEPT ![d] = "closed"] /\ UNCHANGED hist
  BY <1>1 DEF HistTyped
<1>2. CASE UNCHANGED handle /\ hist' = [hist EXCEPT !.stuck = @ \cup {d}]
  BY <1>2 DEF HistTyped
<1> QED
  BY <1>1, <1>2

LEMMA CloseKeeps == ASSUME IInv, Close PROVE IInv'
<1>1. /\ HistTyped /\ ScanTyped /\ CallsTyped /\ PipeTyped /\ Scan /\ Closed
      /\ NoFitPassedOver
      /\ stage = "scan" /\ stage' = "scan" /\ probe \in Devices
      /\ step = "close" /\ step' = "open" /\ probe' = probe + 1
      /\ UNCHANGED <<target, attempts, scratch, usb_handle, callVars, pipe>>
  BY TypeParts DEF IInv, Close, Scanning, NextDevice
<1>2. /\ HistTyped' /\ handle' \in [Devices -> {"closed", "open", "claimed"}]
      /\ handle'[probe] = "closed" \/ probe \in hist'.stuck
      /\ \A e \in Devices : e # probe => handle'[e] = handle[e]
      /\ hist.stuck \subseteq hist'.stuck /\ hist'.failed = hist.failed
  BY <1>1, ReleaseClosed DEF Close, ScanTyped
<1>3. PipeTyped' /\ CallsTyped'
  BY <1>1, CallVarsTyped DEF PipeTyped
<1>4. ScanTyped'
  BY <1>1, <1>2 DEF ScanTyped
<1>5. Scan'
  BY <1>1 DEF Scan
<1>6. Closed'
  BY <1>1, <1>2 DEF Closed
<1>7. NoFitPassedOver'
  BY <1>1, <1>2, NextKeepsFits DEF Scan
<1> QED
  BY <1>2, <1>3, <1>4, <1>5, <1>6, <1>7, TypePartsNext DEF IInv

\* The library failed and no device was looked at, or all of them were; the caller
\* tries again.
LEMMA ThrowKeeps == ASSUME IInv, NoneFound \/ InitFails PROVE IInv'
<1>1. /\ HistTyped /\ ScanTyped /\ CallsTyped /\ PipeTyped /\ Scan /\ Closed
      /\ NoFitPassedOver
      /\ stage = "scan" /\ stage' = "failed" /\ step = "open"
      /\ UNCHANGED <<target, probe, step, attempts, scratch, handle, usb_handle, callVars,
                     pipe>>
  BY TypeParts DEF IInv, NoneFound, InitFails, Throw
<1>2. PICK ds \in {{}, Devices} :
        Fail(ds) /\ (ds = Devices \/ probe = Len(SerialOf) + 1)
  BY DEF NoneFound, InitFails, Throw
<1>3. HistTyped' /\ hist'.failed = hist.failed \cup ds /\ hist'.stuck = hist.stuck
  BY <1>1, <1>2, FailTyped
<1>4. PipeTyped' /\ CallsTyped' /\ ScanTyped'
  BY <1>1, CallVarsTyped DEF PipeTyped, ScanTyped
<1>5. Scan' /\ Closed'
  BY <1>1, <1>3 DEF Scan, Closed
<1>6. NoFitPassedOver'
  <2>1. Devices = 1..Len(SerialOf) /\ Len(SerialOf) \in Nat
    BY DevicesAssumption, LenProperties DEF Devices
  <2>2. CASE ds = Devices
    BY <1>3, <2>2 DEF NoFitPassedOver
  <2>3. CASE probe = Len(SerialOf) + 1
    <3>1. \A d \in Devices : d < probe
      BY <2>1, <2>3
    <3> QED
      BY <1>1, <1>3, <3>1 DEF NoFitPassedOver, Fits
  <2> QED
    BY <1>2, <2>2, <2>3
<1> QED
  BY <1>3, <1>4, <1>5, <1>6, TypePartsNext DEF IInv

LEMMA RetryKeeps == ASSUME IInv, Retry PROVE IInv'
<1>1. /\ HistTyped /\ ScanTyped /\ CallsTyped /\ PipeTyped /\ Scan /\ Closed
      /\ stage = "failed" /\ stage' = "scan" /\ step' = "open" /\ probe' = 1
      /\ attempts' = attempts + 1 /\ target' \in Targets /\ scratch' \in {0, target'}
      /\ hist' = [hist EXCEPT !.failed = {}]
      /\ UNCHANGED <<handle, usb_handle, callVars, pipe>>
  BY TypeParts DEF IInv, Retry
<1>2. HistTyped' /\ PipeTyped' /\ CallsTyped' /\ hist'.stuck = hist.stuck
  BY <1>1, CallVarsTyped DEF HistTyped, PipeTyped
<1>3. scratch' \in Int
  BY <1>1, DevicesAssumption
<1>4. ScanTyped'
  BY <1>1, <1>3 DEF ScanTyped
<1>5. Scan' /\ Closed'
  BY <1>1, <1>2 DEF Scan, Closed
<1>6. NoFitPassedOver'
  <2>1. \A d \in Devices : ~(d < 1)
    BY DevicesAssumption, LenProperties DEF Devices
  <2> QED
    BY <1>1, <2>1 DEF NoFitPassedOver
<1> QED
  BY <1>2, <1>4, <1>5, <1>6, TypePartsNext DEF IInv

\* The destructor gives back the device that was kept, if it can.
LEMMA DestroyKeeps == ASSUME IInv, Destroy PROVE IInv'
<1>1. /\ HistTyped /\ ScanTyped /\ CallsTyped /\ PipeTyped /\ Scan /\ Closed
      /\ NoFitPassedOver
      /\ stage = "ready" /\ stage' = "closed" /\ usb_handle \in Devices
      /\ UNCHANGED <<target, probe, step, attempts, scratch, usb_handle, callVars, pipe>>
  BY TypeParts DEF IInv, Destroy, ScanTyped
<1>2. /\ HistTyped' /\ handle' \in [Devices -> {"closed", "open", "claimed"}]
      /\ handle'[usb_handle] = "closed" \/ usb_handle \in hist'.stuck
      /\ \A e \in Devices : e # usb_handle => handle'[e] = handle[e]
      /\ hist.stuck \subseteq hist'.stuck /\ hist'.failed = hist.failed
  BY <1>1, ReleaseClosed DEF Destroy, ScanTyped
<1>3. \A t \in Threads : pc[t] = "idle"
  BY DEF Destroy, Busy
<1>4. PipeTyped' /\ CallsTyped'
  BY <1>1, <1>3, CallVarsTyped DEF PipeTyped
<1>5. ScanTyped'
  BY <1>1, <1>2 DEF ScanTyped
<1>6. Scan' /\ NoFitPassedOver'
  BY <1>1, <1>2 DEF Scan, NoFitPassedOver, Fits
<1>7. Closed'
  BY <1>1, <1>2 DEF Closed
<1> QED
  BY <1>2, <1>4, <1>5, <1>6, <1>7, TypePartsNext DEF IInv

-----------------------------------------------------------------------------
(* The steps of calls touch neither the devices' handles nor the constructor. *)

LEMMA CallKeeps ==
    ASSUME IInv, UNCHANGED scanVars, PipeTyped', CallsTyped', HistTyped',
           hist'.stuck = hist.stuck, hist'.failed = hist.failed
    PROVE  IInv'
<1>1. ScanTyped /\ Scan /\ Closed /\ NoFitPassedOver
  BY TypeParts DEF IInv
<1>2. ScanTyped' /\ Scan' /\ Closed' /\ NoFitPassedOver'
  BY <1>1 DEF ScanTyped, Scan, Closed, NoFitPassedOver, Fits, scanVars
<1> QED
  BY <1>2, TypePartsNext DEF IInv

\* A call begins, or gets the mutex.
LEMMA EnterKeeps == ASSUME IInv, NEW t \in Threads, Enter(t) \/ Lock(t) PROVE IInv'
<1>1. HistTyped /\ CallsTyped /\ PipeTyped /\ UNCHANGED <<scanVars, pipe, hist>>
  BY TypeParts DEF IInv, Enter, Lock, Locks
<1>2. CallsTyped'
  <2>1. CASE Enter(t)
    BY <1>1, <2>1 DEF CallsTyped, Enter, scanVars, NoAnswer
  <2>2. CASE Lock(t)
    BY <1>1, <2>2 DEF CallsTyped, Lock, Locks, scanVars
  <2> QED
    BY <2>1, <2>2
<1>3. PipeTyped' /\ HistTyped'
  BY <1>1 DEF PipeTyped, HistTyped
<1> QED
  BY <1>1, <1>2, <1>3, CallKeeps

\* A call ends.
LEMMA LeaveTyped ==
    ASSUME CallsTyped, NEW t \in Threads, NEW r \in Nat \cup {Junk}, Leave(t, r), last' \in Nat
    PROVE  CallsTyped'
BY DEF CallsTyped, Leave, scanVars

\* The request is written and the response read, or not.
LEMMA ProceedKeeps == ASSUME IInv, NEW t \in Threads, Proceed(t) PROVE IInv'
<1>1. /\ HistTyped /\ ScanTyped /\ CallsTyped /\ PipeTyped /\ UNCHANGED scanVars
  BY TypeParts
     DEF IInv, Proceed, Send, SendFails, Receive, ReceiveStray, ReceiveFails, Leave
<1>2. pc[t] # "idle" /\ turn[t] \in Nat /\ last \in Nat
  BY <1>1 DEF CallsTyped, Proceed, Send, SendFails, Receive, ReceiveStray, ReceiveFails
<1>0. usb_handle \in Devices
  BY <1>1, <1>2 DEF ScanTyped, CallsTyped
<1>3. CASE Send(t)
  <2>1. PipeTyped'
    BY <1>0, <1>1, <1>2, <1>3, WritesTyped DEF Send
  <2>2. CallsTyped' /\ HistTyped'
    BY <1>1, <1>3 DEF CallsTyped, HistTyped, Send, scanVars
  <2> QED
    BY <1>1, <1>3, <2>1, <2>2, CallKeeps DEF Send
<1>4. CASE SendFails(t)
  <2>1. PipeTyped'
    BY <1>0, <1>1, <1>2, <1>4, WritesTyped DEF SendFails, PipeTyped
  <2>2. CallsTyped'
    BY <1>1, <1>2, <1>4, LeaveTyped DEF SendFails, NoAnswer
  <2>3. HistTyped' /\ hist'.stuck = hist.stuck /\ hist'.failed = hist.failed
    BY <1>1, <1>4 DEF SendFails, HistTyped
  <2> QED
    BY <1>1, <2>1, <2>2, <2>3, CallKeeps
<1>5. CASE Receive(t)
  <2>1. PipeTyped'
    BY <1>0, <1>1, <1>5, ReadsTyped DEF Receive
  <2>2. Front(usb_handle).turn \in Nat
    BY <1>0, <1>1, <1>5, FrontTyped DEF Receive, Reads, Items
  <2>3. CallsTyped' /\ HistTyped'
    BY <1>1, <1>5, <2>2, LeaveTyped DEF Receive, HistTyped
  <2> QED
    BY <1>1, <1>5, <2>1, <2>3, CallKeeps DEF Receive
<1>6. CASE ReceiveStray(t)
  <2>1. PipeTyped'
    BY <1>0, <1>1, <1>6, ReadsTyped DEF ReceiveStray
  <2>2. CallsTyped'
    BY <1>1, <1>2, <1>6, LeaveTyped DEF ReceiveStray, NoAnswer
  <2>3. HistTyped' /\ hist'.stuck = hist.stuck /\ hist'.failed = hist.failed
    BY <1>1, <1>6 DEF ReceiveStray, HistTyped
  <2> QED
    BY <1>1, <2>1, <2>2, <2>3, CallKeeps
<1>7. CASE ReceiveFails(t)
  <2>1. PipeTyped'
    BY <1>0, <1>1, <1>7, ReadFailsTyped DEF ReceiveFails
  <2>2. CallsTyped'
    BY <1>1, <1>2, <1>7, LeaveTyped DEF ReceiveFails, NoAnswer
  <2>3. HistTyped' /\ hist'.stuck = hist.stuck /\ hist'.failed = hist.failed
    BY <1>1, <1>7 DEF ReceiveFails, HistTyped
  <2> QED
    BY <1>1, <2>1, <2>2, <2>3, CallKeeps
<1> QED
  BY <1>3, <1>4, <1>5, <1>6, <1>7 DEF Proceed

LEMMA ServesKeeps == ASSUME IInv, NEW d \in Devices, DeviceServes(d) PROVE IInv'
<1>1. HistTyped /\ CallsTyped /\ PipeTyped /\ UNCHANGED <<scanVars, callVars, hist>>
  BY TypeParts DEF IInv, DeviceServes
<1>2. PipeTyped'
  BY <1>1, ServesTyped
<1>3. CallsTyped' /\ HistTyped'
  BY <1>1, CallVarsTyped DEF HistTyped, scanVars
<1> QED
  BY <1>1, <1>2, <1>3, CallKeeps

-----------------------------------------------------------------------------
(* The theorems.                                                           *)

LEMMA InitHolds == ASSUME Init PROVE IInv
<1>1. PICK old \in Leftovers :
        pipe = [d \in Devices |-> [k \in DOMAIN old[d] |-> Item(0, old[d][k])]]
  BY DEF Init
<1>2. ASSUME NEW d \in Devices PROVE pipe[d] \in Seq(Items)
  <2>1. old[d] \in Seq(Answers)
    BY <1>1, LeftoversAssumption
  <2>2. DOMAIN old[d] = 1..Len(old[d]) /\ Len(old[d]) \in Nat
    BY <2>1, LenProperties
  <2>3. \A k \in 1..Len(old[d]) : Item(0, old[d][k]) \in Items
    BY <2>1, ElementOfSeq DEF Item, Items, Kinds
  <2>4. [k \in 1..Len(old[d]) |-> Item(0, old[d][k])] \in Seq(Items)
    BY <2>2, <2>3, IsASeq
  <2> QED
    BY <1>1, <2>2, <2>4
<1>3. PipeTyped
  BY <1>1, <1>2 DEF PipeTyped
<1>4. target \in Int /\ scratch \in Int
  BY DevicesAssumption DEF Init
<1>5. TypeOK
  BY <1>3, <1>4 DEF Init, TypeOK, PipeTyped, Items, NoAnswer
<1>6. NoFitPassedOver
  <2>1. \A d \in Devices : ~(d < 1)
    BY DevicesAssumption, LenProperties DEF Devices
  <2> QED
    BY <2>1 DEF Init, NoFitPassedOver
<1> QED
  BY <1>5, <1>6 DEF IInv, Init, Scan, Closed

LEMMA NextKeeps == ASSUME IInv, [Next]_vars PROVE IInv'
<1>1. CASE Open
  BY <1>1, OpenKeeps
<1>2. CASE Claim
  BY <1>2, ClaimKeeps
<1>3. CASE Ask
  BY <1>3, AskKeeps
<1>4. CASE CheckSerial
  BY <1>4, CheckSerialKeeps
<1>5. CASE Close
  BY <1>5, CloseKeeps
<1>6. CASE NoneFound \/ InitFails
  BY <1>6, ThrowKeeps
<1>7. CASE Retry
  BY <1>7, RetryKeeps
<1>8. CASE Destroy
  BY <1>8, DestroyKeeps
<1>9. ASSUME NEW t \in Threads, Enter(t) \/ Lock(t) PROVE IInv'
  BY <1>9, EnterKeeps
<1>10. ASSUME NEW t \in Threads, Proceed(t) PROVE IInv'
  BY <1>10, ProceedKeeps
<1>11. ASSUME NEW d \in Devices, DeviceServes(d) PROVE IInv'
  BY <1>11, ServesKeeps
<1>12. CASE UNCHANGED vars
  <2>1. HistTyped /\ ScanTyped /\ CallsTyped /\ PipeTyped /\ UNCHANGED <<scanVars, callVars, pipe, hist>>
    BY <1>12, TypeParts DEF IInv, vars
  <2>2. CallsTyped'
    BY <2>1, CallVarsTyped DEF scanVars
  <2>3. PipeTyped' /\ HistTyped'
    BY <2>1 DEF PipeTyped, HistTyped
  <2> QED
    BY <2>1, <2>2, <2>3, CallKeeps
<1> QED
  BY <1>1, <1>2, <1>3, <1>4, <1>5, <1>6, <1>7, <1>8, <1>9, <1>10, <1>11, <1>12
     DEF Next, Construct, Done

LEMMA Invariance == Spec => []IInv
<1>1. Init => IInv
  BY InitHolds
<1>2. IInv /\ [Next]_vars => IInv'
  BY NextKeeps
<1> QED
  BY <1>1, <1>2, PTL DEF Spec

\* Every variable keeps its type, and a call always has a device to talk to:
\* usb_handle is claimed while there are calls.
THEOREM TypeCorrect == Spec => []TypeOK
<1>1. IInv => TypeOK
  BY DEF IInv
<1> QED
  BY <1>1, Invariance, PTL

\* The constructor keeps the first detector that fits, and gives up only when there
\* is none, but for those that failed themselves, whichever of the others, however
\* many, failed in what step, now or in earlier attempts.
THEOREM FirstFitKept == Spec => []NoFitPassedOver
<1>1. IInv => NoFitPassedOver
  BY DEF IInv
<1> QED
  BY <1>1, Invariance, PTL

\* No device stays open but the one kept and those that could not be released.
THEOREM OthersAreClosed == Spec => []OthersClosed
<1>1. IInv => OthersClosed
  BY DEF IInv, Closed, OthersClosed
<1> QED
  BY <1>1, Invariance, PTL
-----------------------------------------------------------------------------
(* The exchanges: one call at a time has the mutex, what is in the endpoint *)
(* of the device kept is newer than what was returned and in the order of   *)
(* the turns, and until something goes wrong it is at most the response to  *)
(* the call in progress.                                                    *)

InCall(t) == pc[t] \in {"out", "in"}

Mutex ==
    /\ \A t \in Threads : InCall(t) => comm_mutex /\ turn[t] = turns /\ last < turns
    /\ \A t, u \in Threads : InCall(t) /\ InCall(u) => t = u
    /\ \A t \in Threads : pc[t] # "idle" => answer[t] = NoAnswer

\* The turns of the requests and responses in s are in order, and after `from`.
Ordered(s, from, to) ==
    \A k \in 1..Len(s) :
        /\ s[k].turn <= to
        /\ s[k].turn > 0 => from < s[k].turn
        /\ \A j \in 1..Len(s) : j < k /\ s[k].turn > 0 => s[j].turn < s[k].turn

Foreign(s) == \A k \in 1..Len(s) : s[k].turn = 0
Before(s, n) == \A k \in 1..Len(s) : s[k].turn < n

Order ==
    /\ last <= turns
    /\ stage \in {"scan", "failed"} => turns = 0
    /\ \A d \in Devices : Ordered(pipe[d], last, turns)
    /\ \A d \in Devices : d # usb_handle => Foreign(pipe[d])
    /\ \A t \in Threads : pc[t] = "out" => Before(pipe[usb_handle], turns)

InStep ==
    ~hist.upset /\ stage = "ready" =>
        /\ Len(pipe[usb_handle]) <= 1
        /\ pipe[usb_handle] # <<>> =>
                (\E t \in Threads : pc[t] = "in") /\ pipe[usb_handle][1].turn = turns

Exchange == Mutex /\ Order /\ InStep /\ InStepUntilUpset

\* u is s without some of its items, whatever the kinds of the others.
Thinned(u, s) ==
    /\ Len(u) <= Len(s)
    /\ \E f \in [1..Len(u) -> 1..Len(s)] :
        /\ \A i, j \in 1..Len(u) : i < j => f[i] < f[j]
        /\ \A i \in 1..Len(u) : u[i].turn = s[f[i]].turn

Thins == \A d \in Devices : Thinned(pipe'[d], pipe[d])

LEMMA TurnTyped == ASSUME NEW s \in Seq(Items) PROVE \A i \in 1..Len(s) : s[i].turn \in Nat
<1>1. \A i \in 1..Len(s) : s[i] \in Items
  BY ElementOfSeq
<1> QED
  BY <1>1 DEF Items

LEMMA ThinnedOrdered ==
    ASSUME NEW s \in Seq(Items), NEW u \in Seq(Items), Thinned(u, s),
           NEW from \in Nat, NEW to \in Nat
    PROVE  /\ Ordered(s, from, to) => Ordered(u, from, to)
           /\ Foreign(s) => Foreign(u)
           /\ Before(s, to) => Before(u, to)
<1>1. PICK f \in [1..Len(u) -> 1..Len(s)] :
            /\ \A i, j \in 1..Len(u) : i < j => f[i] < f[j]
            /\ \A i \in 1..Len(u) : u[i].turn = s[f[i]].turn
  BY DEF Thinned
<1>2. Foreign(s) => Foreign(u)
  BY <1>1 DEF Foreign
<1>3. Before(s, to) => Before(u, to)
  BY <1>1 DEF Before
<1>4. ASSUME Ordered(s, from, to), NEW k \in 1..Len(u)
      PROVE  /\ u[k].turn <= to
             /\ u[k].turn > 0 => from < u[k].turn
             /\ \A j \in 1..Len(u) : j < k /\ u[k].turn > 0 => u[j].turn < u[k].turn
  <2>1. f[k] \in 1..Len(s) /\ u[k].turn = s[f[k]].turn
    BY <1>1, <1>4
  <2>2. ASSUME NEW j \in 1..Len(u), j < k, u[k].turn > 0 PROVE u[j].turn < u[k].turn
    <3>1. f[j] \in 1..Len(s) /\ u[j].turn = s[f[j]].turn /\ f[j] < f[k]
      BY <1>1, <2>2
    <3> QED
      BY <1>4, <2>1, <2>2, <3>1 DEF Ordered
  <2> QED
    BY <1>4, <2>1, <2>2 DEF Ordered
<1> QED
  BY <1>2, <1>3, <1>4 DEF Ordered

LEMMA SameThinned == ASSUME NEW s \in Seq(Items) PROVE Thinned(s, s)
<1> DEFINE f == [i \in 1..Len(s) |-> i]
<1>1. f \in [1..Len(s) -> 1..Len(s)] /\ Len(s) \in Nat
  OBVIOUS
<1>2. \A i, j \in 1..Len(s) : i < j => f[i] < f[j]
  OBVIOUS
<1>3. \A i \in 1..Len(s) : s[i].turn = s[f[i]].turn
  OBVIOUS
<1> HIDE DEF f
<1> QED
  BY <1>1, <1>2, <1>3 DEF Thinned

LEMMA TailThinned ==
    ASSUME NEW s \in Seq(Items), s # <<>>
    PROVE  /\ Thinned(Tail(s), s) /\ Len(Tail(s)) = Len(s) - 1
           /\ \A i \in 1..Len(s) - 1 : Tail(s)[i] = s[i + 1]
<1>1. Len(s) \in Nat /\ Len(s) > 0
  BY EmptySeq, LenProperties
<1>2. Len(Tail(s)) = Len(s) - 1 /\ \A i \in 1..Len(s) - 1 : Tail(s)[i] = s[i + 1]
  BY <1>1, HeadTailProperties
<1> DEFINE f == [i \in 1..Len(Tail(s)) |-> i + 1]
<1>3. f \in [1..Len(Tail(s)) -> 1..Len(s)]
  BY <1>1, <1>2
<1>4. \A i, j \in 1..Len(Tail(s)) : i < j => f[i] < f[j]
  BY <1>1, <1>2
<1>5. \A i \in 1..Len(Tail(s)) : Tail(s)[i].turn = s[f[i]].turn
  BY <1>1, <1>2
<1> HIDE DEF f
<1> QED
  BY <1>1, <1>2, <1>3, <1>4, <1>5 DEF Thinned

LEMMA RekindThinned ==
    ASSUME NEW s \in Seq(Items), NEW k \in 1..Len(s), NEW kind
    PROVE  Thinned([s EXCEPT ![k].kind = kind], s)
<1> DEFINE u == [s EXCEPT ![k].kind = kind]
           f == [i \in 1..Len(s) |-> i]
<1>1. Len(s) \in Nat /\ DOMAIN s = 1..Len(s)
  BY LenProperties
<1>2. Len(u) = Len(s)
  BY <1>1
<1>3. \A i \in 1..Len(s) : u[i].turn = s[i].turn
  <2>1. \A i \in 1..Len(s) : s[i] \in Items
    BY ElementOfSeq
  <2> QED
    BY <1>1, <2>1 DEF Items
<1>4. f \in [1..Len(s) -> 1..Len(s)] /\ (\A i, j \in 1..Len(s) : i < j => f[i] < f[j])
      /\ \A i \in 1..Len(s) : f[i] = i
  OBVIOUS
<1> HIDE DEF u, f
<1>5. Thinned(u, s)
  BY <1>1, <1>2, <1>3, <1>4 DEF Thinned
<1> QED
  BY <1>5 DEF u

LEMMA RemoveThinned ==
    ASSUME NEW s \in Seq(Items), NEW k \in 1..Len(s)
    PROVE  Thinned(SubSeq(s, 1, k - 1) \o SubSeq(s, k + 1, Len(s)), s)
<1> DEFINE a == SubSeq(s, 1, k - 1)
           b == SubSeq(s, k + 1, Len(s))
           u == a \o b
           f == [i \in 1..Len(s) - 1 |-> IF i < k THEN i ELSE i + 1]
<1>1. Len(s) \in Nat /\ k \in Nat /\ 1 <= k /\ k <= Len(s)
  BY LenProperties
<1>2. a \in Seq(Items) /\ Len(a) = k - 1 /\ \A i \in 1..k - 1 : a[i] = s[i]
  BY <1>1
<1>3. b \in Seq(Items) /\ Len(b) = Len(s) - k /\ \A i \in 1..Len(s) - k : b[i] = s[k + i]
  BY <1>1
<1> HIDE DEF a, b
<1>4. Len(u) = Len(s) - 1
  <2>1. Len(u) = Len(a) + Len(b)
    BY <1>2, <1>3, ConcatProperties
  <2> HIDE DEF u
  <2> QED
    BY <1>1, <1>2, <1>3, <2>1
<1>5. \A i \in 1..Len(s) - 1 : u[i] = IF i < k THEN s[i] ELSE s[i + 1]
  <2> SUFFICES ASSUME NEW i \in 1..Len(s) - 1
               PROVE  u[i] = IF i < k THEN s[i] ELSE s[i + 1]
    OBVIOUS
  <2>1. u[i] = IF i <= Len(a) THEN a[i] ELSE b[i - Len(a)]
    BY <1>1, <1>2, <1>3, ConcatProperties
  <2>2. CASE i < k
    BY <1>1, <1>2, <2>1, <2>2
  <2>3. CASE ~(i < k)
    <3>1. i - Len(a) \in 1..Len(s) - k /\ k + (i - Len(a)) = i + 1
      BY <1>1, <1>2, <2>3
    <3> QED
      BY <1>1, <1>2, <1>3, <2>1, <2>3, <3>1
  <2> QED
    BY <2>2, <2>3
<1> HIDE DEF u
<1>6. f \in [1..Len(u) -> 1..Len(s)]
  BY <1>1, <1>4
<1>7. \A i, j \in 1..Len(u) : i < j => f[i] < f[j]
  BY <1>1, <1>4
<1>8. \A i \in 1..Len(u) : u[i].turn = s[f[i]].turn
  BY <1>1, <1>4, <1>5
<1> HIDE DEF f
<1>9. Len(u) <= Len(s)
  BY <1>1, <1>4
<1>10. \E g \in [1..Len(u) -> 1..Len(s)] :
        /\ \A i, j \in 1..Len(u) : i < j => g[i] < g[j]
        /\ \A i \in 1..Len(u) : u[i].turn = s[g[i]].turn
  BY <1>6, <1>7, <1>8
<1>11. Thinned(u, s)
  BY <1>9, <1>10 DEF Thinned
<1> QED
  BY <1>11 DEF u, a, b
LEMMA WritesOrdered ==
    ASSUME NEW s \in Seq(Items), NEW from \in Nat, NEW to \in Nat, NEW n \in Nat,
           Ordered(s, from, to), n <= to, n > 0 => from < n /\ Before(s, n)
    PROVE  /\ Ordered(Append(s, Item(n, "asked")), from, to)
           /\ Foreign(s) /\ n = 0 => Foreign(Append(s, Item(n, "asked")))
<1> DEFINE u == Append(s, Item(n, "asked"))
<1>1. Len(s) \in Nat /\ Len(u) = Len(s) + 1 /\ u[Len(s) + 1].turn = n
      /\ \A i \in 1..Len(s) : u[i] = s[i]
  BY AppendProperties, LenProperties DEF Item, Items, Kinds
<1>2. \A i \in 1..Len(s) : s[i].turn \in Nat
  BY TurnTyped
<1> HIDE DEF u
<1>3. Ordered(u, from, to)
  <2> SUFFICES ASSUME NEW k \in 1..Len(s) + 1
               PROVE  /\ u[k].turn <= to
                      /\ u[k].turn > 0 => from < u[k].turn
                      /\ \A j \in 1..Len(s) + 1 :
                            j < k /\ u[k].turn > 0 => u[j].turn < u[k].turn
    BY <1>1 DEF Ordered
  <2>1. CASE k \in 1..Len(s)
    <3>1. u[k] = s[k] /\ \A j \in 1..Len(s) + 1 : j < k => j \in 1..Len(s) /\ u[j] = s[j]
      BY <1>1, <2>1
    <3> QED
      BY <2>1, <3>1 DEF Ordered
  <2>2. CASE k = Len(s) + 1
    <3>1. u[k].turn = n /\ \A j \in 1..Len(s) + 1 : j < k => j \in 1..Len(s) /\ u[j] = s[j]
      BY <1>1, <2>2
    <3> QED
      BY <2>2, <3>1 DEF Before
  <2> QED
    BY <1>1, <2>1, <2>2
<1>4. Foreign(s) /\ n = 0 => Foreign(u)
  <2>1. \A k \in 1..Len(s) + 1 : k \in 1..Len(s) \/ k = Len(s) + 1
    BY <1>1
  <2> QED
    BY <1>1, <2>1 DEF Foreign
<1> QED
  BY <1>3, <1>4 DEF u

\* Reads, failed reads and the detectors take items out of the endpoints.
LEMMA UnchangedThins == ASSUME PipeTyped, UNCHANGED pipe PROVE Thins
BY SameThinned DEF PipeTyped, Thins

LEMMA OneThins ==
    ASSUME PipeTyped, NEW d \in Devices, NEW u, Thinned(u, pipe[d]), pipe' = [pipe EXCEPT ![d] = u]
    PROVE  Thins
<1>1. \A e \in Devices : pipe[e] \in Seq(Items) /\ pipe'[e] = IF e = d THEN u ELSE pipe[e]
  BY DEF PipeTyped
<1> QED
  BY <1>1, SameThinned DEF Thins

LEMMA ReadsThins ==
    ASSUME PipeTyped, NEW d \in Devices, Reads(d)
    PROVE  /\ Thins /\ pipe[d] \in Seq(Items) /\ pipe[d] # <<>> /\ Front(d) = pipe[d][1]
           /\ pipe'[d] = Tail(pipe[d]) /\ \A e \in Devices : e # d => pipe'[e] = pipe[e]
<1>1. pipe[d] \in Seq(Items) /\ pipe[d] # <<>> /\ pipe' = [pipe EXCEPT ![d] = Tail(pipe[d])]
  BY DEF PipeTyped, Reads, Ready
<1>2. Thins
  BY <1>1, TailThinned, OneThins
<1>3. Front(d) = pipe[d][1]
  BY <1>1 DEF Front
<1> QED
  BY <1>1, <1>2, <1>3 DEF PipeTyped

LEMMA RekindThins ==
    ASSUME PipeTyped, NEW d \in Devices, NEW k \in DOMAIN pipe[d], NEW kind,
           pipe' = [pipe EXCEPT ![d][k].kind = kind]
    PROVE  Thins
<1>1. pipe[d] \in Seq(Items) /\ DOMAIN pipe[d] = 1..Len(pipe[d])
  BY LenProperties DEF PipeTyped
<1> DEFINE u == [pipe[d] EXCEPT ![k].kind = kind]
<1>2. Thinned(u, pipe[d])
  BY <1>1, RekindThinned
<1>3. pipe' = [pipe EXCEPT ![d] = u]
  OBVIOUS
<1> HIDE DEF u
<1> QED
  BY <1>2, <1>3, OneThins

LEMMA ReadFailsThins == ASSUME PipeTyped, NEW d \in Devices, ReadFails(d) PROVE Thins
<1>1. ASSUME Ready(d), NEW kind \in {"tail", "empty"}, pipe' = [pipe EXCEPT ![d][1].kind = kind]
      PROVE  Thins
  BY <1>1, FrontTyped, RekindThins
<1> QED
  BY <1>1, UnchangedThins DEF ReadFails

LEMMA ServesThins == ASSUME PipeTyped, NEW d \in Devices, DeviceServes(d) PROVE Thins
<1>1. PICK k \in DOMAIN pipe[d] :
            \/ pipe' = [pipe EXCEPT ![d][k].kind =
                            IF pipe[d][k].turn = 0 THEN "status" ELSE "short"]
            \/ pipe' = [pipe EXCEPT ![d] =
                            SubSeq(pipe[d], 1, k - 1) \o SubSeq(pipe[d], k + 1, Len(pipe[d]))]
  BY DEF DeviceServes
<1>2. pipe[d] \in Seq(Items) /\ k \in 1..Len(pipe[d])
  BY LenProperties DEF PipeTyped
<1>3. CASE pipe' = [pipe EXCEPT ![d][k].kind =
                            IF pipe[d][k].turn = 0 THEN "status" ELSE "short"]
  BY <1>3, RekindThins
<1>4. CASE pipe' = [pipe EXCEPT ![d] =
                            SubSeq(pipe[d], 1, k - 1) \o SubSeq(pipe[d], k + 1, Len(pipe[d]))]
  BY <1>2, <1>4, RemoveThinned, OneThins
<1> QED
  BY <1>1, <1>3, <1>4

\* While the constructor runs no call has had its turn: everything is foreign.
LEMMA ScanExchange ==
    ASSUME IInv, Exchange, stage \in {"scan", "failed"}, UNCHANGED callVars, PipeTyped',
           Thins \/ \E d \in Devices : Writes(d, 0),
           hist.upset => hist'.upset,
           stage' = "ready" /\ ~hist'.upset => pipe'[usb_handle'] = <<>>
    PROVE  Exchange'
<1>1. PipeTyped /\ CallsTyped /\ turns = 0 /\ last = 0
  BY TypeParts DEF IInv, Exchange, Order, CallsTyped
<1>2. \A t \in Threads : pc[t] = "idle" /\ pc'[t] = "idle"
  BY <1>1 DEF CallsTyped, callVars
<1>3. ASSUME NEW d \in Devices PROVE Foreign(pipe[d]) /\ Ordered(pipe[d], 0, 0)
  <2>1. Ordered(pipe[d], 0, 0)
    BY <1>1 DEF Exchange, Order
  <2>2. \A k \in 1..Len(pipe[d]) : pipe[d][k].turn \in Nat
    BY <1>1, TurnTyped DEF PipeTyped
  <2> QED
    BY <2>1, <2>2 DEF Ordered, Foreign
<1>4. ASSUME NEW d \in Devices PROVE Foreign(pipe'[d]) /\ Ordered(pipe'[d], 0, 0)
  <2>1. CASE Thins
    BY <1>1, <1>3, <2>1, ThinnedOrdered DEF Thins, PipeTyped
  <2>2. ASSUME NEW e \in Devices, Writes(e, 0) PROVE Foreign(pipe'[d]) /\ Ordered(pipe'[d], 0, 0)
    <3>1. pipe[e] \in Seq(Items)
          /\ pipe'[d] = IF d = e THEN Append(pipe[e], Item(0, "asked")) ELSE pipe[d]
      BY <1>1, <2>2 DEF Writes, PipeTyped
    <3> QED
      BY <1>3, <3>1, WritesOrdered
  <2> QED
    BY <2>1, <2>2
<1>5. Mutex'
  BY <1>2 DEF Mutex, InCall
<1>6. Order'
  BY <1>1, <1>2, <1>4 DEF Order, callVars
<1>7. InStep'
  <2> SUFFICES ASSUME stage' = "ready", ~hist'.upset PROVE InStep'
    BY DEF InStep
  <2>1. pipe'[usb_handle'] = <<>>
    OBVIOUS
  <2> QED
    BY <2>1 DEF InStep
<1>8. InStepUntilUpset'
  BY DEF Exchange, InStepUntilUpset, callVars
<1> QED
  BY <1>5, <1>6, <1>7, <1>8 DEF Exchange

\* Keeping a device is upset when there is something in its endpoint.
LEMMA KeepUpset ==
    ASSUME HistTyped, Keep
    PROVE  (hist.upset => hist'.upset) /\ (~hist'.upset => pipe'[usb_handle'] = <<>>)
<1> DEFINE left == pipe'[probe] # <<>>
<1>1. hist' = [hist EXCEPT !.upset = @ \/ left] /\ usb_handle' = probe
  BY DEF Keep
<1>2. left \in BOOLEAN
  OBVIOUS
<1> HIDE DEF left
<1>3. hist'.upset = (hist.upset \/ left)
  BY <1>1, <1>2 DEF HistTyped
<1> QED
  BY <1>1, <1>3 DEF left

LEMMA ConstructExchange ==
    ASSUME IInv, Exchange, IInv',
           Open \/ Claim \/ Ask \/ CheckSerial \/ Close \/ NoneFound \/ InitFails \/ Retry
    PROVE  Exchange'
<1>1. HistTyped /\ PipeTyped /\ PipeTyped'
  BY TypeParts, TypePartsNext DEF IInv
<1>2. CASE Open \/ Claim \/ NoneFound \/ InitFails \/ Retry
  <2>0. hist'.upset = hist.upset
    BY <1>1, <1>2 DEF HistTyped, Open, Claim, Claims, Claimed, Unclaimed, Fail, NoneFound,
                      InitFails, Throw, Retry
  <2>1. /\ stage \in {"scan", "failed"} /\ stage' # "ready" /\ UNCHANGED <<callVars, pipe>>
    BY <1>2 DEF Open, Claim, Claims, Claimed, PassesOver, NoneFound, InitFails, Throw,
                Retry, Scanning
  <2> QED
    BY <1>1, <2>0, <2>1, UnchangedThins, ScanExchange
<1>3. CASE Close
  <2>1. /\ stage = "scan" /\ stage' = "scan" /\ UNCHANGED <<callVars, pipe>>
        /\ probe \in Devices /\ hist'.upset = hist.upset
    BY <1>1, <1>3 DEF Close, Scanning, HistTyped
  <2> QED
    BY <1>1, <2>1, UnchangedThins, ScanExchange
<1>4. CASE Ask
  <2>1. /\ stage = "scan" /\ probe \in Devices /\ UNCHANGED callVars
        /\ UNCHANGED pipe \/ Writes(probe, 0)
        /\ Keep \/ (stage' = stage /\ hist'.upset = hist.upset)
    BY <1>1, <1>4 DEF Ask, Scanning, Drop, Fail, HistTyped
  <2>2. Thins \/ \E d \in Devices : Writes(d, 0)
    BY <1>1, <2>1, UnchangedThins
  <2> QED
    BY <1>1, <2>1, <2>2, KeepUpset, ScanExchange
<1>5. CASE CheckSerial
  <2>1. /\ stage = "scan" /\ probe \in Devices /\ UNCHANGED callVars
        /\ Compare \/ ReadFails(probe) \/ Overflow
        /\ Keep \/ (stage' = stage /\ hist'.upset = hist.upset)
    BY <1>1, <1>5 DEF CheckSerial, Scanning, Drop, Compare, Fail, HistTyped
  <2>2. Thins
    <3>1. CASE Overflow
      BY <1>1, <2>1, <3>1, FrontTyped, RekindThins DEF Overflow
    <3> QED
      BY <1>1, <2>1, <3>1, ReadsThins, ReadFailsThins DEF Compare
  <2> QED
    BY <1>1, <2>1, <2>2, KeepUpset, ScanExchange
<1> QED
  BY <1>2, <1>3, <1>4, <1>5

LEMMA DestroyExchange == ASSUME IInv, Exchange, Destroy PROVE Exchange'
<1>1. HistTyped /\ UNCHANGED <<callVars, pipe, usb_handle>> /\ stage' = "closed"
  BY TypeParts DEF IInv, Destroy
<1>2. hist'.upset = hist.upset
  BY <1>1 DEF Destroy, HistTyped
<1>3. Mutex' /\ InStep' /\ InStepUntilUpset'
  BY <1>1, <1>2 DEF Exchange, Mutex, InCall, InStep, InStepUntilUpset, callVars
<1>4. Order'
  BY <1>1 DEF Exchange, Order, callVars
<1> QED
  BY <1>3, <1>4 DEF Exchange
\* A call that ends, whatever it returns.
LEMMA LeaveExchange ==
    ASSUME IInv, Exchange, NEW t \in Threads, InCall(t), NEW r, Leave(t, r), PipeTyped',
           last' \in Nat, last' <= turns,
           Ordered(pipe'[usb_handle], last', turns),
           \A d \in Devices : d # usb_handle => pipe'[d] = pipe[d],
           ~hist'.upset => ~hist.upset /\ pipe'[usb_handle] = <<>> /\ r \in {NoAnswer, turn[t]}
    PROVE  Exchange'
<1>1. /\ ScanTyped /\ CallsTyped /\ UNCHANGED <<scanVars, turns, turn>>
      /\ pc' = [pc EXCEPT ![t] = "idle"] /\ answer' = [answer EXCEPT ![t] = r]
  BY TypeParts DEF IInv, Leave
<1>2. stage = "ready" /\ usb_handle \in Devices /\ UNCHANGED <<stage, usb_handle>>
  BY <1>1 DEF InCall, CallsTyped, ScanTyped, scanVars
<1>3. \A u \in Threads : ~InCall(u)' /\ (pc'[u] # "idle" => u # t /\ pc[u] = pc'[u])
  BY <1>1 DEF Exchange, Mutex, InCall, CallsTyped
<1>4. Mutex'
  <2>1. \A u \in Threads : pc'[u] # "idle" => answer'[u] = NoAnswer
    BY <1>1, <1>3 DEF Exchange, Mutex, CallsTyped
  <2> QED
    BY <1>3, <2>1 DEF Mutex
<1>5. Order'
  <2>1. ASSUME NEW d \in Devices PROVE Ordered(pipe'[d], last', turns)
    <3>1. CASE d = usb_handle
      BY <3>1
    <3>2. CASE d # usb_handle
      <4>1. Foreign(pipe[d]) /\ Ordered(pipe[d], last, turns) /\ pipe'[d] = pipe[d]
        BY <3>2 DEF Exchange, Order
      <4> QED
        BY <4>1 DEF Foreign, Ordered
    <3> QED
      BY <3>1, <3>2
  <2>2. \A d \in Devices : d # usb_handle => Foreign(pipe'[d])
    BY DEF Exchange, Order
  <2>3. \A u \in Threads : pc'[u] # "out"
    BY <1>3 DEF InCall
  <2> QED
    BY <1>1, <1>2, <2>1, <2>2, <2>3 DEF Order
<1>6. InStep'
  <2> SUFFICES ASSUME ~hist'.upset PROVE InStep'
    BY DEF InStep
  <2>1. pipe'[usb_handle'] = <<>>
    BY <1>2
  <2> QED
    BY <2>1 DEF InStep
<1>7. InStepUntilUpset'
  BY <1>1 DEF Exchange, InStepUntilUpset, CallsTyped
<1> QED
  BY <1>4, <1>5, <1>6, <1>7 DEF Exchange

LEMMA AtMostOne == ASSUME NEW s \in Seq(Items), s # <<>>, Len(s) <= 1 PROVE Len(s) = 1
<1>1. Len(s) \in Nat /\ Len(s) # 0
  BY EmptySeq, LenProperties
<1>2. \A n \in Nat : n # 0 /\ n <= 1 => n = 1
  OBVIOUS
<1> QED
  BY <1>1, <1>2

\* What is known of the endpoint while a call is in progress.
LEMMA InCallFacts ==
    ASSUME IInv, Exchange, NEW t \in Threads, InCall(t)
    PROVE  /\ HistTyped /\ ScanTyped /\ CallsTyped /\ PipeTyped
           /\ stage = "ready" /\ usb_handle \in Devices
           /\ pipe[usb_handle] \in Seq(Items) /\ Ordered(pipe[usb_handle], last, turns)
           /\ turn[t] = turns /\ turns \in Nat /\ last \in Nat /\ last < turns
           /\ ~hist.upset /\ pipe[usb_handle] # <<>> =>
                /\ pc[t] = "in" /\ Len(pipe[usb_handle]) = 1
                /\ pipe[usb_handle][1].turn = turns
<1>1. HistTyped /\ ScanTyped /\ CallsTyped /\ PipeTyped
  BY TypeParts DEF IInv
<1>2. stage = "ready" /\ usb_handle \in Devices
  BY <1>1 DEF InCall, CallsTyped, ScanTyped
<1>3. pipe[usb_handle] \in Seq(Items) /\ Ordered(pipe[usb_handle], last, turns)
  BY <1>1, <1>2 DEF PipeTyped, Exchange, Order
<1>4. turn[t] = turns /\ turns \in Nat /\ last \in Nat /\ last < turns
  BY <1>1 DEF CallsTyped, Exchange, Mutex
<1>5. ASSUME ~hist.upset, pipe[usb_handle] # <<>>
      PROVE  /\ pc[t] = "in" /\ Len(pipe[usb_handle]) = 1
             /\ pipe[usb_handle][1].turn = turns
  <2>1. PICK u \in Threads : pc[u] = "in"
    BY <1>2, <1>5 DEF Exchange, InStep
  <2>2. u = t
    BY <2>1 DEF Exchange, Mutex, InCall
  <2>3. Len(pipe[usb_handle]) <= 1 /\ pipe[usb_handle][1].turn = turns
    BY <1>2, <1>5 DEF Exchange, InStep
  <2>4. Len(pipe[usb_handle]) = 1
    BY <1>3, <1>5, <2>3, AtMostOne
  <2> QED
    BY <2>1, <2>2, <2>3, <2>4
<1> QED
  BY <1>1, <1>2, <1>3, <1>4, <1>5

\* A call begins.
LEMMA EnterExchange == ASSUME IInv, Exchange, NEW t \in Threads, Enter(t) PROVE Exchange'
<1>1. /\ CallsTyped /\ stage = "ready" /\ pc[t] = "idle"
      /\ pc' = [pc EXCEPT ![t] = "waiting"] /\ answer' = [answer EXCEPT ![t] = NoAnswer]
      /\ UNCHANGED <<stage, usb_handle, comm_mutex, turns, turn, last, pipe, hist>>
  BY TypeParts DEF IInv, Enter, scanVars
<1>2. \A u \in Threads : (pc'[u] \in {"out", "in"} => pc'[u] = pc[u]) /\ (pc[u] = "in" => pc'[u] = "in")
  BY <1>1 DEF CallsTyped
<1>3. Mutex'
  BY <1>1, <1>2 DEF Exchange, Mutex, InCall, CallsTyped
<1>4. Order'
  BY <1>1, <1>2 DEF Exchange, Order
<1>5. InStep'
  BY <1>1, <1>2 DEF Exchange, InStep
<1>6. InStepUntilUpset'
  BY <1>1 DEF Exchange, InStepUntilUpset, CallsTyped
<1> QED
  BY <1>3, <1>4, <1>5, <1>6 DEF Exchange

\* A call gets the mutex: nobody is at work with the device.
LEMMA LockExchange == ASSUME IInv, Exchange, NEW t \in Threads, Lock(t) PROVE Exchange'
<1>1. /\ CallsTyped /\ PipeTyped /\ pc[t] = "waiting" /\ ~comm_mutex /\ comm_mutex' = TRUE
      /\ pc' = [pc EXCEPT ![t] = "out"]
      /\ turns' = turns + 1 /\ turn' = [turn EXCEPT ![t] = turns + 1]
      /\ UNCHANGED <<stage, usb_handle, last, answer, pipe, hist>>
  BY TypeParts DEF IInv, Lock, Locks, scanVars
<1>2. turns \in Nat /\ last \in Nat /\ last <= turns /\ answer[t] = NoAnswer /\ stage = "ready"
  BY <1>1 DEF Exchange, Order, Mutex, CallsTyped
<1>3. \A u \in Threads : pc[u] \notin {"out", "in"} /\ (pc'[u] \in {"out", "in"} => u = t)
  BY <1>1 DEF Exchange, Mutex, InCall, CallsTyped
<1>4. Mutex'
  BY <1>1, <1>2, <1>3 DEF Exchange, Mutex, InCall, CallsTyped
<1>5. ASSUME NEW d \in Devices PROVE Ordered(pipe[d], last, turns + 1) /\ Before(pipe[d], turns + 1)
  <2>1. Ordered(pipe[d], last, turns)
    BY DEF Exchange, Order
  <2>2. \A k \in 1..Len(pipe[d]) : pipe[d][k].turn \in Nat
    BY <1>1, TurnTyped DEF PipeTyped
  <2>3. \A k \in 1..Len(pipe[d]) : pipe[d][k].turn < turns + 1
    BY <1>2, <2>1, <2>2 DEF Ordered
  <2> QED
    BY <1>2, <2>1, <2>2, <2>3 DEF Ordered, Before
<1>6. usb_handle \in Devices
  BY <1>2, TypeParts DEF IInv, ScanTyped
<1>7. Order'
  BY <1>1, <1>2, <1>5, <1>6 DEF Exchange, Order
<1>8. InStep'
  <2>1. ~hist.upset => pipe[usb_handle] = <<>> /\ Len(pipe[usb_handle]) <= 1
    BY <1>2, <1>3 DEF Exchange, InStep
  <2> QED
    BY <1>1, <2>1 DEF InStep
<1>9. InStepUntilUpset'
  BY <1>1, <1>2 DEF Exchange, InStepUntilUpset, CallsTyped
<1> QED
  BY <1>4, <1>7, <1>8, <1>9 DEF Exchange

\* The request is written behind what there is.
LEMMA SendExchange == ASSUME IInv, Exchange, NEW t \in Threads, Send(t) PROVE Exchange'
<1> DEFINE s == pipe[usb_handle]
           u == Append(s, Item(turns, "asked"))
<1>1. /\ InCall(t) /\ pc[t] = "out" /\ pc' = [pc EXCEPT ![t] = "in"]
      /\ UNCHANGED <<stage, usb_handle, comm_mutex, turns, turn, last, answer, hist>>
  BY DEF Send, InCall, scanVars
<1>2. /\ HistTyped /\ CallsTyped /\ PipeTyped /\ stage = "ready" /\ usb_handle \in Devices
      /\ s \in Seq(Items) /\ Ordered(s, last, turns)
      /\ turn[t] = turns /\ turns \in Nat /\ last \in Nat /\ last < turns
      /\ ~hist.upset => s = <<>>
  BY <1>1, InCallFacts
<1>3. Before(s, turns)
  BY <1>1 DEF Exchange, Order
<1>4. /\ pipe' = [pipe EXCEPT ![usb_handle] = u]
      /\ pipe'[usb_handle] = u /\ \A d \in Devices : d # usb_handle => pipe'[d] = pipe[d]
  BY <1>2 DEF Send, Writes, PipeTyped
<1>5. Ordered(u, last, turns)
  BY <1>2, <1>3, WritesOrdered
<1>6. ~hist.upset => Len(u) = 1 /\ u[1].turn = turns
  BY <1>2 DEF Item
<1> HIDE DEF u, s
<1>7. \A v \in Threads : (InCall(v)' <=> InCall(v)) /\ pc'[v] # "out" /\ pc'[t] = "in"
                         /\ (pc'[v] # "idle" <=> pc[v] # "idle")
  BY <1>1, <1>2 DEF InCall, CallsTyped, Exchange, Mutex
<1>8. Mutex'
  BY <1>1, <1>7 DEF Exchange, Mutex
<1>9. Order'
  BY <1>1, <1>4, <1>5, <1>7 DEF Exchange, Order
<1>10. InStep'
  BY <1>1, <1>4, <1>6, <1>7 DEF InStep
<1>11. InStepUntilUpset'
  BY <1>1 DEF Exchange, InStepUntilUpset
<1> QED
  BY <1>8, <1>9, <1>10, <1>11 DEF Exchange

LEMMA SendFailsExchange ==
    ASSUME IInv, Exchange, NEW t \in Threads, SendFails(t), PipeTyped' PROVE Exchange'
<1> DEFINE s == pipe[usb_handle]
           u == Append(s, Item(turns, "asked"))
<1>1. InCall(t) /\ pc[t] = "out" /\ Leave(t, NoAnswer) /\ last' = last
  BY DEF SendFails, InCall
<1>2. /\ HistTyped /\ PipeTyped /\ usb_handle \in Devices
      /\ s \in Seq(Items) /\ Ordered(s, last, turns) /\ turn[t] = turns
      /\ turns \in Nat /\ last \in Nat /\ last < turns /\ (~hist.upset => s = <<>>)
  BY <1>1, InCallFacts
<1>3. Before(s, turns)
  BY <1>1 DEF Exchange, Order
<1>4. CASE UNCHANGED <<pipe, hist>>
  BY <1>1, <1>2, <1>4, LeaveExchange
<1>5. Ordered(u, last, turns)
  <2>1. turns <= turns /\ last < turns
    BY <1>2
  <2> HIDE DEF s
  <2> QED
    BY <1>2, <1>3, <2>1, WritesOrdered
<1>6. CASE Writes(usb_handle, turn[t]) /\ hist' = [hist EXCEPT !.upset = TRUE]
  <2>1. pipe'[usb_handle] = u /\ \A d \in Devices : d # usb_handle => pipe'[d] = pipe[d]
    BY <1>2, <1>6 DEF Writes, PipeTyped
  <2>2. hist'.upset
    BY <1>2, <1>6 DEF HistTyped
  <2> QED
    BY <1>1, <1>2, <1>5, <2>1, <2>2, LeaveExchange
<1> QED
  BY <1>4, <1>6 DEF SendFails

\* What is behind the response that is read is of later turns.
LEMMA TailOrdered ==
    ASSUME NEW s \in Seq(Items), s # <<>>, NEW from \in Nat, NEW to \in Nat, Ordered(s, from, to)
    PROVE  /\ s[1].turn \in Nat /\ s[1].turn <= to /\ (s[1].turn > 0 => from < s[1].turn)
           /\ Ordered(Tail(s), from, to)
           /\ s[1].turn > 0 => Ordered(Tail(s), s[1].turn, to)
           /\ Len(s) = 1 => Tail(s) = <<>>
<1>1. /\ Thinned(Tail(s), s) /\ Len(Tail(s)) = Len(s) - 1 /\ Tail(s) \in Seq(Items)
      /\ \A i \in 1..Len(s) - 1 : Tail(s)[i] = s[i + 1]
  BY TailThinned, EmptySeq, HeadTailProperties
<1>2. Len(s) \in Nat /\ Len(s) # 0 /\ 1 \in 1..Len(s)
  BY EmptySeq, LenProperties
<1>3. s[1].turn \in Nat /\ s[1].turn <= to /\ (s[1].turn > 0 => from < s[1].turn)
  BY <1>2, TurnTyped DEF Ordered
<1>4. Ordered(Tail(s), from, to)
  BY <1>1, ThinnedOrdered
<1>5. ASSUME s[1].turn > 0, NEW k \in 1..Len(s) - 1
      PROVE  Tail(s)[k].turn > 0 => s[1].turn < Tail(s)[k].turn
  <2>1. k + 1 \in 1..Len(s) /\ 1 < k + 1 /\ Tail(s)[k] = s[k + 1]
    BY <1>1, <1>2
  <2> QED
    BY <1>2, <2>1 DEF Ordered
<1>6. ASSUME s[1].turn > 0 PROVE Ordered(Tail(s), s[1].turn, to)
  <2> DEFINE u == Tail(s)
  <2>1. Len(u) = Len(s) - 1 /\ Ordered(u, from, to)
    BY <1>1, <1>4
  <2>2. \A k \in 1..Len(s) - 1 : u[k].turn > 0 => s[1].turn < u[k].turn
    BY <1>5, <1>6
  <2> HIDE DEF u
  <2>3. Ordered(u, s[1].turn, to)
    BY <2>1, <2>2 DEF Ordered
  <2> QED
    BY <2>3 DEF u
<1>7. ASSUME Len(s) = 1 PROVE Tail(s) = <<>>
  <2>1. Len(Tail(s)) = 0
    BY <1>1, <1>7
  <2>2. Tail(s) # <<>> => Len(Tail(s)) # 0
    BY <1>1, EmptySeq
  <2> QED
    BY <2>1, <2>2
<1> QED
  BY <1>3, <1>4, <1>6, <1>7

\* The response is read, or the read fails.
LEMMA ReceiveExchange ==
    ASSUME IInv, Exchange, NEW t \in Threads, Receive(t) \/ ReceiveStray(t), PipeTyped'
    PROVE  Exchange'
<1> DEFINE s == pipe[usb_handle]
<1>1. InCall(t) /\ Reads(usb_handle)
  BY DEF Receive, ReceiveStray, InCall
<1>2. /\ HistTyped /\ PipeTyped /\ usb_handle \in Devices /\ Ordered(s, last, turns)
      /\ turn[t] = turns /\ turns \in Nat /\ last \in Nat /\ last < turns
      /\ ~hist.upset /\ s # <<>> => Len(s) = 1 /\ s[1].turn = turns
  BY <1>1, InCallFacts
<1>3. /\ s \in Seq(Items) /\ s # <<>> /\ Front(usb_handle) = s[1]
      /\ pipe'[usb_handle] = Tail(s)
      /\ \A d \in Devices : d # usb_handle => pipe'[d] = pipe[d]
  BY <1>1, <1>2, ReadsThins
<1>4. /\ s[1].turn \in Nat /\ s[1].turn <= turns /\ (s[1].turn > 0 => last < s[1].turn)
      /\ Ordered(Tail(s), last, turns)
      /\ s[1].turn > 0 => Ordered(Tail(s), s[1].turn, turns)
      /\ Len(s) = 1 => Tail(s) = <<>>
  BY <1>2, <1>3, TailOrdered
<1>5. CASE Receive(t)
  <2>1. Leave(t, s[1].turn) /\ last' = s[1].turn /\ s[1].turn > 0 /\ hist' = hist
    BY <1>3, <1>5 DEF Receive
  <2> QED
    BY <1>1, <1>2, <1>3, <1>4, <2>1, LeaveExchange
<1>6. CASE ReceiveStray(t)
  <2>1. (Leave(t, NoAnswer) \/ Leave(t, Junk)) /\ last' = last
    BY <1>6 DEF ReceiveStray
  <2>2. hist'.upset
    BY <1>2, <1>6 DEF ReceiveStray, HistTyped
  <2> QED
    BY <1>1, <1>2, <1>3, <1>4, <2>1, <2>2, LeaveExchange
<1> QED
  BY <1>5, <1>6

LEMMA ReceiveFailsExchange ==
    ASSUME IInv, Exchange, NEW t \in Threads, ReceiveFails(t), PipeTyped' PROVE Exchange'
<1>1. InCall(t) /\ ReadFails(usb_handle) /\ Leave(t, NoAnswer) /\ last' = last
  BY DEF ReceiveFails, InCall
<1>2. /\ HistTyped /\ PipeTyped /\ usb_handle \in Devices
      /\ pipe[usb_handle] \in Seq(Items) /\ Ordered(pipe[usb_handle], last, turns)
      /\ turns \in Nat /\ last \in Nat /\ last < turns
  BY <1>1, InCallFacts
<1>3. hist'.upset
  BY <1>2 DEF ReceiveFails, HistTyped
<1>4. \A d \in Devices : d # usb_handle => pipe'[d] = pipe[d]
  BY <1>1, <1>2 DEF ReadFails, PipeTyped
<1>5. Ordered(pipe'[usb_handle], last, turns)
  BY <1>1, <1>2, ReadFailsThins, ThinnedOrdered DEF Thins, PipeTyped
<1> QED
  BY <1>1, <1>2, <1>3, <1>4, <1>5, LeaveExchange

\* A detector's serving a request, or passing one over, keeps the order.
LEMMA ServesExchange ==
    ASSUME IInv, Exchange, NEW d \in Devices, DeviceServes(d), PipeTyped' PROVE Exchange'
<1>1. /\ CallsTyped /\ ScanTyped /\ PipeTyped /\ turns \in Nat /\ last \in Nat
      /\ UNCHANGED <<scanVars, callVars, hist>>
  BY TypeParts DEF IInv, DeviceServes, CallsTyped
<1>2. ASSUME NEW e \in Devices
      PROVE  /\ pipe[e] \in Seq(Items) /\ pipe'[e] \in Seq(Items) /\ Thinned(pipe'[e], pipe[e])
             /\ Ordered(pipe[e], last, turns) => Ordered(pipe'[e], last, turns)
             /\ Foreign(pipe[e]) => Foreign(pipe'[e])
             /\ Before(pipe[e], turns) => Before(pipe'[e], turns)
  <2>1. Thinned(pipe'[e], pipe[e]) /\ pipe[e] \in Seq(Items) /\ pipe'[e] \in Seq(Items)
    BY <1>1, ServesThins DEF Thins, PipeTyped
  <2> QED
    BY <1>1, <2>1, ThinnedOrdered
<1>3. Mutex' /\ InStepUntilUpset'
  BY <1>1 DEF Exchange, Mutex, InCall, InStepUntilUpset, callVars
<1>4. Order'
  <2>1. ASSUME NEW t \in Threads, pc[t] = "out" PROVE Before(pipe'[usb_handle], turns)
    <3>1. usb_handle \in Devices
      BY <1>1, <2>1 DEF ScanTyped, CallsTyped
    <3> QED
      BY <1>2, <2>1, <3>1 DEF Exchange, Order
  <2> QED
    BY <1>1, <1>2, <2>1 DEF Exchange, Order, callVars, scanVars
<1>5. InStep'
  <2> SUFFICES ASSUME ~hist.upset, stage = "ready"
               PROVE  /\ Len(pipe'[usb_handle]) <= 1
                      /\ pipe'[usb_handle] # <<>> =>
                           /\ \E t \in Threads : pc[t] = "in"
                           /\ pipe'[usb_handle][1].turn = turns
    BY <1>1 DEF InStep, scanVars, callVars
  <2> DEFINE s == pipe[usb_handle]
             u == pipe'[usb_handle]
  <2>1. usb_handle \in Devices
    BY <1>1 DEF ScanTyped
  <2>2. /\ Len(s) <= 1
        /\ s # <<>> => (\E t \in Threads : pc[t] = "in") /\ s[1].turn = turns
    BY DEF Exchange, InStep
  <2>3. s \in Seq(Items) /\ u \in Seq(Items) /\ Thinned(u, s)
    BY <1>2, <2>1
  <2> HIDE DEF s, u
  <2>4. Len(s) \in Nat /\ Len(u) \in Nat /\ Len(u) <= 1
    BY <2>2, <2>3, LenProperties DEF Thinned
  <2>5. ASSUME u # <<>> PROVE s # <<>> /\ u[1].turn = s[1].turn
    <3>1. Len(u) = 1
      BY <2>3, <2>4, <2>5, AtMostOne
    <3>4. Len(u) <= Len(s)
      BY <2>3 DEF Thinned
    <3>5. s # <<>>
      BY <2>4, <3>1, <3>4, EmptySeq
    <3>6. Len(s) = 1
      BY <2>2, <2>3, <3>5, AtMostOne
    <3>2. PICK f \in [1..Len(u) -> 1..Len(s)] : \A i \in 1..Len(u) : u[i].turn = s[f[i]].turn
      BY <2>3 DEF Thinned
    <3>3. f[1] = 1 /\ u[1].turn = s[f[1]].turn
      BY <3>1, <3>2, <3>6
    <3> QED
      BY <3>3, <3>5
  <2> QED
    BY <2>2, <2>4, <2>5 DEF s, u
<1> QED
  BY <1>3, <1>4, <1>5 DEF Exchange

LEMMA NextExchange == ASSUME IInv, Exchange, [Next]_vars PROVE Exchange'
<1>0. IInv' /\ PipeTyped'
  BY NextKeeps, TypePartsNext DEF IInv
<1>1. CASE Open \/ Claim \/ Ask \/ CheckSerial \/ Close \/ NoneFound \/ InitFails \/ Retry
  BY <1>0, <1>1, ConstructExchange
<1>2. CASE Destroy
  BY <1>2, DestroyExchange
<1>3. ASSUME NEW t \in Threads, Enter(t) \/ Lock(t) \/ Proceed(t) PROVE Exchange'
  BY <1>0, <1>3, EnterExchange, LockExchange, SendExchange, SendFailsExchange,
     ReceiveExchange, ReceiveFailsExchange DEF Proceed
<1>4. ASSUME NEW d \in Devices, DeviceServes(d) PROVE Exchange'
  BY <1>0, <1>4, ServesExchange
<1>5. CASE UNCHANGED vars
  BY <1>5 DEF Exchange, Mutex, InCall, Order, InStep, InStepUntilUpset, vars, scanVars, callVars
<1> QED
  BY <1>1, <1>2, <1>3, <1>4, <1>5 DEF Next, Construct, Done

LEMMA InitExchange == ASSUME Init PROVE Exchange
<1>1. PipeTyped
  BY InitHolds, TypeParts DEF IInv
<1>2. ASSUME NEW d \in Devices PROVE Foreign(pipe[d]) /\ Ordered(pipe[d], 0, 0)
  <2>1. PICK old \in Leftovers :
          pipe = [e \in Devices |-> [k \in DOMAIN old[e] |-> Item(0, old[e][k])]]
    BY DEF Init
  <2>2. old[d] \in Seq(Answers) /\ DOMAIN old[d] = 1..Len(old[d]) /\ Len(old[d]) \in Nat
    BY LeftoversAssumption, LenProperties
  <2>3. pipe[d] = [k \in 1..Len(old[d]) |-> Item(0, old[d][k])]
    BY <2>1, <2>2
  <2>4. \A k \in 1..Len(pipe[d]) : pipe[d][k].turn = 0
    BY <2>2, <2>3 DEF Item
  <2> QED
    BY <2>4 DEF Foreign, Ordered
<1>3. Mutex /\ InStep /\ InStepUntilUpset
  BY DEF Init, Mutex, InCall, InStep, InStepUntilUpset
<1>4. Order
  BY <1>2 DEF Init, Order
<1> QED
  BY <1>3, <1>4 DEF Exchange

LEMMA ExchangeInvariance == Spec => []Exchange
<1>1. Init => Exchange
  BY InitExchange
<1>2. IInv /\ Exchange /\ [Next]_vars => Exchange'
  BY NextExchange
<1> QED
  BY <1>1, <1>2, Invariance, PTL DEF Spec

\* As long as the endpoint was empty when the device was kept and no response was left
\* behind, every caller gets the response to its own request, however many threads
\* share the handler: the lock is held from the write to the read.
THEOREM AnswersInStep == Spec => []InStepUntilUpset
<1>1. Exchange => InStepUntilUpset
  BY DEF Exchange
<1> QED
  BY <1>1, ExchangeInvariance, PTL

-----------------------------------------------------------------------------
(* The handler keeps the promise of ConnectionHandler.                      *)

phase == [t \in Threads |-> PhaseOf(t)]

\* What becomes of the abstract handler's view when thread t goes on.
LEMMA PhaseStep ==
    ASSUME CallsTyped, NEW t \in Threads, NEW to \in {"idle", "waiting", "out", "in"},
           pc' = [pc EXCEPT ![t] = to]
    PROVE  phase' = [phase EXCEPT ![t] = IF to \in {"out", "in"} THEN "holding" ELSE to]
<1>1. \A u \in Threads : PhaseOf(u)' = IF u # t THEN PhaseOf(u)
                                       ELSE IF to \in {"out", "in"} THEN "holding" ELSE to
  BY DEF CallsTyped, PhaseOf
<1> QED
  BY <1>1 DEF phase

LEMMA PhaseKept == ASSUME UNCHANGED <<pc, turns, last, answer>> PROVE UNCHANGED Handler!vars
BY DEF Handler!vars, PhaseOf

\* A call that ends does so with an answer of its turn or an earlier one, with junk,
\* or with nothing.
LEMMA LeaveRefines ==
    ASSUME IInv, Exchange, NEW t \in Threads, InCall(t)
    PROVE  /\ Leave(t, NoAnswer) /\ last' = last => Handler!End(t)
           /\ Leave(t, Junk) /\ last' = last => Handler!DeliverJunk(t)
           /\ \A r \in Nat : Leave(t, r) /\ last < r /\ r <= turns /\ last' = r =>
                    r \in 1..turns /\ Handler!Deliver(t, r)
<1>1. CallsTyped /\ answer[t] = NoAnswer /\ turns \in Nat /\ last \in Nat
  BY TypeParts DEF IInv, CallsTyped, Exchange, Mutex, InCall
<1>2. phase[t] = "holding"
  BY DEF phase, PhaseOf, InCall
<1>3. ASSUME NEW r, Leave(t, r)
      PROVE  /\ phase' = [phase EXCEPT ![t] = "idle"] /\ turns' = turns
             /\ answer' = [answer EXCEPT ![t] = r]
  BY <1>1, <1>3, PhaseStep DEF Leave
<1>4. ASSUME Leave(t, NoAnswer), last' = last PROVE Handler!End(t)
  <2>1. answer' = answer
    BY <1>1, <1>3, <1>4 DEF CallsTyped
  <2> QED
    BY <1>2, <1>3, <1>4, <2>1 DEF Handler!End, phase
<1>5. ASSUME Leave(t, Junk), last' = last PROVE Handler!DeliverJunk(t)
  BY <1>2, <1>3, <1>5 DEF Handler!DeliverJunk, Handler!Junk, Junk, phase
<1>6. ASSUME NEW r \in Nat, Leave(t, r), last < r, r <= turns, last' = r
      PROVE  r \in 1..turns /\ Handler!Deliver(t, r)
  BY <1>1, <1>2, <1>3, <1>6 DEF Handler!Deliver, phase
<1> QED
  BY <1>4, <1>5, <1>6

\* Every step is a step of ConnectionHandler or a stutter.
LEMMA StepRefines == ASSUME IInv, Exchange, [Next]_vars PROVE [Handler!Next]_(Handler!vars)
<1>0. CallsTyped /\ PipeTyped
  BY TypeParts DEF IInv
<1>1. ASSUME Construct \/ InitFails \/ Retry \/ Destroy \/ UNCHANGED vars
             \/ \E d \in Devices : DeviceServes(d)
      PROVE  UNCHANGED <<pc, turns, last, answer>>
  BY <1>1 DEF Construct, Open, Claim, Claims, Ask, CheckSerial, Close, NoneFound, InitFails,
              Throw, Retry, Destroy, DeviceServes, vars, callVars
<1>2. ASSUME NEW t \in Threads, Enter(t) PROVE Handler!Enter(t)
  <2>1. /\ pc[t] = "idle" /\ pc' = [pc EXCEPT ![t] = "waiting"]
        /\ answer' = [answer EXCEPT ![t] = NoAnswer] /\ UNCHANGED <<turns, last>>
    BY <1>2 DEF Enter
  <2>2. phase[t] = "idle" /\ phase' = [phase EXCEPT ![t] = "waiting"]
    BY <1>0, <2>1, PhaseStep DEF phase, PhaseOf
  <2> QED
    BY <2>1, <2>2 DEF Handler!Enter, Handler!NoAnswer, NoAnswer, phase
<1>3. ASSUME NEW t \in Threads, Lock(t) PROVE Handler!Acquire(t)
  <2>1. /\ pc[t] = "waiting" /\ pc' = [pc EXCEPT ![t] = "out"] /\ ~comm_mutex
        /\ turns' = turns + 1 /\ UNCHANGED <<last, answer>>
    BY <1>3 DEF Lock, Locks
  <2>2. phase[t] = "waiting" /\ phase' = [phase EXCEPT ![t] = "holding"]
    BY <1>0, <2>1, PhaseStep DEF phase, PhaseOf
  <2>3. ASSUME NEW u \in Threads PROVE phase[u] # "holding"
    <3>1. pc[u] \in {"idle", "waiting"}
      BY <1>0, <2>1 DEF Exchange, Mutex, InCall, CallsTyped
    <3> QED
      BY <3>1 DEF phase, PhaseOf
  <2> QED
    BY <2>1, <2>2, <2>3 DEF Handler!Acquire, phase
<1>4. ASSUME NEW t \in Threads, Send(t) PROVE UNCHANGED Handler!vars
  <2>1. /\ pc[t] = "out" /\ pc' = [pc EXCEPT ![t] = "in"] /\ UNCHANGED <<turns, last, answer>>
    BY <1>4 DEF Send
  <2>2. phase[t] = "holding" /\ phase' = [phase EXCEPT ![t] = "holding"]
    BY <1>0, <2>1, PhaseStep DEF phase, PhaseOf
  <2>3. phase' = phase
    BY <2>2 DEF phase
  <2> QED
    BY <2>1, <2>3 DEF Handler!vars, phase
<1>5. ASSUME NEW t \in Threads, SendFails(t) \/ ReceiveStray(t) \/ ReceiveFails(t)
      PROVE  Handler!End(t) \/ Handler!DeliverJunk(t)
  <2>1. InCall(t) /\ (Leave(t, NoAnswer) \/ Leave(t, Junk)) /\ last' = last
    BY <1>5 DEF SendFails, ReceiveStray, ReceiveFails, InCall
  <2> QED
    BY <2>1, LeaveRefines
<1>6. ASSUME NEW t \in Threads, Receive(t)
      PROVE  \E r \in 1..turns : Handler!Deliver(t, r)
  <2> DEFINE s == pipe[usb_handle]
  <2>1. InCall(t) /\ Reads(usb_handle)
    BY <1>6 DEF Receive, InCall
  <2>2. /\ usb_handle \in Devices /\ Ordered(s, last, turns) /\ turns \in Nat /\ last \in Nat
    BY <2>1, InCallFacts
  <2>3. s \in Seq(Items) /\ s # <<>> /\ Front(usb_handle) = s[1]
    BY <1>0, <2>1, <2>2, ReadsThins
  <2>4. s[1].turn \in Nat /\ s[1].turn <= turns /\ (s[1].turn > 0 => last < s[1].turn)
    BY <2>2, <2>3, TailOrdered
  <2>5. Leave(t, s[1].turn) /\ last' = s[1].turn /\ s[1].turn > 0
    BY <1>6, <2>3 DEF Receive
  <2> QED
    BY <2>1, <2>4, <2>5, LeaveRefines
<1> QED
  BY <1>1, <1>2, <1>3, <1>4, <1>5, <1>6, PhaseKept DEF Next, Done, Proceed, Handler!Next

\* The USB handler keeps the promise of the AmptekConnectionHandler interface: the calls
\* of all threads are serialised by comm_mutex, and an answer of the device is returned at
\* most once and never after a newer one, whatever was left in the endpoints.
THEOREM UsbImplementsHandler == Spec => HandlerSpec
<1>1. ASSUME Init PROVE Handler!Init
  <2>1. phase = [t \in Threads |-> "idle"]
    BY <1>1 DEF Init, phase, PhaseOf
  <2> QED
    BY <1>1, <2>1 DEF Init, Handler!Init, Handler!NoAnswer, NoAnswer, phase
<1>2. IInv /\ Exchange /\ [Next]_vars => [Handler!Next]_(Handler!vars)
  BY StepRefines
<1> QED
  BY <1>1, <1>2, Invariance, ExchangeInvariance, PTL DEF Spec, HandlerSpec, Handler!Spec
=============================================================================
