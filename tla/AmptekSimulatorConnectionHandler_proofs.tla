--------------- MODULE AmptekSimulatorConnectionHandler_proofs ---------------
(* Proofs about AmptekSimulatorConnectionHandler, for a spectrum of any       *)
(* length and any lengths and presets that are set, any number of requests   *)
(* and events, and any schedule of the two threads.                          *)
EXTENDS AmptekSimulatorConnectionHandler, Counting

-----------------------------------------------------------------------------
(* Types.                                                                  *)

WorkerAt == {"test", "enable", "resetenable", "disable", "resetdisable", "count", "storebin",
             "storedeleted", "loadtotal", "storetotal", "time", "done", "undefined"}
CallAt == {"idle", "cleartime", "clearbin", "delete", "new", "readbin", "readtotal",
           "readflags", "join", "destroyed", "undefined"}
Commands == {"none", "enable", "disable"}

Spectra == UNION {[1..n -> Nat] : n \in Nat}

ControlTyped ==
    /\ is_running \in BOOLEAN /\ is_enabled \in BOOLEAN
    /\ flag \in [enable : BOOLEAN, disable : BOOLEAN]

DataTyped ==
    /\ speclen \in Int /\ total_counts \in Nat /\ acc_time \in Nat
    /\ spectrum \in Spectra /\ freed \in BOOLEAN

ClockTyped == acquisition_time \in Int /\ elapsed \in Nat
WorkerTyped == worker \in [at : WorkerAt, bin : Nat, loaded : Nat] /\ events \in Nat

CallTyped ==
    /\ call \in [at : CallAt, pending : SUBSET Nat, sum : Nat, total : Nat]
    /\ shown \in [sum : Nat, total : Nat, preset : BOOLEAN]
    /\ calls \in Nat

HistTyped ==
    hist \in [quietly : Commands, reached : BOOLEAN, fresh : Nat, disturbed : BOOLEAN,
              raced : BOOLEAN]

TypeOK ==
    ControlTyped /\ DataTyped /\ ClockTyped /\ WorkerTyped /\ CallTyped /\ HistTyped

-----------------------------------------------------------------------------
(* The parts of the inductive invariant.                                   *)

\* An event is recorded while the acquisition is on: only the thread ends it.
Enabled == worker.at \in {"storebin", "loadtotal", "storetotal", "time"} => is_enabled

\* The spectrum has its length but while MCAC replaces it, if it is there at all.
Shape ==
    /\ call.at # "delete" /\ ~freed => DOMAIN spectrum = Channels
    /\ freed => DOMAIN spectrum = {}
    /\ call.at = "new" => freed
    /\ call.pending \subseteq Channels

\* What the thread loaded is what it is about to add to, unless a clear came between.
Loaded ==
    worker.at = "storebin" =>
        /\ worker.bin \in DOMAIN spectrum
        /\ ~hist.disturbed => worker.loaded = spectrum[worker.bin]

\* The spectrum cannot be used: it is not there, or is of no or too great a length.
Unusable == Dangling \/ speclen \notin 1..AnswerSpeclen

\* If MCAC met no acquisition, none goes on while it replaces the spectrum, and what
\* it leaves is used by the thread where it is.
Quiet ==
    ~hist.raced =>
        /\ call.at \in {"delete", "new"} => ~is_enabled /\ ~flag.enable
        /\ worker.at # "storedeleted"
        /\ worker.at = "undefined" => Unusable

\* A request misuses only a spectrum that cannot be used.
Misused == call.at = "undefined" => Unusable

\* A spectrum with one more count in channel b, and with none.
Stored(f, b) == [f EXCEPT ![b] = f[b] + 1]
Cleared(f, b) == [f EXCEPT ![b] = 0]

\* The channels that a clear in progress has cleared already, or all.
Kept == IF call.at \in {"cleartime", "delete", "new", "undefined"} THEN {}
        ELSE IF call.at = "clearbin" THEN DOMAIN spectrum \ call.pending ELSE DOMAIN spectrum

\* An event is in the spectrum before it is in the total.
Recording == IF worker.at \in {"loadtotal", "storetotal"} THEN 1 ELSE 0

\* What the thread loaded of the total is no less than the total: a clear may have come.
TotalLoaded == worker.at = "storetotal" => total_counts <= worker.loaded

\* The total accounts for all events in the channels that are kept but the one being
\* recorded, and so do the events since the last clear; ...
KeptCounted ==
    ~hist.disturbed =>
        /\ Held(spectrum, Kept) <= total_counts + Recording
        /\ Held(spectrum, Kept) <= hist.fresh

\* ... and for what a request has read, together with what it has still to read.
ReadCounted ==
    ~hist.disturbed =>
        /\ call.at = "readbin" /\ ~freed =>
                call.sum + Held(spectrum, call.pending) <= total_counts + Recording
        /\ call.at = "readtotal" => call.sum <= total_counts + Recording
        /\ call.at = "readflags" => call.sum <= call.total + 1

Accounted == TotalLoaded /\ KeptCounted /\ ReadCounted

IInv ==
    /\ TypeOK /\ Enabled /\ Shape /\ Loaded /\ Quiet /\ Misused
    /\ Accounted /\ CountsCoverSpectrum

-----------------------------------------------------------------------------
(* Counting.                                                               *)

\* Some channels of a spectrum, as Counting needs them.
LEMMA ChannelPart ==
    ASSUME NEW f \in Spectra, NEW S, S \subseteq DOMAIN f
    PROVE  Part(f, S)
<1>1. PICK n \in Nat : f \in [1..n -> Nat]
  BY DEF Spectra
<1>2. IsFiniteSet(1..n) /\ S \in SUBSET (1..n)
  BY <1>1, FS_Interval
<1>3. IsFiniteSet(S)
  BY <1>2, FS_Subset
<1> QED
  BY <1>1, <1>2, <1>3 DEF Part

\* Another count in channel b is one more, if b is among the channels.
LEMMA HeldStore ==
    ASSUME NEW f, NEW S, Part(f, S), NEW b \in DOMAIN f
    PROVE  Held(Stored(f, b), S) = Held(f, S) + (IF b \in S THEN 1 ELSE 0)
<1> DEFINE g == Stored(f, b)
<1>1. \A c \in S : g[c] = IF c = b THEN f[b] + 1 ELSE f[c]
  BY DEF Stored, Part
<1>2. CASE b \in S
  <2>1. Part(g, S)
    BY <1>1 DEF Stored, Part
  <2>2. \A c \in S : c # b => g[c] = f[c]
    BY <1>1
  <2>3. g[b] = f[b] + 1
    BY <1>1, <1>2
  <2> HIDE DEF g
  <2>4. /\ f[b] \in Nat /\ g[b] \in Nat /\ Held(f, S) \in Nat /\ Held(g, S) \in Nat
        /\ Held(g, S) - g[b] = Held(f, S) - f[b]
    BY <1>2, <2>1, <2>2, HeldChange
  <2>5. Held(g, S) = Held(f, S) + 1
    BY <2>3, <2>4
  <2> QED
    BY <1>2, <2>5 DEF g
<1>3. CASE b \notin S
  <2>1. Held(g, S) = Held(f, S)
    BY <1>1, <1>3, HeldSame
  <2>2. Held(f, S) \in Nat
    BY HeldTyped
  <2> QED
    BY <1>3, <2>1, <2>2
<1> QED
  BY <1>2, <1>3

\* A channel that is cleared may be counted in.
LEMMA HeldClear ==
    ASSUME NEW f, NEW S, Part(f, S), NEW b \in DOMAIN f, b \notin S
    PROVE  Held(Cleared(f, b), S \cup {b}) = Held(f, S)
<1> DEFINE T == S \cup {b}
           g == Cleared(f, b)
<1>1. g[b] = 0 /\ \A c \in S : g[c] = f[c]
  BY DEF Cleared, Part
<1>2. Part(g, T)
  <2>1. IsFiniteSet(T)
    BY FS_AddElement DEF Part
  <2> QED
    BY <1>1, <2>1 DEF Cleared, Part
<1>3. T \ {b} = S /\ b \in T
  OBVIOUS
<1>4. Held(g, S) = Held(f, S) /\ Held(f, S) \in Nat
  BY <1>1, HeldSame, HeldTyped
<1> HIDE DEF T, g
<1>5. Held(g, T) = g[b] + Held(g, T \ {b})
  BY <1>2, <1>3, HeldTake
<1>6. Held(g, T) = Held(f, S)
  BY <1>1, <1>3, <1>4, <1>5
<1> QED
  BY <1>6 DEF T, g

-----------------------------------------------------------------------------
(* Every step keeps the types.                                             *)

LEMMA FramesTyped ==
    ASSUME TypeOK
    PROVE  /\ UNCHANGED control => ControlTyped'
           /\ UNCHANGED data => DataTyped'
           /\ UNCHANGED clock => ClockTyped'
           /\ UNCHANGED counting => WorkerTyped'
           /\ UNCHANGED calling => CallTyped'
           /\ UNCHANGED hist => HistTyped'
BY DEF TypeOK, control, data, clock, counting, calling, ControlTyped, DataTyped, ClockTyped,
       WorkerTyped, CallTyped, HistTyped

\* Wherever the thread goes.
LEMMA WorkerGoesTyped ==
    ASSUME TypeOK, NEW here, NEW there \in WorkerAt, WorkerGoes(here, there), UNCHANGED events
    PROVE  WorkerTyped'
BY DEF TypeOK, WorkerTyped, WorkerGoes

LEMMA PickedTyped == ASSUME TypeOK PROVE Picked \subseteq Nat
BY DEF TypeOK, DataTyped, Picked

LEMMA WorkTypes == ASSUME TypeOK, Work PROVE TypeOK'
<1>1. CASE Test
  <2>1. PICK there \in WorkerAt : WorkerGoes("test", there)
    BY <1>1 DEF Test, WorkerAt
  <2> QED
    BY <1>1, <2>1, FramesTyped, WorkerGoesTyped DEF Test, TypeOK
<1>2. CASE TakeEnable
  <2>1. PICK there \in WorkerAt : WorkerGoes("enable", there)
    BY <1>2 DEF TakeEnable, WorkerAt
  <2>2. ControlTyped' /\ ClockTyped' /\ HistTyped' /\ UNCHANGED <<data, events, calling>>
    BY <1>2 DEF TakeEnable, TypeOK, ControlTyped, ClockTyped, HistTyped
  <2> QED
    BY <2>1, <2>2, FramesTyped, WorkerGoesTyped DEF TypeOK
<1>3. CASE ResetEnable
  <2>1. "disable" \in WorkerAt /\ WorkerGoes("resetenable", "disable")
    BY <1>3 DEF ResetEnable, WorkerAt
  <2>2. ControlTyped' /\ UNCHANGED <<data, clock, events, calling, hist>>
    BY <1>3 DEF ResetEnable, TypeOK, ControlTyped
  <2> QED
    BY <2>1, <2>2, FramesTyped, WorkerGoesTyped DEF TypeOK
<1>4. CASE TakeDisable
  <2>1. PICK there \in WorkerAt : WorkerGoes("disable", there)
    BY <1>4 DEF TakeDisable, WorkerAt
  <2>2. ControlTyped' /\ UNCHANGED <<data, clock, events, calling, hist>>
    BY <1>4 DEF TakeDisable, TypeOK, ControlTyped
  <2> QED
    BY <2>1, <2>2, FramesTyped, WorkerGoesTyped DEF TypeOK
<1>5. CASE ResetDisable
  <2>1. "count" \in WorkerAt /\ WorkerGoes("resetdisable", "count")
    BY <1>5 DEF ResetDisable, WorkerAt
  <2>2. ControlTyped' /\ UNCHANGED <<data, clock, events, calling, hist>>
    BY <1>5 DEF ResetDisable, TypeOK, ControlTyped
  <2> QED
    BY <2>1, <2>2, FramesTyped, WorkerGoesTyped DEF TypeOK
<1>6. CASE SkipEvent
  <2>1. PICK there \in WorkerAt : WorkerGoes("count", there)
    BY <1>6 DEF SkipEvent, WorkerAt
  <2> QED
    BY <1>6, <2>1, FramesTyped, WorkerGoesTyped DEF SkipEvent, TypeOK
<1>7. ASSUME NEW b \in Picked, LoadBin(b) PROVE TypeOK'
  <2>1. UNCHANGED <<control, data, clock, calling, hist>> /\ events' = events + 1
    BY <1>7 DEF LoadBin, LoadsBin
  <2>2. b \in Nat
    BY PickedTyped
  <2>3. CASE b \in DOMAIN spectrum
    <3>1. spectrum[b] \in Nat
      BY <2>3 DEF TypeOK, DataTyped, Spectra
    <3>2. worker' = [at |-> "storebin", bin |-> b, loaded |-> spectrum[b]]
      BY <1>7, <2>3 DEF LoadBin, LoadsBin
    <3>3. WorkerTyped'
      BY <2>1, <2>2, <3>1, <3>2 DEF WorkerTyped, WorkerAt, TypeOK
    <3> QED
      BY <2>1, <3>3, FramesTyped DEF TypeOK
  <2>4. CASE b \notin DOMAIN spectrum
    <3>1. worker' = [worker EXCEPT !.at = "undefined"]
      BY <1>7, <2>4 DEF LoadBin, LoadsBin
    <3>2. WorkerTyped'
      BY <2>1, <3>1 DEF WorkerTyped, WorkerAt, TypeOK
    <3> QED
      BY <2>1, <3>2, FramesTyped DEF TypeOK
  <2> QED
    BY <2>3, <2>4
<1>8. CASE StoreBin
  <2>1. UNCHANGED <<control, clock, calling>>
    BY <1>8 DEF StoreBin
  <2>2. WorkerTyped' /\ HistTyped'
    BY <1>8 DEF StoreBin, TypeOK, WorkerTyped, WorkerAt, HistTyped
  <2>3. DataTyped'
    <3>1. PICK n \in Nat : spectrum \in [1..n -> Nat]
      BY DEF TypeOK, DataTyped, Spectra
    <3>2. worker.loaded + 1 \in Nat
      BY DEF TypeOK, WorkerTyped
    <3>3. spectrum' \in [1..n -> Nat]
      BY <1>8, <3>1, <3>2 DEF StoreBin
    <3> QED
      BY <1>8, <3>3 DEF StoreBin, TypeOK, DataTyped, Spectra
  <2> QED
    BY <2>1, <2>2, <2>3, FramesTyped DEF TypeOK
<1>9. CASE StoreDeleted
  <2>1. "undefined" \in WorkerAt /\ WorkerGoes("storedeleted", "undefined")
    BY <1>9 DEF StoreDeleted, WorkerAt
  <2> QED
    BY <1>9, <2>1, FramesTyped, WorkerGoesTyped DEF StoreDeleted, TypeOK
<1>10. CASE LoadTotal
  <2>1. WorkerTyped' /\ UNCHANGED <<control, data, clock, calling, hist>>
    BY <1>10 DEF LoadTotal, TypeOK, WorkerTyped, WorkerAt, DataTyped
  <2> QED
    BY <2>1, FramesTyped DEF TypeOK
<1>11. CASE StoreTotal
  <2>1. "time" \in WorkerAt /\ WorkerGoes("storetotal", "time")
    BY <1>11 DEF StoreTotal, WorkerAt
  <2>2. DataTyped' /\ UNCHANGED <<control, clock, events, calling, hist>>
    BY <1>11 DEF StoreTotal, TypeOK, DataTyped, WorkerTyped
  <2> QED
    BY <2>1, <2>2, FramesTyped, WorkerGoesTyped DEF TypeOK
<1>12. CASE KeepTime
  <2>1. "test" \in WorkerAt /\ WorkerGoes("time", "test")
    BY <1>12 DEF KeepTime, KeepsTime, WorkerAt
  <2>2. PICK over \in BOOLEAN : KeepsTime(elapsed, over)
    BY <1>12 DEF KeepTime
  <2>3. ControlTyped' /\ HistTyped' /\ DataTyped' /\ UNCHANGED <<clock, events, calling>>
    BY <2>2 DEF KeepsTime, TypeOK, ControlTyped, HistTyped, DataTyped, ClockTyped
  <2> QED
    BY <2>1, <2>3, FramesTyped, WorkerGoesTyped DEF TypeOK
<1>13. CASE DivideByZero
  <2>1. "undefined" \in WorkerAt /\ WorkerGoes("count", "undefined")
    BY <1>13 DEF DivideByZero, WorkerAt
  <2> QED
    BY <1>13, <2>1, FramesTyped, WorkerGoesTyped DEF DivideByZero, TypeOK
<1> QED
  BY <1>13, <1>1, <1>2, <1>3, <1>4, <1>5, <1>6, <1>7, <1>8, <1>9, <1>10, <1>11, <1>12 DEF Work

LEMMA ChannelsTyped == ASSUME TypeOK PROVE Channels \subseteq Nat
BY DEF TypeOK, DataTyped, Channels

LEMMA ClearingTyped ==
    ASSUME TypeOK
    PROVE  /\ Clearing \in [at : CallAt, pending : SUBSET Nat, sum : Nat, total : Nat]
           /\ Clearing.at = (IF Channels = {} THEN "idle" ELSE "clearbin")
           /\ Clearing.pending = Channels
BY ChannelsTyped DEF Clearing, Idle, CallAt

\* A request that misuses memory is its end.
LEMMA MisusesTyped ==
    ASSUME TypeOK, Misuses
    PROVE  /\ TypeOK' /\ UNCHANGED <<control, data, clock, counting, shown, hist>>
           /\ call'.at = "undefined" /\ call'.pending = {}
<1>1. /\ UNCHANGED <<control, data, clock, counting, shown, calls, hist>>
      /\ call' = [at |-> "undefined", pending |-> {}, sum |-> 0, total |-> 0]
  BY DEF Misuses, Idle
<1>2. CallTyped'
  BY <1>1 DEF TypeOK, CallTyped, CallAt
<1> QED
  BY <1>1, <1>2, FramesTyped DEF TypeOK

LEMMA ProceedTypes == ASSUME TypeOK, Shape, Proceed PROVE TypeOK'
<1>1. CASE ClearTime
  <2>1. UNCHANGED <<control, clock, counting, hist>>
    BY <1>1 DEF ClearTime
  <2>2. DataTyped'
    BY <1>1 DEF ClearTime, TypeOK, DataTyped
  <2>3. CallTyped'
    <3>1. call' = Clearing /\ UNCHANGED <<shown, calls>>
      BY <1>1 DEF ClearTime
    <3> QED
      BY <3>1, ClearingTyped DEF TypeOK, CallTyped
  <2> QED
    BY <2>1, <2>2, <2>3, FramesTyped DEF TypeOK
<1>2. ASSUME NEW b \in Channels, ClearBin(b) PROVE TypeOK'
  <2>1. UNCHANGED <<control, clock, counting>>
    BY <1>2 DEF ClearBin, ClearsBin
  <2>2. DataTyped'
    BY <1>2 DEF ClearBin, ClearsBin, TypeOK, DataTyped, Spectra
  <2>3. CallTyped'
    <3>1. call' = Idle \/ call' = [call EXCEPT !.pending = call.pending \ {b}]
      BY <1>2 DEF ClearBin, ClearsBin
    <3>2. UNCHANGED <<shown, calls>>
      BY <1>2 DEF ClearBin, ClearsBin
    <3> QED
      BY <3>1, <3>2 DEF TypeOK, CallTyped, CallAt, Idle
  <2>4. HistTyped'
    <3>1. PICK under \in BOOLEAN : hist' = [hist EXCEPT !.disturbed = @ \/ under]
      BY <1>2 DEF ClearBin, ClearsBin
    <3> QED
      BY <3>1 DEF TypeOK, HistTyped
  <2> QED
    BY <2>1, <2>2, <2>3, <2>4, FramesTyped DEF TypeOK
<1>3. ASSUME NEW b \in Channels, ReadBin(b) PROVE TypeOK'
  <2>1. UNCHANGED <<control, data, clock, counting, hist, shown, calls>>
    BY <1>3 DEF ReadBin
  <2>2. PICK at \in CallAt : call' = [call EXCEPT !.pending = call.pending \ {b},
                                                !.sum = @ + spectrum[b], !.at = at]
    BY <1>3 DEF ReadBin, TypeOK, CallTyped, CallAt
  <2>3. spectrum[b] \in Nat
    <3>1. b \in DOMAIN spectrum
      BY <1>3 DEF ReadBin
    <3> QED
      BY <3>1 DEF TypeOK, DataTyped, Spectra
  <2>4. CallTyped'
    <3>1. /\ call.pending \ {b} \subseteq Nat
          /\ call.sum + spectrum[b] \in Nat /\ call.total \in Nat
      BY <2>3 DEF TypeOK, CallTyped
    <3>2. call' = [at |-> at, pending |-> call.pending \ {b}, sum |-> call.sum + spectrum[b],
                   total |-> call.total]
      BY <2>2 DEF TypeOK, CallTyped
    <3> QED
      BY <2>1, <3>1, <3>2 DEF TypeOK, CallTyped
  <2> QED
    BY <2>1, <2>4, FramesTyped DEF TypeOK
<1>4. CASE DeleteSpectrum
  <2>1. UNCHANGED <<control, clock, hist>>
    BY <1>4 DEF DeleteSpectrum
  <2>2. DataTyped'
    <3>1. <<>> \in [1..0 -> Nat]
      OBVIOUS
    <3>2. <<>> \in Spectra
      BY <3>1 DEF Spectra
    <3> QED
      BY <1>4, <3>2 DEF DeleteSpectrum, TypeOK, DataTyped
  <2>3. WorkerTyped'
    <3>1. PICK at \in WorkerAt : worker' = [worker EXCEPT !.at = at]
      BY <1>4 DEF DeleteSpectrum, TypeOK, WorkerTyped, WorkerAt
    <3> QED
      BY <1>4, <3>1 DEF DeleteSpectrum, TypeOK, WorkerTyped
  <2>4. CallTyped'
    BY <1>4 DEF DeleteSpectrum, TypeOK, CallTyped, CallAt
  <2> QED
    BY <2>1, <2>2, <2>3, <2>4, FramesTyped DEF TypeOK
<1>5. ASSUME NEW found \in {0, 1}, NewSpectrum(found) PROVE TypeOK'
  <2>1. UNCHANGED <<control, clock, counting>>
    BY <1>5 DEF NewSpectrum
  <2>2. DataTyped'
    <3>1. speclen \in Nat /\ found \in Nat
      BY <1>5 DEF NewSpectrum, TypeOK, DataTyped
    <3>2. spectrum' = [b \in 1..speclen |-> found] /\ freed' = FALSE
          /\ UNCHANGED <<speclen, total_counts, acc_time>>
      BY <1>5 DEF NewSpectrum, Channels
    <3>3. spectrum' \in Spectra
      BY <3>1, <3>2 DEF Spectra
    <3> QED
      BY <3>2, <3>3 DEF TypeOK, DataTyped
  <2>3. CallTyped' /\ HistTyped'
    <3>1. call' = Clearing
      BY <1>5 DEF NewSpectrum
    <3>2. UNCHANGED <<shown, calls>> /\ hist' = [hist EXCEPT !.fresh = 0]
      BY <1>5 DEF NewSpectrum
    <3> QED
      BY <3>1, <3>2, ClearingTyped DEF TypeOK, CallTyped, HistTyped
  <2> QED
    BY <2>1, <2>2, <2>3, FramesTyped DEF TypeOK
<1>6. CASE ReadTotal
  <2>1. CallTyped' /\ UNCHANGED <<control, data, clock, counting, hist>>
    BY <1>6 DEF ReadTotal, TypeOK, CallTyped, CallAt, DataTyped
  <2> QED
    BY <2>1, FramesTyped DEF TypeOK
<1>7. CASE ReadFlags
  <2>1. UNCHANGED <<control, data, clock, counting, calls, hist>> /\ call' = Idle
    BY <1>7 DEF ReadFlags
  <2>2. PICK preset \in BOOLEAN :
            shown' = [sum |-> call.sum, total |-> call.total, preset |-> preset]
    BY <1>7 DEF ReadFlags
  <2>3. CallTyped'
    BY <2>1, <2>2 DEF TypeOK, CallTyped, CallAt, Idle
  <2> QED
    BY <2>1, <2>3, FramesTyped DEF TypeOK
<1>8. CASE Join
  <2>1. CallTyped' /\ UNCHANGED <<control, data, clock, counting, hist>>
    BY <1>8 DEF Join, TypeOK, CallTyped, CallAt
  <2> QED
    BY <2>1, FramesTyped DEF TypeOK
<1>9. CASE VisitDeleted \/ DeleteTwice
  BY <1>9, MisusesTyped DEF VisitDeleted, DeleteTwice
<1>10. CASE NewFails
  <2>1. CallTyped' /\ UNCHANGED <<control, data, clock, counting, hist>>
    BY <1>10 DEF NewFails, Idle, TypeOK, CallTyped, CallAt
  <2> QED
    BY <2>1, FramesTyped DEF TypeOK
<1> QED
  BY <1>1, <1>2, <1>3, <1>4, <1>5, <1>6, <1>7, <1>8, <1>9, <1>10 DEF Proceed

\* Where a request for the spectrum goes from idle.
LEMMA ReadStarts ==
    ASSUME StartRead
    PROVE  \E at \in CallAt :
             /\ call' = [at |-> at, pending |-> Channels, sum |-> 0, total |-> 0]
             /\ at \in {"readbin", "readtotal", "undefined"}
             /\ at = "undefined" => speclen \notin 0..AnswerSpeclen
             /\ at = "readtotal" => speclen = 0
<1>1. call' = [at |-> Reading, pending |-> Channels, sum |-> 0, total |-> 0]
  BY DEF StartRead, Idle
<1>2. Reading \in CallAt /\ Reading \in {"readbin", "readtotal", "undefined"}
  BY DEF Reading, CallAt
<1>3. /\ Reading = "undefined" => speclen \notin 0..AnswerSpeclen
      /\ Reading = "readtotal" => speclen = 0
  BY DEF Reading
<1> QED
  BY <1>1, <1>2, <1>3

LEMMA AskTypes == ASSUME TypeOK, Ask PROVE TypeOK'
<1>1. CASE Enable
  <2>1. UNCHANGED <<data, clock, counting>>
    BY <1>1 DEF Enable
  <2>2. CallTyped' /\ ControlTyped'
    <3>1. UNCHANGED <<call, shown>> /\ calls' = calls + 1
      BY <1>1 DEF Enable, Request
    <3>2. UNCHANGED <<is_running, is_enabled>> /\ flag' = [flag EXCEPT !.enable = TRUE]
      BY <1>1 DEF Enable
    <3>3. CallTyped'
      BY <3>1 DEF TypeOK, CallTyped
    <3>4. ControlTyped'
      BY <3>2 DEF TypeOK, ControlTyped
    <3> QED
      BY <3>3, <3>4
  <2>3. HistTyped'
    BY <1>1 DEF Enable, Asks, TypeOK, HistTyped, Commands
  <2> QED
    BY <2>1, <2>2, <2>3, FramesTyped DEF TypeOK
<1>2. CASE Disable
  <2>1. UNCHANGED <<data, clock, counting>>
    BY <1>2 DEF Disable
  <2>2. CallTyped' /\ ControlTyped'
    <3>1. UNCHANGED <<call, shown>> /\ calls' = calls + 1
      BY <1>2 DEF Disable, Request
    <3>2. UNCHANGED <<is_running, is_enabled>> /\ flag' = [flag EXCEPT !.disable = TRUE]
      BY <1>2 DEF Disable
    <3>3. CallTyped'
      BY <3>1 DEF TypeOK, CallTyped
    <3>4. ControlTyped'
      BY <3>2 DEF TypeOK, ControlTyped
    <3> QED
      BY <3>3, <3>4
  <2>3. HistTyped'
    BY <1>2 DEF Disable, Asks, TypeOK, HistTyped, Commands
  <2> QED
    BY <2>1, <2>2, <2>3, FramesTyped DEF TypeOK
<1>3. ASSUME NEW p \in Presets, SetPreset(p) PROVE TypeOK'
  <2>1. UNCHANGED <<control, data, counting, hist>>
    BY <1>3 DEF SetPreset
  <2>2. CallTyped' /\ ClockTyped'
    BY <1>3, PresetsAssumption, BoundsAssumption
       DEF SetPreset, Request, TypeOK, CallTyped, ClockTyped, Off
  <2> QED
    BY <2>1, <2>2, FramesTyped DEF TypeOK
<1>4. ASSUME NEW n \in Speclens, SetSpeclen(n) PROVE TypeOK'
  <2>1. UNCHANGED <<control, clock, counting>>
    BY <1>4 DEF SetSpeclen
  <2>2. DataTyped' /\ CallTyped'
    BY <1>4, SpeclensAssumption
       DEF SetSpeclen, Request, TypeOK, DataTyped, CallTyped, CallAt, Idle
  <2>3. HistTyped'
    <3>1. PICK on \in BOOLEAN : hist' = [hist EXCEPT !.raced = @ \/ on]
      BY <1>4 DEF SetSpeclen, TypeOK, ControlTyped
    <3> QED
      BY <3>1 DEF TypeOK, HistTyped
  <2> QED
    BY <2>1, <2>2, <2>3, FramesTyped DEF TypeOK
<1>5. CASE ClearTotal
  <2>1. UNCHANGED <<control, clock, counting>>
    BY <1>5 DEF ClearTotal
  <2>2. DataTyped' /\ CallTyped' /\ HistTyped'
    BY <1>5 DEF ClearTotal, Request, TypeOK, DataTyped, CallTyped, CallAt, Idle, HistTyped
  <2> QED
    BY <2>1, <2>2, FramesTyped DEF TypeOK
<1>6. CASE StartRead
  <2>1. UNCHANGED <<control, data, clock, counting, hist>>
    BY <1>6 DEF StartRead
  <2>2. CallTyped'
    <3>1. PICK at \in CallAt : call' = [at |-> at, pending |-> Channels, sum |-> 0, total |-> 0]
      BY <1>6, ReadStarts
    <3>2. UNCHANGED shown /\ calls' = calls + 1
      BY <1>6 DEF StartRead, Request
    <3> QED
      BY <3>1, <3>2, ChannelsTyped DEF TypeOK, CallTyped, CallAt
  <2> QED
    BY <2>1, <2>2, FramesTyped DEF TypeOK
<1>7. CASE Destroy
  <2>1. UNCHANGED <<data, clock, counting, hist>>
    BY <1>7 DEF Destroy
  <2>2. ControlTyped' /\ CallTyped'
    BY <1>7 DEF Destroy, TypeOK, ControlTyped, CallTyped, CallAt, Idle
  <2> QED
    BY <2>1, <2>2, FramesTyped DEF TypeOK
<1> QED
  BY <1>1, <1>2, <1>3, <1>4, <1>5, <1>6, <1>7 DEF Ask

LEMMA StepTypes == ASSUME TypeOK, Shape, [Next]_vars PROVE TypeOK'
<1>1. CASE Work
  BY <1>1, WorkTypes
<1>2. CASE Tick
  <2>1. ClockTyped' /\ UNCHANGED <<control, data, counting, calling, hist>>
    BY <1>2 DEF Tick, TypeOK, ClockTyped
  <2> QED
    BY <2>1, FramesTyped DEF TypeOK
<1>3. CASE Proceed
  BY <1>3, ProceedTypes
<1>4. CASE Ask
  BY <1>4, AskTypes
<1>5. CASE UNCHANGED vars
  BY <1>5, FramesTyped DEF TypeOK, vars
<1> QED
  BY <1>1, <1>2, <1>3, <1>4, <1>5 DEF Next, Done

LEMMA InitTypes == Init => TypeOK
<1> SUFFICES ASSUME Init PROVE TypeOK
  OBVIOUS
<1>1. ControlTyped
  BY DEF Init, ControlTyped
<1>2. ClockTyped
  BY DEF Init, ClockTyped, Off
<1>3. HistTyped
  BY DEF Init, HistTyped, Commands
<1>4. DataTyped
  <2>1. InitialSpeclen \in Nat /\ InitialSpeclen \in Int
    BY SpeclensAssumption
  <2>2. spectrum \in [1..InitialSpeclen -> Nat]
    BY DEF Init, Channels
  <2>3. spectrum \in Spectra
    BY <2>1, <2>2 DEF Spectra
  <2> QED
    BY <2>1, <2>3 DEF Init, DataTyped
<1>5. WorkerTyped /\ CallTyped
  BY DEF Init, WorkerTyped, WorkerAt, CallTyped, CallAt, Idle
<1> QED
  BY <1>1, <1>2, <1>3, <1>4, <1>5 DEF TypeOK

-----------------------------------------------------------------------------
(* What each thread leaves alone.                                          *)

LEMMA WorkLeaves ==
    ASSUME TypeOK, Work
    PROVE  /\ UNCHANGED <<is_running, speclen, calling>>
           /\ UNCHANGED <<hist.disturbed, hist.raced, DOMAIN spectrum, freed>>
<1>1. UNCHANGED <<is_running, speclen, freed, calling>>
  BY DEF Work, control, data, Test, TakeEnable, ResetEnable, TakeDisable, ResetDisable,
         SkipEvent, LoadBin, LoadsBin, DivideByZero, StoreBin, StoreDeleted, LoadTotal, StoreTotal,
         KeepTime, KeepsTime
<1>2. DOMAIN spectrum' = DOMAIN spectrum
  <2>1. CASE StoreBin
    BY <2>1 DEF StoreBin, TypeOK, DataTyped, Spectra
  <2>2. CASE ~StoreBin
    BY <2>2 DEF Work, data, Test, TakeEnable, ResetEnable, TakeDisable, ResetDisable,
           SkipEvent, LoadBin, LoadsBin, DivideByZero, StoreDeleted, LoadTotal, StoreTotal,
           KeepTime, KeepsTime
  <2> QED
    BY <2>1, <2>2
<1>3. UNCHANGED hist \/ TakeEnable \/ StoreBin \/ KeepTime
  BY DEF Work, Test, ResetEnable, TakeDisable, ResetDisable, SkipEvent, LoadBin, LoadsBin,
         DivideByZero, StoreDeleted, LoadTotal, StoreTotal
<1>4. hist'.disturbed = hist.disturbed /\ hist'.raced = hist.raced
  BY <1>3 DEF TakeEnable, StoreBin, KeepTime, KeepsTime, TypeOK, HistTyped
<1> QED
  BY <1>1, <1>2, <1>4

LEMMA AskLeaves ==
    ASSUME TypeOK, Ask
    PROVE  /\ UNCHANGED <<is_enabled, spectrum, freed, counting, shown, hist.disturbed>>
           /\ call = Idle
<1>1. UNCHANGED <<is_enabled, spectrum, freed, counting, shown>> /\ call = Idle
  BY DEF Ask, Request, Enable, Disable, SetPreset, SetSpeclen, ClearTotal, StartRead,
         Destroy, control, data
<1>2. UNCHANGED hist \/ Enable \/ Disable \/ ClearTotal \/ \E n \in Speclens : SetSpeclen(n)
  BY DEF Ask, SetPreset, StartRead, Destroy
<1>3. hist'.disturbed = hist.disturbed
  BY <1>2 DEF Enable, Disable, Asks, ClearTotal, SetSpeclen, TypeOK, HistTyped
<1> QED
  BY <1>1, <1>3

LEMMA ProceedLeaves ==
    ASSUME TypeOK, Proceed
    PROVE  /\ UNCHANGED <<control, clock, events, hist.raced>>
           /\ UNCHANGED worker \/ DeleteSpectrum
<1>1. UNCHANGED <<control, clock, events>> /\ (UNCHANGED worker \/ DeleteSpectrum)
  BY DEF Proceed, ClearTime, ClearBin, ClearsBin, ReadBin, DeleteSpectrum, NewSpectrum,
         ReadTotal, ReadFlags, Join, VisitDeleted, DeleteTwice, Misuses, NewFails, counting
<1>2. \/ UNCHANGED hist
      \/ \E b \in Channels : ClearBin(b)
      \/ \E found \in {0, 1} : NewSpectrum(found)
  BY DEF Proceed, ClearTime, ReadBin, DeleteSpectrum, ReadTotal, ReadFlags, Join,
         VisitDeleted, DeleteTwice, Misuses, NewFails
<1>3. hist'.raced = hist.raced
  BY <1>2 DEF ClearBin, ClearsBin, NewSpectrum, TypeOK, HistTyped
<1> QED
  BY <1>1, <1>3

-----------------------------------------------------------------------------
(* Every step keeps each part of the invariant.                            *)

LEMMA WorkerAtTyped ==
    ASSUME TypeOK, NEW here, NEW there, WorkerGoes(here, there)
    PROVE  worker'.at = there /\ worker'.bin = worker.bin /\ worker'.loaded = worker.loaded
BY DEF TypeOK, WorkerTyped, WorkerGoes

LEMMA NextEnabled == ASSUME TypeOK, Enabled, [Next]_vars PROVE Enabled'
<1>1. CASE Work
  <2>1. CASE TakeEnable \/ ResetEnable \/ Test \/ StoreDeleted \/ ResetDisable \/ DivideByZero
    BY <2>1, WorkerAtTyped DEF TakeEnable, ResetEnable, Test, StoreDeleted, ResetDisable,
       DivideByZero, Enabled
  <2>2. CASE TakeDisable \/ KeepTime
    BY <2>2, WorkerAtTyped DEF TakeDisable, KeepTime, KeepsTime, Enabled
  <2>3. CASE SkipEvent
    BY <2>3, WorkerAtTyped DEF SkipEvent, control, Enabled
  <2>4. ASSUME NEW b \in Picked, LoadBin(b) PROVE Enabled'
    BY <2>4 DEF LoadBin, LoadsBin, control, Enabled
  <2>5. CASE StoreBin \/ LoadTotal
    BY <2>5 DEF StoreBin, LoadTotal, control, Enabled
  <2>6. CASE StoreTotal
    BY <2>6, WorkerAtTyped DEF StoreTotal, WorkerGoes, control, Enabled
  <2> QED
    BY <1>1, <2>1, <2>2, <2>3, <2>4, <2>5, <2>6 DEF Work
<1>2. CASE Proceed
  BY <1>2, ProceedLeaves DEF DeleteSpectrum, control, Enabled, TypeOK, WorkerTyped
<1>3. CASE UNCHANGED <<is_enabled, worker>>
  BY <1>3 DEF Enabled
<1>4. CASE Ask
  BY <1>3, <1>4, AskLeaves DEF counting
<1> QED
  BY <1>1, <1>2, <1>3, <1>4 DEF Next, Done, Tick, control, counting, vars

LEMMA NextShape == ASSUME TypeOK, Shape, [Next]_vars PROVE Shape'
<1>1. CASE Work
  <2>1. UNCHANGED <<speclen, freed, call, DOMAIN spectrum>>
    BY <1>1, WorkLeaves DEF calling
  <2> QED
    BY <2>1 DEF Shape, Channels
<1>2. CASE Proceed
  <2>1. CASE ClearTime
    <3>1. call' = Clearing /\ UNCHANGED <<speclen, spectrum, freed>> /\ call.at = "cleartime"
      BY <2>1 DEF ClearTime
    <3> QED
      BY <3>1, ClearingTyped DEF Shape, Channels
  <2>2. ASSUME NEW b \in Channels, ClearBin(b) PROVE Shape'
    <3>1. DOMAIN spectrum' = DOMAIN spectrum /\ UNCHANGED <<speclen, freed>>
      BY <2>2 DEF ClearBin, ClearsBin, TypeOK, DataTyped, Spectra
    <3>2. call'.at \in {"idle", "clearbin"} /\ call'.pending \subseteq call.pending
      BY <2>2 DEF ClearBin, ClearsBin, Idle, TypeOK, CallTyped
    <3>3. call.at = "clearbin"
      BY <2>2 DEF ClearBin, ClearsBin
    <3> QED
      BY <3>1, <3>2, <3>3 DEF Shape, Channels
  <2>3. ASSUME NEW b \in Channels, ReadBin(b) PROVE Shape'
    BY <2>3 DEF ReadBin, Shape, Channels, data, TypeOK, CallTyped
  <2>4. CASE DeleteSpectrum
    BY <2>4 DEF DeleteSpectrum, Shape, Channels, TypeOK, CallTyped
  <2>5. ASSUME NEW found \in {0, 1}, NewSpectrum(found) PROVE Shape'
    <3>1. call' = Clearing /\ UNCHANGED speclen /\ ~freed' /\ DOMAIN spectrum' = Channels
      BY <2>5 DEF NewSpectrum
    <3>2. call'.pending = Channels /\ call'.at # "new"
      BY <3>1, ClearingTyped
    <3>3. Channels' = Channels
      BY <3>1 DEF Channels
    <3> QED
      BY <3>1, <3>2, <3>3 DEF Shape
  <2>6. CASE ReadTotal \/ Join
    <3>1. /\ UNCHANGED data /\ call'.pending = call.pending
          /\ call.at \in {"readtotal", "join"} /\ call'.at \notin {"delete", "new"}
      BY <2>6 DEF ReadTotal, Join, TypeOK, CallTyped
    <3> QED
      BY <3>1 DEF data, Shape, Channels
  <2>7. CASE ReadFlags
    BY <2>7 DEF ReadFlags, Idle, Shape, Channels, data
  <2>8. CASE VisitDeleted \/ DeleteTwice
    <3>1. freed /\ UNCHANGED data /\ call'.at = "undefined" /\ call'.pending = {}
      BY <2>8, MisusesTyped DEF VisitDeleted, DeleteTwice
    <3> QED
      BY <3>1 DEF data, Shape
  <2>9. CASE NewFails
    BY <2>9 DEF NewFails, Idle, Shape, Channels, data
  <2> QED
    BY <1>2, <2>1, <2>2, <2>3, <2>4, <2>5, <2>6, <2>7, <2>8, <2>9 DEF Proceed
<1>3. CASE Ask
  <2>1. Shape /\ call.at = "idle" /\ UNCHANGED <<spectrum, freed>>
    BY <1>3, AskLeaves DEF Idle
  <2>2. CASE UNCHANGED <<call, speclen>>
    BY <2>1, <2>2 DEF Shape, Channels
  <2>3. ASSUME NEW n \in Speclens, SetSpeclen(n) PROVE Shape'
    BY <2>1, <2>3 DEF SetSpeclen, Idle, Shape, Channels
  <2>4. CASE ClearTotal
    BY <2>1, <2>4 DEF ClearTotal, Idle, Shape, Channels
  <2>5. CASE StartRead
    <3>1. /\ UNCHANGED data /\ call'.pending = Channels
          /\ call'.at \in {"readbin", "readtotal", "undefined"}
      BY <2>5, ReadStarts DEF StartRead
    <3> QED
      BY <2>1, <3>1 DEF data, Shape, Channels
  <2>6. CASE Destroy
    BY <2>1, <2>6 DEF Destroy, data, Idle, Shape, Channels
  <2> QED
    BY <1>3, <2>2, <2>3, <2>4, <2>5, <2>6 DEF Ask, Enable, Disable, SetPreset, data
<1>4. CASE UNCHANGED <<call, data>>
  BY <1>4 DEF data, Shape, Channels
<1> QED
  BY <1>1, <1>2, <1>3, <1>4 DEF Next, Done, Tick, calling, vars

LEMMA NextLoaded == ASSUME TypeOK, Shape, Loaded, [Next]_vars PROVE Loaded'
<1>1. CASE Work
  <2>1. ASSUME NEW b \in Picked, LoadBin(b) PROVE Loaded'
    BY <2>1 DEF LoadBin, LoadsBin, data, Loaded, TypeOK, WorkerTyped
  <2>2. CASE StoreBin \/ LoadTotal
    BY <2>2 DEF StoreBin, LoadTotal, Loaded, TypeOK, WorkerTyped
  <2>3. CASE \E here, there : WorkerGoes(here, there) /\ there # "storebin"
    BY <2>3, WorkerAtTyped DEF Loaded
  <2> QED
    BY <1>1, <2>1, <2>2, <2>3 DEF Work, Test, TakeEnable, ResetEnable, TakeDisable,
       ResetDisable, SkipEvent, DivideByZero, StoreDeleted, StoreTotal, KeepTime, KeepsTime
<1>2. CASE Proceed
  <2>1. ASSUME NEW b \in Channels, ClearBin(b) PROVE Loaded'
    <3>1. UNCHANGED worker /\ spectrum' = [spectrum EXCEPT ![b] = 0]
      BY <2>1 DEF ClearBin, ClearsBin, counting
    <3>2. hist'.disturbed = (hist.disturbed \/ (worker.at = "storebin" /\ worker.bin = b))
      BY <2>1 DEF ClearBin, ClearsBin, TypeOK, HistTyped
    <3> QED
      BY <3>1, <3>2 DEF Loaded, TypeOK, DataTyped, Spectra
  <2>2. CASE DeleteSpectrum
    BY <2>2 DEF DeleteSpectrum, Loaded, TypeOK, WorkerTyped
  <2>3. ASSUME NEW found \in {0, 1}, NewSpectrum(found) PROVE Loaded'
    BY <2>3 DEF NewSpectrum, counting, Shape, Loaded
  <2>4. CASE UNCHANGED <<worker, spectrum, hist>>
    BY <2>4 DEF Loaded
  <2> QED
    BY <1>2, <2>1, <2>2, <2>3, <2>4 DEF Proceed, ClearTime, ReadBin, ReadTotal, ReadFlags,
       Join, VisitDeleted, DeleteTwice, Misuses, NewFails, counting, data
<1>3. CASE UNCHANGED <<worker, spectrum, hist.disturbed>>
  BY <1>3 DEF Loaded
<1>4. CASE Ask
  BY <1>3, <1>4, AskLeaves DEF counting
<1> QED
  BY <1>1, <1>2, <1>3, <1>4 DEF Next, Done, Tick, data, counting, vars

LEMMA NextQuiet ==
    ASSUME TypeOK, Enabled, Shape, Quiet, [Next]_vars
    PROVE  Quiet'
<1>0. CASE Undefined
  <2>1. UNCHANGED vars
    BY <1>0 DEF Next, Done
  <2> QED
    BY <2>1 DEF vars, control, data, counting, calling, Quiet, Unusable, Dangling
<1> SUFFICES ASSUME ~Undefined PROVE Quiet'
  BY <1>0
<1>1. CASE Work
  <2>1. UNCHANGED <<call, hist.raced>>
    BY <1>1, WorkLeaves DEF calling
  <2>2. ASSUME ~hist.raced, call.at \in {"delete", "new"} PROVE ~is_enabled' /\ ~flag'.enable
    <3>1. ~is_enabled /\ ~flag.enable /\ worker.at \notin {"storebin", "time"}
      BY <2>2 DEF Quiet, Enabled
    <3> QED
      BY <1>1, <3>1 DEF Work, Test, TakeEnable, ResetEnable, TakeDisable, ResetDisable,
         SkipEvent, LoadBin, LoadsBin, DivideByZero, StoreBin, StoreDeleted, LoadTotal, StoreTotal,
         KeepTime, KeepsTime, WorkerGoes, control, TypeOK, ControlTyped
  <2>3. UNCHANGED Unusable
    <3>1. UNCHANGED <<call, speclen, freed>>
      BY <1>1, WorkLeaves DEF calling
    <3> QED
      BY <3>1 DEF Unusable, Dangling
  <2>4. ASSUME ~hist.raced
        PROVE  worker'.at # "storedeleted" /\ (worker'.at = "undefined" => Unusable)
    <3>1. ASSUME NEW b \in Picked, LoadBin(b)
          PROVE  worker'.at = "storebin" \/ (worker'.at = "undefined" /\ Unusable)
      <4>1. call.at \notin {"delete", "new"}
        BY <2>4, <3>1 DEF LoadBin, Quiet
      <4>2. CASE b \in DOMAIN spectrum
        BY <3>1, <4>2 DEF LoadBin, LoadsBin
      <4>3. CASE b \notin DOMAIN spectrum
        <5>1. freed \/ b \notin Channels
          BY <4>1, <4>3 DEF Shape
        <5>2. b \notin Channels => speclen \notin 1..AnswerSpeclen
          BY SpeclensAssumption DEF Channels, Picked, TypeOK, DataTyped
        <5>3. worker'.at = "undefined"
          BY <3>1, <4>3 DEF LoadBin, LoadsBin, TypeOK, WorkerTyped
        <5> QED
          BY <4>1, <5>1, <5>2, <5>3 DEF Unusable, Dangling
      <4> QED
        BY <4>2, <4>3
    <3>2. CASE StoreBin \/ LoadTotal
      BY <3>2 DEF StoreBin, LoadTotal, TypeOK, WorkerTyped
    <3>3. ~StoreDeleted
      BY <2>4 DEF Quiet, StoreDeleted, WorkerGoes
    <3>4. CASE DivideByZero
      <4>1. speclen = 0 /\ worker'.at = "undefined"
        BY <3>4, WorkerAtTyped DEF DivideByZero
      <4> QED
        BY <4>1, SpeclensAssumption DEF Unusable
    <3>5. CASE \E here, there : /\ WorkerGoes(here, there)
                                /\ there \notin {"storedeleted", "undefined"}
      BY <3>5, WorkerAtTyped
    <3> QED
      BY <1>1, <3>1, <3>2, <3>3, <3>4, <3>5 DEF Work, Test, TakeEnable, ResetEnable,
         TakeDisable, ResetDisable, SkipEvent, StoreTotal, KeepTime, KeepsTime
  <2> QED
    BY <2>1, <2>2, <2>3, <2>4 DEF Quiet
<1>2. CASE Proceed
  <2>1. UNCHANGED <<control, hist.raced>> /\ (UNCHANGED worker \/ DeleteSpectrum)
    BY <1>2, ProceedLeaves
  <2>2. call'.at \in {"delete", "new"} => call.at \in {"delete", "new"}
    <3>1. CASE DeleteSpectrum
      BY <3>1 DEF DeleteSpectrum
    <3>2. ASSUME NEW b \in Channels, ClearBin(b) PROVE call'.at \notin {"delete", "new"}
      BY <3>2 DEF ClearBin, ClearsBin, Idle, TypeOK, CallTyped
    <3>3. ASSUME NEW b \in Channels, ReadBin(b) PROVE call'.at \notin {"delete", "new"}
      BY <3>3 DEF ReadBin, TypeOK, CallTyped
    <3>4. CASE ReadTotal \/ Join
      BY <3>4 DEF ReadTotal, Join, TypeOK, CallTyped
    <3>5. CASE ClearTime
      BY <3>5, ClearingTyped DEF ClearTime
    <3>6. CASE ReadFlags
      BY <3>6 DEF ReadFlags, Idle
    <3>7. ASSUME NEW found \in {0, 1}, NewSpectrum(found) PROVE call.at = "new"
      BY <3>7 DEF NewSpectrum
    <3>8. CASE VisitDeleted \/ DeleteTwice
      BY <3>8, MisusesTyped DEF VisitDeleted, DeleteTwice
    <3>9. CASE NewFails
      BY <3>9 DEF NewFails
    <3> QED
      BY <1>2, <3>1, <3>2, <3>3, <3>4, <3>5, <3>6, <3>7, <3>8, <3>9 DEF Proceed
  <2>3. CASE DeleteSpectrum
    <3>1. ~hist.raced => worker.at # "storebin"
      BY <2>3 DEF DeleteSpectrum, Quiet, Enabled
    <3>2. worker'.at = IF worker.at = "storebin" THEN "storedeleted" ELSE worker.at
      BY <2>3 DEF DeleteSpectrum, TypeOK, WorkerTyped
    <3>3. ~hist.raced => worker'.at \notin {"storedeleted", "undefined"}
      BY <3>1, <3>2 DEF Quiet, Undefined
    <3> QED
      BY <2>1, <2>2, <3>3 DEF Quiet, control
  <2> QED
    BY <2>1, <2>2, <2>3 DEF Quiet, control, Undefined
<1>3. CASE Ask
  <2>1. UNCHANGED <<is_enabled, worker>> /\ call = Idle
    BY <1>3, AskLeaves DEF counting
  <2>2. ASSUME NEW n \in Speclens, SetSpeclen(n) PROVE Quiet'
    <3>1. hist'.raced = (hist.raced \/ is_enabled \/ flag.enable)
      BY <2>2 DEF SetSpeclen, TypeOK, HistTyped
    <3>2. UNCHANGED control
      BY <2>2 DEF SetSpeclen
    <3>3. ~hist'.raced => ~hist.raced /\ ~is_enabled' /\ ~flag'.enable
      BY <3>1, <3>2 DEF control
    <3> QED
      BY <2>1, <3>3 DEF Quiet, Undefined
  <2>3. ASSUME ~\E n \in Speclens : SetSpeclen(n)
        PROVE  hist'.raced = hist.raced /\ call'.at \notin {"delete", "new"}
    <3>1. CASE Enable \/ Disable
      <4>1. call'.at = "idle"
        BY <2>1, <3>1 DEF Enable, Disable, Idle
      <4>2. PICK quiet : hist' = [hist EXCEPT !.quietly = quiet]
        BY <3>1 DEF Enable, Disable, Asks
      <4> QED
        BY <4>1, <4>2 DEF TypeOK, HistTyped
    <3>2. CASE ClearTotal
      BY <3>2 DEF ClearTotal, Idle, TypeOK, HistTyped
    <3>3. CASE StartRead
      BY <3>3, ReadStarts DEF StartRead
    <3>4. CASE Destroy
      BY <3>4 DEF Destroy, Idle
    <3>5. ASSUME NEW p \in Presets, SetPreset(p)
          PROVE  UNCHANGED hist /\ call'.at = "idle"
      BY <2>1, <3>5 DEF SetPreset, Idle
    <3> QED
      BY <1>3, <2>3, <3>1, <3>2, <3>3, <3>4, <3>5 DEF Ask
  <2>4. ASSUME ~\E n \in Speclens : SetSpeclen(n) PROVE Quiet'
    <3>1. worker'.at \notin {"undefined"} /\ (~hist.raced => worker'.at # "storedeleted")
      BY <2>1 DEF Quiet, Undefined
    <3> QED
      BY <2>3, <2>4, <3>1 DEF Quiet
  <2> QED
    BY <2>2, <2>4
<1>4. CASE UNCHANGED <<control, data, worker, call, hist>>
  BY <1>4 DEF control, data, Quiet, Undefined
<1> QED
  BY <1>1, <1>2, <1>3, <1>4 DEF Next, Done, Tick, counting, calling, vars

LEMMA NextMisused ==
    ASSUME TypeOK, Shape, Misused, [Next]_vars
    PROVE  Misused'
<1>1. CASE UNCHANGED <<call, speclen, freed>>
  BY <1>1 DEF Misused, Unusable, Dangling
<1>2. CASE Proceed
  <2>1. CASE VisitDeleted \/ DeleteTwice
    <3>1. freed /\ UNCHANGED data /\ call'.at = "undefined"
      BY <2>1, MisusesTyped DEF VisitDeleted, DeleteTwice
    <3> QED
      BY <3>1 DEF data, Misused, Unusable, Dangling
  <2>2. CASE Join
    <3>1. UNCHANGED data /\ call'.at = IF freed THEN "undefined" ELSE "destroyed"
      BY <2>2 DEF Join, TypeOK, CallTyped
    <3>2. call'.at = "undefined" => freed' /\ call'.at # "new"
      BY <3>1 DEF data
    <3> QED
      BY <3>2 DEF Misused, Unusable, Dangling
  <2>3. CASE ClearTime
    <3>1. call' = Clearing
      BY <2>3 DEF ClearTime
    <3> QED
      BY <3>1, ClearingTyped DEF Misused
  <2>6. CASE ReadFlags \/ NewFails
    BY <2>6 DEF ReadFlags, NewFails, Idle, Misused
  <2>7. CASE ReadTotal \/ DeleteSpectrum
    BY <2>7 DEF ReadTotal, DeleteSpectrum, Misused, TypeOK, CallTyped
  <2>4. ASSUME NEW b \in Channels, ClearBin(b) PROVE Misused'
    BY <2>4 DEF ClearBin, ClearsBin, Idle, Misused, TypeOK, CallTyped
  <2>8. ASSUME NEW b \in Channels, ReadBin(b) PROVE Misused'
    BY <2>8 DEF ReadBin, Misused, TypeOK, CallTyped
  <2>5. ASSUME NEW found \in {0, 1}, NewSpectrum(found) PROVE Misused'
    BY <2>5, ClearingTyped DEF NewSpectrum, Misused
  <2> QED
    BY <1>2, <2>1, <2>2, <2>3, <2>4, <2>5, <2>6, <2>7, <2>8 DEF Proceed
<1>3. CASE Ask
  <2>1. CASE StartRead
    <3>1. UNCHANGED data /\ (call'.at = "undefined" => speclen \notin 0..AnswerSpeclen)
      BY <2>1, ReadStarts DEF StartRead
    <3>2. speclen \notin 0..AnswerSpeclen => speclen \notin 1..AnswerSpeclen
      BY SpeclensAssumption
    <3> QED
      BY <3>1, <3>2 DEF data, Misused, Unusable
  <2>2. ASSUME ~StartRead PROVE call'.at # "undefined"
    BY <1>3, <2>2 DEF Ask, Request, Enable, Disable, SetPreset, SetSpeclen, ClearTotal,
       Destroy, Idle
  <2> QED
    BY <2>1, <2>2 DEF Misused
<1> QED
  BY <1>1, <1>2, <1>3, WorkLeaves DEF Next, Done, Tick, data, calling, vars

-----------------------------------------------------------------------------
(* Every step keeps the accounts.                                          *)

LEMMA RecordingTyped == Recording \in {0, 1} /\ Recording' \in {0, 1}
BY DEF Recording

LEMMA KeptPart ==
    ASSUME TypeOK
    PROVE  Part(spectrum, Kept) /\ Held(spectrum, Kept) \in Nat
<1>1. Part(spectrum, Kept)
  BY ChannelPart DEF TypeOK, DataTyped, Kept
<1> QED
  BY <1>1, HeldTyped

\* While the channels stay as they are the accounts may only grow.
LEMMA Grows ==
    ASSUME TypeOK, TypeOK', Shape, KeptCounted, ReadCounted,
           UNCHANGED <<call, spectrum, freed, hist.disturbed>>,
           total_counts + Recording <= total_counts' + Recording', hist.fresh <= hist'.fresh
    PROVE  KeptCounted' /\ ReadCounted'
<1> DEFINE before == total_counts + Recording
           after == total_counts' + Recording'
<1>1. before \in Nat /\ after \in Nat /\ before <= after
  <2>1. total_counts \in Nat /\ total_counts' \in Nat
    BY DEF TypeOK, DataTyped
  <2>2. \A n \in Nat, r \in {0, 1} : n + r \in Nat
    OBVIOUS
  <2>3. before \in Nat
    BY <2>1, <2>2, RecordingTyped
  <2>4. after \in Nat
    BY <2>1, <2>2, RecordingTyped
  <2> QED
    BY <2>3, <2>4
<1>2. Held(spectrum, Kept) \in Nat /\ call.sum \in Nat
  BY KeptPart DEF TypeOK, CallTyped
<1>3. hist.fresh \in Nat /\ hist'.fresh \in Nat
  BY DEF TypeOK, HistTyped
<1>4. call.at = "readbin" /\ ~freed => Held(spectrum, call.pending) \in Nat
  <2>1. call.at = "readbin" /\ ~freed => Part(spectrum, call.pending)
    BY ChannelPart DEF TypeOK, DataTyped, Shape
  <2> QED
    BY <2>1, HeldTyped
<1>5. Kept' = Kept /\ UNCHANGED <<call, spectrum, freed, hist.disturbed>>
  BY DEF Kept
<1>6. KeptCounted' /\ ReadCounted' <=>
        (~hist.disturbed =>
            /\ Held(spectrum, Kept) <= after
            /\ Held(spectrum, Kept) <= hist'.fresh
            /\ call.at = "readbin" /\ ~freed => call.sum + Held(spectrum, call.pending) <= after
            /\ call.at = "readtotal" => call.sum <= after
            /\ call.at = "readflags" => call.sum <= call.total + 1)
  BY <1>5 DEF KeptCounted, ReadCounted
<1>7. ~hist.disturbed =>
        /\ Held(spectrum, Kept) <= before
        /\ Held(spectrum, Kept) <= hist.fresh
        /\ call.at = "readbin" /\ ~freed => call.sum + Held(spectrum, call.pending) <= before
        /\ call.at = "readtotal" => call.sum <= before
        /\ call.at = "readflags" => call.sum <= call.total + 1
  BY DEF KeptCounted, ReadCounted
<1> HIDE DEF before, after
<1> QED
  BY <1>1, <1>2, <1>3, <1>4, <1>6, <1>7, hist'.fresh >= hist.fresh

\* Nothing is to be accounted for while a clear has not cleared anything yet.
LEMMA NothingKept ==
    ASSUME TypeOK', Kept' = {}, call'.at \notin {"readbin", "readtotal", "readflags"}
    PROVE  KeptCounted' /\ ReadCounted'
<1>1. Held(spectrum', Kept') = 0
  BY HeldNone
<1>2. total_counts' + Recording' \in Nat /\ hist'.fresh \in Nat
  <2>1. total_counts' \in Nat /\ hist'.fresh \in Nat
    BY DEF TypeOK, DataTyped, HistTyped
  <2>2. \A n \in Nat, r \in {0, 1} : n + r \in Nat
    OBVIOUS
  <2> QED
    BY <2>1, <2>2, RecordingTyped
<1> QED
  BY <1>1, <1>2 DEF KeptCounted, ReadCounted

\* A request that reads, or that leaves the counters alone, keeps what is kept.
LEMMA SameKept ==
    ASSUME TypeOK, KeptCounted, Kept' = Kept,
           UNCHANGED <<spectrum, total_counts, worker, hist.fresh, hist.disturbed>>
    PROVE  KeptCounted'
BY DEF KeptCounted, Recording

LEMMA WorkAccounted ==
    ASSUME TypeOK, TypeOK', Shape, Loaded, Accounted, Work
    PROVE  Accounted'
<1> USE DEF Accounted
<1>1. UNCHANGED <<call, freed, hist.disturbed>>
  BY WorkLeaves DEF calling
<1>2. CASE StoreBin
  <2> DEFINE b == worker.bin
  <2>1. b \in DOMAIN spectrum /\ worker.at = "storebin" /\ worker'.at = "loadtotal"
    BY <1>2 DEF StoreBin, Loaded, TypeOK, WorkerTyped
  <2>2. Recording = 0 /\ Recording' = 1
    BY <2>1 DEF Recording
  <2>3. UNCHANGED total_counts /\ hist'.fresh = hist.fresh + 1
    BY <1>2 DEF StoreBin, TypeOK, HistTyped
  <2>4. TotalLoaded'
    BY <2>1 DEF TotalLoaded
  <2>5. SUFFICES ASSUME ~hist.disturbed PROVE KeptCounted' /\ ReadCounted'
    BY <1>1, <2>4 DEF KeptCounted, ReadCounted
  <2>6. spectrum' = Stored(spectrum, b)
    BY <1>2, <2>1, <2>5 DEF StoreBin, Loaded, Stored
  <2>7. total_counts \in Nat /\ hist.fresh \in Nat /\ call.sum \in Nat
    BY DEF TypeOK, DataTyped, HistTyped, CallTyped
  <2>8. KeptCounted'
    <3>1. Kept' = Kept
      BY <1>1, <2>6 DEF Kept, Stored
    <3>2. Part(spectrum, Kept) /\ Held(spectrum, Kept) \in Nat
      BY KeptPart
    <3>3. Held(spectrum', Kept) = Held(spectrum, Kept) + (IF b \in Kept THEN 1 ELSE 0)
      BY <2>1, <2>6, <3>2, HeldStore
    <3>4. Held(spectrum, Kept) <= total_counts /\ Held(spectrum, Kept) <= hist.fresh
      BY <2>2, <2>5, <2>7 DEF KeptCounted
    <3>5. /\ Held(spectrum', Kept') <= total_counts' + Recording'
          /\ Held(spectrum', Kept') <= hist'.fresh
      BY <2>2, <2>3, <2>7, <3>1, <3>2, <3>3, <3>4
    <3> QED
      BY <3>5 DEF KeptCounted
  <2>9. ReadCounted'
    <3> DEFINE S == call.pending
    <3>1. ASSUME call.at = "readbin", ~freed
          PROVE  call.sum + Held(spectrum', S) <= total_counts + 1
      <4>1. Part(spectrum, S)
        BY <3>1, ChannelPart DEF TypeOK, DataTyped, Shape
      <4>2. Held(spectrum, S) \in Nat
        BY <4>1, HeldTyped
      <4>3. Held(spectrum', S) = Held(spectrum, S) + (IF b \in S THEN 1 ELSE 0)
        BY <2>1, <2>6, <4>1, HeldStore
      <4>4. call.sum + Held(spectrum, S) <= total_counts
        BY <2>2, <2>5, <2>7, <3>1 DEF ReadCounted
      <4> QED
        BY <2>7, <4>2, <4>3, <4>4
    <3>2. call.at = "readtotal" => call.sum <= total_counts + 1
      BY <2>2, <2>5, <2>7 DEF ReadCounted
    <3>3. call.at = "readflags" => call.sum <= call.total + 1
      BY <2>5 DEF ReadCounted
    <3> QED
      BY <1>1, <2>2, <2>3, <3>1, <3>2, <3>3 DEF ReadCounted
  <2> QED
    BY <2>8, <2>9
<1>3. CASE LoadTotal
  <2>1. /\ UNCHANGED <<spectrum, total_counts, hist>>
        /\ worker.at = "loadtotal" /\ worker'.at = "storetotal" /\ worker'.loaded = total_counts
    BY <1>3 DEF LoadTotal, data, TypeOK, WorkerTyped
  <2>2. Recording' = Recording /\ total_counts \in Nat /\ hist.fresh \in Nat
    BY <2>1 DEF Recording, TypeOK, DataTyped, HistTyped
  <2>3. TotalLoaded'
    BY <2>1, <2>2 DEF TotalLoaded
  <2> QED
    BY <1>1, <2>1, <2>2, <2>3, RecordingTyped, Grows
<1>4. CASE StoreTotal
  <2>1. /\ UNCHANGED <<spectrum, hist>> /\ total_counts' = worker.loaded + 1
        /\ worker.at = "storetotal" /\ worker'.at = "time"
    BY <1>4, WorkerAtTyped DEF StoreTotal, WorkerGoes
  <2>2. Recording = 1 /\ Recording' = 0
    BY <2>1 DEF Recording
  <2>3. /\ total_counts <= worker.loaded /\ total_counts \in Nat /\ worker.loaded \in Nat
        /\ hist.fresh \in Nat
    BY <2>1 DEF TotalLoaded, TypeOK, DataTyped, WorkerTyped, HistTyped
  <2>4. total_counts + Recording <= total_counts' + Recording'
    BY <2>1, <2>2, <2>3
  <2>5. TotalLoaded'
    BY <2>1 DEF TotalLoaded
  <2> QED
    BY <1>1, <2>1, <2>3, <2>4, <2>5, Grows
<1>5. CASE ~StoreBin /\ ~LoadTotal /\ ~StoreTotal
  <2>1. UNCHANGED <<spectrum, total_counts>>
    BY <1>5 DEF Work, data, Test, TakeEnable, ResetEnable, TakeDisable, ResetDisable,
       SkipEvent, LoadBin, LoadsBin, DivideByZero, StoreDeleted, KeepTime, KeepsTime
  <2>2. hist'.fresh = hist.fresh /\ hist.fresh \in Nat /\ total_counts \in Nat
    <3>1. UNCHANGED hist \/ TakeEnable \/ KeepTime
      BY <1>5 DEF Work, Test, ResetEnable, TakeDisable, ResetDisable, SkipEvent, LoadBin,
         LoadsBin, DivideByZero, StoreDeleted
    <3> QED
      BY <3>1 DEF TakeEnable, KeepTime, KeepsTime, TypeOK, HistTyped, DataTyped
  <2>3. {worker.at, worker'.at} \cap {"loadtotal", "storetotal"} = {}
    <3>1. ASSUME NEW b \in Picked, LoadBin(b)
          PROVE  worker.at = "count" /\ worker'.at \in {"storebin", "undefined"}
      BY <3>1 DEF LoadBin, LoadsBin, TypeOK, WorkerTyped
    <3>2. CASE \E here, there : /\ WorkerGoes(here, there)
                                /\ {here, there} \cap {"loadtotal", "storetotal"} = {}
      BY <3>2, WorkerAtTyped DEF WorkerGoes
    <3> QED
      BY <1>5, <3>1, <3>2 DEF Work, Test, TakeEnable, ResetEnable, TakeDisable, ResetDisable,
         SkipEvent, DivideByZero, StoreDeleted, KeepTime, KeepsTime
  <2>4. Recording = 0 /\ Recording' = 0 /\ TotalLoaded'
    BY <2>3 DEF Recording, TotalLoaded
  <2> QED
    BY <1>1, <2>1, <2>2, <2>4, Grows
<1> QED
  BY <1>2, <1>3, <1>4, <1>5

\* What the caller's steps have in common: the thread stores no total meanwhile.
LEMMA TotalKept ==
    ASSUME TypeOK, TotalLoaded, UNCHANGED worker \/ DeleteSpectrum,
           UNCHANGED total_counts \/ total_counts' = 0
    PROVE  TotalLoaded'
<1>1. /\ worker'.at = "storetotal" => worker.at = "storetotal"
      /\ worker'.loaded = worker.loaded /\ worker.loaded \in Nat
  BY DEF DeleteSpectrum, TypeOK, WorkerTyped
<1> QED
  BY <1>1 DEF TotalLoaded

LEMMA ProceedAccounted ==
    ASSUME TypeOK, TypeOK', Shape, Accounted, Proceed
    PROVE  Accounted'
<1> USE DEF Accounted
<1>1. TotalLoaded'
  <2>1. UNCHANGED total_counts
    BY DEF Proceed, data, ClearTime, ClearBin, ClearsBin, ReadBin, DeleteSpectrum,
       NewSpectrum, ReadTotal, ReadFlags, Join, VisitDeleted, DeleteTwice, Misuses, NewFails
  <2> QED
    BY <2>1, ProceedLeaves, TotalKept
<1>2. CASE ClearTime
  <2>1. /\ call'.at = (IF Channels = {} THEN "idle" ELSE "clearbin")
        /\ call'.pending = Channels /\ call.at = "cleartime"
        /\ UNCHANGED <<speclen, spectrum, freed>>
    BY <1>2, ClearingTyped DEF ClearTime
  <2>2. Kept' = {}
    BY <2>1 DEF Kept, Shape
  <2> QED
    BY <1>1, <2>1, <2>2, NothingKept
<1>3. ASSUME NEW b \in Channels, ClearBin(b) PROVE Accounted'
  <2>1. /\ UNCHANGED <<total_counts, worker>>
        /\ call.at = "clearbin" /\ b \in call.pending
        /\ spectrum' = Cleared(spectrum, b)
    BY <1>3 DEF ClearBin, ClearsBin, counting, Cleared
  <2>2. hist'.fresh = hist.fresh /\ (hist.disturbed => hist'.disturbed)
    BY <1>3 DEF ClearBin, ClearsBin, TypeOK, HistTyped
  <2>3. b \in DOMAIN spectrum /\ b \notin Kept
    BY <1>3, <2>1 DEF ClearBin, ClearsBin, Kept
  <2>4. call'.at \in {"idle", "clearbin"} /\ Kept' = Kept \cup {b}
    <3>1. DOMAIN spectrum' = DOMAIN spectrum
      BY <2>1 DEF Cleared
    <3>2. CASE call.pending = {b}
      <4>1. call'.at = "idle"
        BY <1>3, <3>2 DEF ClearBin, ClearsBin, Idle
      <4> QED
        BY <2>1, <2>3, <3>1, <3>2, <4>1 DEF Kept
    <3>3. CASE call.pending # {b}
      <4>1. call'.at = "clearbin" /\ call'.pending = call.pending \ {b}
        BY <1>3, <3>3 DEF ClearBin, ClearsBin, TypeOK, CallTyped
      <4> QED
        BY <2>1, <2>3, <3>1, <4>1 DEF Kept
    <3> QED
      BY <3>2, <3>3
  <2>5. Held(spectrum', Kept') = Held(spectrum, Kept)
    BY <2>1, <2>3, <2>4, KeptPart, HeldClear
  <2>6. Recording' = Recording
    BY <2>1 DEF Recording
  <2>7. KeptCounted'
    BY <2>1, <2>2, <2>5, <2>6 DEF KeptCounted
  <2>8. ReadCounted'
    BY <2>4 DEF ReadCounted
  <2> QED
    BY <1>1, <2>7, <2>8
<1>4. ASSUME NEW b \in Channels, ReadBin(b) PROVE Accounted'
  <2> DEFINE S == call.pending
             rest == S \ {b}
  <2>1. /\ UNCHANGED <<spectrum, freed, total_counts, worker, hist>>
        /\ call.at = "readbin" /\ b \in S /\ ~freed
    BY <1>4 DEF ReadBin, data, counting, Shape
  <2>2. /\ call'.at = (IF rest = {} THEN "readtotal" ELSE "readbin")
        /\ call'.pending = rest /\ call'.sum = call.sum + spectrum[b]
    BY <1>4, <2>1 DEF ReadBin, TypeOK, CallTyped
  <2>3. KeptCounted'
    BY <2>1, <2>2, SameKept DEF Kept
  <2>4. Part(spectrum, S)
    BY <2>1, ChannelPart DEF TypeOK, DataTyped, Shape
  <2>5. /\ spectrum[b] \in Nat /\ Part(spectrum, rest)
        /\ Held(spectrum, S) = spectrum[b] + Held(spectrum, rest)
    BY <2>1, <2>4, HeldTake
  <2>6. Held(spectrum, rest) \in Nat /\ (rest = {} => Held(spectrum, rest) = 0)
    BY <2>5, HeldTyped, HeldNone
  <2>7. /\ call.sum \in Nat /\ total_counts \in Nat
        /\ Recording \in {0, 1} /\ Recording' = Recording
    BY <2>1, RecordingTyped DEF TypeOK, CallTyped, DataTyped, Recording
  <2>8. ~hist.disturbed => call.sum + Held(spectrum, S) <= total_counts + Recording
    BY <2>1 DEF ReadCounted
  <2>9. ~hist.disturbed => call'.sum + Held(spectrum, rest) <= total_counts + Recording
    BY <2>2, <2>5, <2>6, <2>7, <2>8
  <2>10. ~hist.disturbed /\ rest = {} => call'.sum <= total_counts + Recording
    BY <2>2, <2>5, <2>6, <2>7, <2>9
  <2>11. ReadCounted'
    BY <2>1, <2>2, <2>7, <2>9, <2>10 DEF ReadCounted
  <2> QED
    BY <1>1, <2>3, <2>11
<1>5. CASE DeleteSpectrum
  <2>1. call'.at = "new"
    BY <1>5 DEF DeleteSpectrum, TypeOK, CallTyped
  <2>2. Kept' = {}
    BY <2>1 DEF Kept
  <2> QED
    BY <1>1, <2>1, <2>2, NothingKept
<1>6. ASSUME NEW found \in {0, 1}, NewSpectrum(found) PROVE Accounted'
  <2>1. /\ call'.at = (IF Channels = {} THEN "idle" ELSE "clearbin")
        /\ call'.pending = Channels /\ DOMAIN spectrum' = Channels
    BY <1>6, ClearingTyped DEF NewSpectrum
  <2>2. Kept' = {}
    BY <2>1 DEF Kept
  <2> QED
    BY <1>1, <2>1, <2>2, NothingKept
<1>7. CASE ReadTotal
  <2>1. /\ UNCHANGED <<spectrum, total_counts, worker, hist>> /\ call.at = "readtotal"
        /\ call'.at = "readflags" /\ call'.sum = call.sum /\ call'.total = total_counts
    BY <1>7 DEF ReadTotal, data, counting, TypeOK, CallTyped
  <2>2. KeptCounted'
    BY <2>1, SameKept DEF Kept
  <2>3. call.sum \in Nat /\ total_counts \in Nat
    BY DEF TypeOK, CallTyped, DataTyped
  <2>4. ~hist.disturbed => call.sum <= total_counts + 1
    BY <2>1, <2>3, RecordingTyped DEF ReadCounted
  <2>5. ReadCounted'
    BY <2>1, <2>4 DEF ReadCounted
  <2> QED
    BY <1>1, <2>2, <2>5
<1>8. CASE ReadFlags
  <2>1. /\ UNCHANGED <<spectrum, total_counts, worker, hist>>
        /\ call.at = "readflags" /\ call'.at = "idle"
    BY <1>8 DEF ReadFlags, data, counting, Idle
  <2>2. KeptCounted'
    BY <2>1, SameKept DEF Kept
  <2>3. ReadCounted'
    BY <2>1 DEF ReadCounted
  <2> QED
    BY <1>1, <2>2, <2>3
<1>9. CASE Join
  <2>1. /\ UNCHANGED <<spectrum, total_counts, worker, hist>> /\ call.at = "join"
        /\ call'.at = IF freed THEN "undefined" ELSE "destroyed"
    BY <1>9 DEF Join, data, counting, TypeOK, CallTyped
  <2>2. CASE freed
    BY <1>1, <2>1, <2>2, NothingKept DEF Kept
  <2>3. CASE ~freed
    <3>1. KeptCounted'
      BY <2>1, <2>3, SameKept DEF Kept
    <3>2. ReadCounted'
      BY <2>1, <2>3 DEF ReadCounted
    <3> QED
      BY <1>1, <3>1, <3>2
  <2> QED
    BY <2>2, <2>3
<1>10. CASE VisitDeleted \/ DeleteTwice
  <2>1. call'.at = "undefined"
    BY <1>10, MisusesTyped DEF VisitDeleted, DeleteTwice
  <2> QED
    BY <1>1, <2>1, NothingKept DEF Kept
<1>11. CASE NewFails
  <2>1. call'.at = "idle" /\ DOMAIN spectrum' = {}
    BY <1>11 DEF NewFails, Idle, data, Shape
  <2> QED
    BY <1>1, <2>1, NothingKept DEF Kept
<1> QED
  BY <1>2, <1>3, <1>4, <1>5, <1>6, <1>7, <1>8, <1>9, <1>10, <1>11 DEF Proceed

LEMMA AskAccounted ==
    ASSUME TypeOK, TypeOK', Shape, Accounted, Ask
    PROVE  Accounted'
<1> USE DEF Accounted
<1>1. /\ UNCHANGED <<spectrum, freed, worker, hist.disturbed>>
      /\ call.at = "idle"
  BY AskLeaves DEF counting, Idle
<1>2. TotalLoaded'
  <2>1. UNCHANGED total_counts \/ total_counts' = 0
    BY DEF Ask, data, Enable, Disable, SetPreset, SetSpeclen, ClearTotal, StartRead, Destroy
  <2> QED
    BY <1>1, <2>1, TotalKept
<1>3. ASSUME UNCHANGED <<call, total_counts, hist.fresh>> PROVE Accounted'
  <2>1. KeptCounted'
    BY <1>1, <1>3, SameKept DEF Kept
  <2>2. ReadCounted'
    BY <1>1, <1>3 DEF ReadCounted
  <2> QED
    BY <1>2, <2>1, <2>2
<1>4. CASE Enable \/ Disable
  <2>1. UNCHANGED <<call, total_counts>>
    BY <1>4 DEF Enable, Disable, data
  <2>2. PICK quiet : hist' = [hist EXCEPT !.quietly = quiet]
    BY <1>4 DEF Enable, Disable, Asks
  <2>3. hist'.fresh = hist.fresh
    BY <2>2 DEF TypeOK, HistTyped
  <2> QED
    BY <1>3, <2>1, <2>3
<1>5. ASSUME NEW p \in Presets, SetPreset(p) PROVE Accounted'
  BY <1>3, <1>5 DEF SetPreset, data
<1>6. ASSUME NEW n \in Speclens, SetSpeclen(n) PROVE Accounted'
  <2>1. call'.at = "delete"
    BY <1>6 DEF SetSpeclen, Idle
  <2>2. Kept' = {}
    BY <2>1 DEF Kept
  <2> QED
    BY <1>2, <2>1, <2>2, NothingKept
<1>7. CASE ClearTotal
  <2>1. call'.at = "cleartime"
    BY <1>7 DEF ClearTotal, Idle
  <2>2. Kept' = {}
    BY <2>1 DEF Kept
  <2> QED
    BY <1>2, <2>1, <2>2, NothingKept
<1>8. CASE StartRead
  <2>1. PICK at \in CallAt :
            /\ call' = [at |-> at, pending |-> Channels, sum |-> 0, total |-> 0]
            /\ at \in {"readbin", "readtotal", "undefined"}
    BY <1>8, ReadStarts
  <2>5. UNCHANGED <<total_counts, hist>>
    BY <1>8 DEF StartRead, data
  <2>2. /\ UNCHANGED <<total_counts, hist>>
        /\ call'.at = at /\ call'.sum = 0 /\ call'.pending = Channels
    BY <2>1, <2>5
  <2>3. CASE at = "undefined"
    BY <1>2, <2>2, <2>3, NothingKept DEF Kept
  <2>4. CASE at \in {"readbin", "readtotal"}
    <3>1. Kept = DOMAIN spectrum /\ Kept' = Kept
      BY <1>1, <2>2, <2>4 DEF Kept
    <3>2. KeptCounted'
      BY <1>1, <2>2, <3>1, SameKept
    <3>3. /\ Held(spectrum, Kept) \in Nat /\ total_counts + Recording \in Nat
          /\ ~hist.disturbed => Held(spectrum, Kept) <= total_counts + Recording
      <4>1. total_counts \in Nat
        BY DEF TypeOK, DataTyped
      <4>2. \A n \in Nat, q \in {0, 1} : n + q \in Nat
        OBVIOUS
      <4> QED
        BY <4>1, <4>2, KeptPart, RecordingTyped DEF KeptCounted
    <3>4. ~freed => Channels = Kept
      BY <1>1, <3>1 DEF Shape
    <3>5. Recording' = Recording
      BY <1>1 DEF Recording
    <3>6. \A n \in Nat : 0 + n = n /\ 0 <= n
      OBVIOUS
    <3>7. ~hist.disturbed => 0 <= total_counts + Recording
      BY <3>3, <3>6
    <3>8. ~hist.disturbed /\ ~freed => 0 + Held(spectrum, Channels) <= total_counts + Recording
      BY <3>3, <3>4, <3>6
    <3>9. ReadCounted'
      BY <1>1, <2>2, <2>4, <3>5, <3>7, <3>8 DEF ReadCounted
    <3> QED
      BY <1>2, <3>2, <3>9
  <2> QED
    BY <2>1, <2>3, <2>4
<1>9. CASE Destroy
  <2>1. UNCHANGED <<total_counts, hist>> /\ call'.at = "join"
    BY <1>9 DEF Destroy, data, Idle
  <2>2. KeptCounted'
    BY <1>1, <2>1, SameKept DEF Kept
  <2>3. ReadCounted'
    BY <2>1 DEF ReadCounted
  <2> QED
    BY <1>2, <2>2, <2>3
<1> QED
  BY <1>4, <1>5, <1>6, <1>7, <1>8, <1>9 DEF Ask

LEMMA NextAccounted ==
    ASSUME TypeOK, TypeOK', Shape, Loaded, Accounted, [Next]_vars
    PROVE  Accounted'
<1>1. CASE UNCHANGED <<worker, spectrum, freed, total_counts, call, hist>>
  BY <1>1 DEF Accounted, TotalLoaded, KeptCounted, ReadCounted, Kept, Recording
<1> QED
  BY <1>1, WorkAccounted, ProceedAccounted, AskAccounted
     DEF Next, Done, Tick, data, counting, calling, vars

LEMMA NextCovers ==
    ASSUME TypeOK, Accounted, CountsCoverSpectrum, [Next]_vars
    PROVE  CountsCoverSpectrum'
<1>1. CASE ReadFlags
  <2>1. /\ shown'.sum = call.sum /\ shown'.total = call.total
        /\ call.at = "readflags" /\ UNCHANGED hist
    BY <1>1 DEF ReadFlags
  <2> QED
    BY <2>1 DEF Accounted, ReadCounted, CountsCoverSpectrum
<1>2. CASE ~ReadFlags
  <2>1. hist.disturbed => hist'.disturbed
    <3>1. UNCHANGED hist.disturbed \/ Proceed
      BY WorkLeaves, AskLeaves DEF Next, Done, Tick, vars
    <3>2. CASE \E b \in Channels : ClearBin(b)
      BY <3>2 DEF ClearBin, ClearsBin, TypeOK, HistTyped
    <3>3. CASE \E found \in {0, 1} : NewSpectrum(found)
      BY <3>3 DEF NewSpectrum, TypeOK, HistTyped
    <3> QED
      BY <3>1, <3>2, <3>3 DEF Proceed, ClearTime, ReadBin, DeleteSpectrum, ReadTotal,
         ReadFlags, Join, VisitDeleted, DeleteTwice, Misuses, NewFails
  <2>2. UNCHANGED shown
    <3>1. UNCHANGED shown \/ Proceed
      BY WorkLeaves, AskLeaves DEF Next, Done, Tick, calling, vars
    <3> QED
      BY <1>2, <3>1 DEF Proceed, ClearTime, ClearBin, ClearsBin, ReadBin, DeleteSpectrum,
         NewSpectrum, ReadTotal, Join, VisitDeleted, DeleteTwice, Misuses, NewFails
  <2> QED
    BY <2>1, <2>2 DEF CountsCoverSpectrum
<1> QED
  BY <1>1, <1>2

-----------------------------------------------------------------------------
(* The inductive invariant.                                                *)

LEMMA InitHolds == Init => IInv
<1> SUFFICES ASSUME Init PROVE IInv
  OBVIOUS
<1>1. TypeOK
  BY InitTypes
<1>2. Enabled /\ Shape /\ Loaded /\ Quiet /\ Misused /\ CountsCoverSpectrum
  BY DEF Init, Enabled, Shape, Loaded, Quiet, Misused, CountsCoverSpectrum, Idle
<1>3. Accounted
  <2>1. worker.at = "test" /\ call.at = "idle" /\ total_counts = 0 /\ hist.fresh = 0
    BY DEF Init, Idle
  <2>2. Cells(spectrum, Kept) = {}
    BY DEF Init, Cells, Kept, Idle
  <2>3. Held(spectrum, Kept) = 0
    BY <2>2, FS_EmptySet DEF Held
  <2> QED
    BY <2>1, <2>3 DEF Accounted, TotalLoaded, KeptCounted, ReadCounted, Recording
<1> QED
  BY <1>1, <1>2, <1>3 DEF IInv

LEMMA NextKeeps == IInv /\ [Next]_vars => IInv'
<1> SUFFICES ASSUME IInv, [Next]_vars PROVE IInv'
  OBVIOUS
<1>1. TypeOK'
  BY StepTypes DEF IInv
<1>2. Enabled' /\ Shape' /\ Loaded' /\ Quiet' /\ Misused'
  BY NextEnabled, NextShape, NextLoaded, NextQuiet, NextMisused DEF IInv
<1>3. Accounted' /\ CountsCoverSpectrum'
  BY <1>1, NextAccounted, NextCovers DEF IInv
<1> QED
  BY <1>1, <1>2, <1>3 DEF IInv

LEMMA Invariance == Spec => []IInv
BY InitHolds, NextKeeps, PTL DEF Spec

-----------------------------------------------------------------------------
(* The theorems.                                                           *)

\* The variables have their types: no counter goes below zero, the spectrum is always
\* an array, and whatever the thread does it is at one of its steps.
THEOREM TypeCorrect == Spec => []TypeOK
<1>1. IInv => TypeOK
  BY DEF IInv
<1> QED
  BY <1>1, Invariance, PTL

\* createSpectrumData and createStatusData read without a lock while the thread
\* counts; still no answer shows a spectrum with more counts than its status accounts
\* for, but the one being recorded, unless a clear hit the middle of an event.
THEOREM StatusAccountsForSpectrum == Spec => []CountsCoverSpectrum
<1>1. IInv => CountsCoverSpectrum
  BY DEF IInv
<1> QED
  BY <1>1, Invariance, PTL

\* clear() goes one channel at a time under the running thread; when it has returned
\* the spectrum holds only what was recorded since it began, unless it hit the middle
\* of an event.
THEOREM ClearForgets == Spec => []ClearEmpties
<1>1. IInv => ClearEmpties
  <2> SUFFICES ASSUME IInv, call = Idle, ~hist.disturbed PROVE SumBins <= hist.fresh
    BY DEF ClearEmpties
  <2>1. Kept = DOMAIN spectrum
    BY DEF Kept, Idle
  <2>2. Counts(DOMAIN spectrum) = Cells(spectrum, DOMAIN spectrum)
    BY DEF Counts, Cells
  <2>3. Held(spectrum, Kept) <= hist.fresh
    BY DEF IInv, Accounted, KeptCounted
  <2> QED
    BY <2>1, <2>2, <2>3 DEF SumBins, Held
<1> QED
  BY <1>1, Invariance, PTL

\* MCAC deletes the spectrum under the thread and sets its length to any number; memory
\* is misused, or divided by 0, only if it was set while the thread counted or had still
\* to take up an enable(), if its new[] failed and left a deleted spectrum in use, or if
\* the length is not one that an answer has room for.
THEOREM MemoryIsSafe == Spec => []MemorySafe
<1>1. IInv => MemorySafe
  BY DEF IInv, Quiet, Misused, Unusable, MemorySafe, Undefined
<1> QED
  BY <1>1, Invariance, PTL
=============================================================================
