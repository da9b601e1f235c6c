------------------ MODULE AmptekSimulatorConnectionHandler ------------------
(***************************************************************************)
(* AmptekSimulatorConnectionHandler: a caller whose requests set flags and *)
(* read or clear counters, and the thread that counts, with no lock        *)
(* between them.  x += 1 is a load and a store, a loop goes one channel at  *)
(* a time, and between any two such steps the other thread may run.        *)
(*                                                                         *)
(* Of the clock only now - start_time matters: `elapsed`, in periods of    *)
(* the thread's sleep.  MCAC replaces the spectrum's memory under the      *)
(* thread, by any length that its text gives: once a thread has used what  *)
(* it must not, no more is said of the program.  Left out are the texts    *)
(* that are stored and given back.                                         *)
(***************************************************************************)
EXTENDS Integers, Sequences, FiniteSets

CONSTANTS Speclens,     \* the lengths of the spectrum that MCAC sets
          InitialSpeclen,
          AnswerSpeclen,  \* the longest spectrum an answer has room for: 21823, by
                          \*   its length of 16 bits, 3 bytes a channel, a status
          Presets,      \* the values PRET is set to
          MaxCalls,     \* bound: requests
          MaxEvents,    \* bound: events that are counted
          MaxElapsed    \* bound: the clock stops here, beyond every preset

Off == -1

ASSUME SpeclensAssumption ==
    /\ Speclens \subseteq Int
    /\ AnswerSpeclen \in Nat
    /\ InitialSpeclen \in 1..AnswerSpeclen
ASSUME PresetsAssumption == Presets \subseteq (1..MaxElapsed - 1) \cup {Off}
ASSUME BoundsAssumption == {MaxCalls, MaxEvents, MaxElapsed} \subseteq Nat

VARIABLES
    is_running, is_enabled,
    flag,               \* flag_enable and flag_disable
    speclen,
    spectrum,           \* the channels in memory: none once they are deleted
    freed,              \* `spectrum` points to memory that was deleted
    total_counts, acc_time,
    acquisition_time,   \* the preset, or Off
    elapsed,            \* now - start_time
    worker,             \* where the thread is, its channel, the value it loaded
    events,             \* the events counted, against the bound
    call,               \* where the caller is in its request, the channels it
                        \*   has still to visit, what it has read so far
    shown,              \* the last answer with a spectrum and a status
    calls,              \* the requests, against the bound
    hist                \* history: see below

control == <<is_running, is_enabled, flag>>
data == <<speclen, spectrum, freed, total_counts, acc_time>>
clock == <<acquisition_time, elapsed>>
counting == <<worker, events>>
calling == <<call, shown, calls>>
vars == <<control, data, clock, counting, calling, hist>>

Channels == 1..speclen

\* The channels that rand() % speclen picks: of a negative length as of a positive.
Picked == 1..(IF speclen < 0 THEN -speclen ELSE speclen)

Idle == [at |-> "idle", pending |-> {}, sum |-> 0, total |-> 0]

Init ==
    /\ is_running = TRUE
    /\ is_enabled = FALSE
    /\ flag = [enable |-> FALSE, disable |-> FALSE]
    /\ speclen = InitialSpeclen
    /\ spectrum = [b \in Channels |-> 0]
    /\ freed = FALSE
    /\ total_counts = 0
    /\ acc_time = 0
    /\ acquisition_time = Off
    /\ elapsed = 0
    /\ worker = [at |-> "test", bin |-> 1, loaded |-> 0]
    /\ events = 0
    /\ call = Idle
    /\ shown = [sum |-> 0, total |-> 0, preset |-> FALSE]
    /\ calls = 0
    /\ hist = [quietly |-> "none",      \* the last of Enable and Disable, if the
                                        \*   thread had taken up all before it
               reached |-> FALSE,       \* the preset ended the acquisition
               fresh |-> 0,             \* events stored since the last clear began
               disturbed |-> FALSE,     \* a channel was cleared under the thread
               raced |-> FALSE]         \* MCAC was set while events were counted

-----------------------------------------------------------------------------
(* The counting thread.                                                    *)

WorkerGoes(here, there) ==
    /\ worker.at = here
    /\ worker' = [worker EXCEPT !.at = there]

\* A mistake the checks must notice: the thread finishes its acquisition first.
TestEnabled ==
    /\ WorkerGoes("test", IF is_running \/ is_enabled THEN "enable" ELSE "done")
    /\ UNCHANGED <<control, data, clock, events, calling, hist>>

\* while (is_running)
Test ==
    /\ WorkerGoes("test", IF is_running THEN "enable" ELSE "done")
    /\ UNCHANGED <<control, data, clock, events, calling, hist>>

\* if (flag_enable) is_enabled = true and the clock starts anew; ...
TakeEnable ==
    /\ WorkerGoes("enable", IF flag.enable THEN "resetenable" ELSE "disable")
    /\ is_enabled' = (is_enabled \/ flag.enable)
    /\ elapsed' = IF flag.enable THEN 0 ELSE elapsed
    /\ hist' = [hist EXCEPT !.reached = @ /\ ~flag.enable]
    /\ UNCHANGED <<is_running, flag, data, acquisition_time, events, calling>>

\* A mistake: both flags are reset together.
ResetBoth ==
    /\ WorkerGoes("resetenable", "disable")
    /\ flag' = [enable |-> FALSE, disable |-> FALSE]
    /\ UNCHANGED <<is_running, is_enabled, data, clock, events, calling, hist>>

\* ... flag_enable = false.
ResetEnable ==
    /\ WorkerGoes("resetenable", "disable")
    /\ flag' = [flag EXCEPT !.enable = FALSE]
    /\ UNCHANGED <<is_running, is_enabled, data, clock, events, calling, hist>>

\* if (flag_disable) is_enabled = false; ...
TakeDisable ==
    /\ WorkerGoes("disable", IF flag.disable THEN "resetdisable" ELSE "count")
    /\ is_enabled' = (is_enabled /\ ~flag.disable)
    /\ UNCHANGED <<is_running, flag, data, clock, events, calling, hist>>

\* ... flag_disable = false.
ResetDisable ==
    /\ WorkerGoes("resetdisable", "count")
    /\ flag' = [flag EXCEPT !.disable = FALSE]
    /\ UNCHANGED <<is_running, is_enabled, data, clock, events, calling, hist>>

\* Nothing is counted while disabled; past the bound only the time is kept.
SkipEvent ==
    /\ ~is_enabled \/ events = MaxEvents
    /\ WorkerGoes("count", IF is_enabled THEN "time" ELSE "test")
    /\ UNCHANGED <<control, data, clock, events, calling, hist>>

\* spectrum[ rand() % speclen ]++ loads a channel, if memory has it, ...
LoadsBin(b) ==
    /\ events < MaxEvents
    /\ worker.at = "count"
    /\ worker' = IF b \in DOMAIN spectrum
                 THEN [at |-> "storebin", bin |-> b, loaded |-> spectrum[b]]
                 ELSE [worker EXCEPT !.at = "undefined"]
    /\ events' = events + 1
    /\ UNCHANGED <<control, data, clock, calling, hist>>

\* A mistake: an event is counted, whether or not the acquisition is on.
LoadBinAlways(b) == LoadsBin(b)

LoadBin(b) == is_enabled /\ LoadsBin(b)

\* ... and rand() % 0 is undefined; ...
DivideByZero ==
    /\ is_enabled
    /\ events < MaxEvents
    /\ speclen = 0
    /\ WorkerGoes("count", "undefined")
    /\ UNCHANGED <<control, data, clock, events, calling, hist>>

\* ... and stores it, where it was, which MCAC may have deleted meanwhile; ...
StoreDeleted ==
    /\ WorkerGoes("storedeleted", "undefined")
    /\ UNCHANGED <<control, data, clock, events, calling, hist>>

\* ... and stores it; total_counts += 1 loads ...
StoreBin ==
    /\ worker.at = "storebin"
    /\ worker' = [worker EXCEPT !.at = "loadtotal"]
    /\ spectrum' = [spectrum EXCEPT ![worker.bin] = worker.loaded + 1]
    /\ hist' = [hist EXCEPT !.fresh = @ + 1]
    /\ UNCHANGED <<control, speclen, freed, total_counts, acc_time, clock, events,
                   calling>>

LoadTotal ==
    /\ worker.at = "loadtotal"
    /\ worker' = [worker EXCEPT !.at = "storetotal", !.loaded = total_counts]
    /\ UNCHANGED <<control, data, clock, events, calling, hist>>

\* ... and stores.
StoreTotal ==
    /\ WorkerGoes("storetotal", "time")
    /\ total_counts' = worker.loaded + 1
    /\ UNCHANGED <<control, speclen, spectrum, freed, acc_time, clock, events, calling,
                   hist>>

\* acc_time = now - start_time; if the acquisition is over, it ends.
KeepsTime(acc, over) ==
    /\ WorkerGoes("time", "test")
    /\ acc_time' = acc
    /\ is_enabled' = (is_enabled /\ ~over)
    /\ hist' = [hist EXCEPT !.reached = @ \/ over]
    /\ UNCHANGED <<is_running, flag, speclen, spectrum, freed, total_counts, clock,
                   events, calling>>

\* A mistake: the preset counts only at the very moment.
KeepTimeExactly ==
    KeepsTime(elapsed, acquisition_time > 0 /\ elapsed = acquisition_time)

KeepTime ==
    KeepsTime(elapsed, acquisition_time > 0 /\ elapsed >= acquisition_time)

Work ==
    \/ Test
    \/ TakeEnable \/ ResetEnable \/ TakeDisable \/ ResetDisable
    \/ SkipEvent
    \/ DivideByZero \/ \E b \in Picked : LoadBin(b)
    \/ StoreBin \/ StoreDeleted \/ LoadTotal \/ StoreTotal
    \/ KeepTime

Tick ==
    /\ elapsed < MaxElapsed
    /\ elapsed' = elapsed + 1
    /\ UNCHANGED <<control, data, acquisition_time, counting, calling, hist>>

-----------------------------------------------------------------------------
(* The caller's requests.                                                  *)

Request ==
    /\ call = Idle
    /\ is_running
    /\ calls < MaxCalls
    /\ calls' = calls + 1

\* Whether the thread has taken up every command so far.
TakenUp == ~flag.disable /\ (flag.enable => worker.at = "resetenable")

\* The command is acknowledged at once.
Asks(command) ==
    hist' = [hist EXCEPT !.quietly = IF TakenUp THEN command ELSE "none"]

\* enable() and disable().
Enable ==
    /\ Request
    /\ flag' = [flag EXCEPT !.enable = TRUE]
    /\ Asks("enable")
    /\ UNCHANGED <<is_running, is_enabled, data, clock, counting, call, shown>>

Disable ==
    /\ Request
    /\ flag' = [flag EXCEPT !.disable = TRUE]
    /\ Asks("disable")
    /\ UNCHANGED <<is_running, is_enabled, data, clock, counting, call, shown>>

\* readConfig: PRET.
SetPreset(p) ==
    /\ Request
    /\ acquisition_time' = p
    /\ UNCHANGED <<control, data, elapsed, counting, call, shown, hist>>

\* clear(): total_counts = 0, ...
ClearTotal ==
    /\ Request
    /\ total_counts' = 0
    /\ call' = [Idle EXCEPT !.at = "cleartime"]
    /\ hist' = [hist EXCEPT !.fresh = 0]
    /\ UNCHANGED <<control, speclen, spectrum, freed, acc_time, clock, counting, shown>>

\* What is left to do is to set each channel to 0, if there is any.
Clearing ==
    IF Channels = {} THEN Idle ELSE [Idle EXCEPT !.at = "clearbin", !.pending = Channels]

\* ... acc_time = 0, ...
ClearTime ==
    /\ call.at = "cleartime"
    /\ acc_time' = 0
    /\ call' = Clearing
    /\ UNCHANGED <<control, speclen, spectrum, freed, total_counts, clock, counting, shown,
                   calls, hist>>

\* A request uses memory that is not the spectrum's, or not the answer's.
Misuses ==
    /\ call' = [Idle EXCEPT !.at = "undefined"]
    /\ UNCHANGED <<control, data, clock, counting, shown, calls, hist>>

\* A request comes to a channel that memory does not have.
VisitDeleted ==
    /\ call.at \in {"clearbin", "readbin"}
    /\ freed
    /\ Misuses

\* ... and one channel after the other; clearing a channel between the thread's
\* load and its store is of no effect.
ClearsBin(b, cleared_total, over) ==
    LET rest == call.pending \ {b}
    IN  /\ call.at = "clearbin"
        /\ b \in call.pending \cap DOMAIN spectrum
        /\ spectrum' = [spectrum EXCEPT ![b] = 0]
        /\ total_counts' = cleared_total
        /\ call' = IF over THEN Idle ELSE [call EXCEPT !.pending = rest]
        /\ hist' = [hist EXCEPT !.disturbed =
                        @ \/ (worker.at = "storebin" /\ worker.bin = b)]
        /\ UNCHANGED <<control, speclen, freed, acc_time, clock, counting, shown, calls>>

\* Mistakes: the total is cleared last; one channel is left out.
ClearBinThenTotal(b) ==
    ClearsBin(b, IF call.pending = {b} THEN 0 ELSE total_counts, call.pending = {b})

ClearBinShort(b) == ClearsBin(b, total_counts, Cardinality(call.pending) <= 2)

ClearBin(b) == ClearsBin(b, total_counts, call.pending = {b})

\* readConfig: MCAC.  The length is set, ...
SetSpeclen(n) ==
    /\ Request
    /\ speclen' = n
    /\ call' = [Idle EXCEPT !.at = "delete"]
    /\ hist' = [hist EXCEPT !.raced = @ \/ is_enabled \/ flag.enable]
    /\ UNCHANGED <<control, spectrum, freed, total_counts, acc_time, clock, counting,
                   shown>>

\* ... the spectrum deleted, ...
DeleteSpectrum ==
    /\ call.at = "delete"
    /\ ~freed
    /\ freed' = TRUE
    /\ spectrum' = <<>>
    /\ worker' = [worker EXCEPT !.at = IF @ = "storebin" THEN "storedeleted" ELSE @]
    /\ call' = [call EXCEPT !.at = "new"]
    /\ UNCHANGED <<control, speclen, total_counts, acc_time, clock, events, shown,
                   calls, hist>>

\* ... a second time if there was no memory for the last one, ...
DeleteTwice ==
    /\ call.at = "delete"
    /\ freed
    /\ Misuses

\* ... and one allocated, whose channels hold whatever is found there until they
\* are cleared one after the other.
NewSpectrum(found) ==
    /\ call.at = "new"
    /\ speclen >= 0
    /\ spectrum' = [b \in Channels |-> found]
    /\ freed' = FALSE
    /\ call' = Clearing
    /\ hist' = [hist EXCEPT !.fresh = 0]
    /\ UNCHANGED <<control, speclen, total_counts, acc_time, clock, counting, shown,
                   calls>>

\* new[] throws, at a negative length and when there is no memory: catch (...) goes
\* on with the next setting, and the request is acknowledged.
NewFails ==
    /\ call.at = "new"
    /\ call' = Idle
    /\ UNCHANGED <<control, data, clock, counting, shown, calls, hist>>

\* Spectrum and status: the answer has 16 bits of length, whatever the spectrum's, ...
Reading ==
    IF speclen \notin 0..AnswerSpeclen THEN "undefined"
    ELSE IF speclen = 0 THEN "readtotal" ELSE "readbin"

\* ... and createSpectrumData reads the channels, ...
StartRead ==
    /\ Request
    /\ call' = [Idle EXCEPT !.at = Reading, !.pending = Channels]
    /\ UNCHANGED <<control, data, clock, counting, shown, hist>>

ReadBin(b) ==
    LET rest == call.pending \ {b}
    IN  /\ call.at = "readbin"
        /\ b \in call.pending \cap DOMAIN spectrum
        /\ call' = [call EXCEPT !.pending = rest, !.sum = @ + spectrum[b],
                                !.at = IF rest = {} THEN "readtotal" ELSE @]
        /\ UNCHANGED <<control, data, clock, counting, shown, calls, hist>>

\* ... createStatusData the total ...
ReadTotal ==
    /\ call.at = "readtotal"
    /\ call' = [call EXCEPT !.total = total_counts, !.at = "readflags"]
    /\ UNCHANGED <<control, data, clock, counting, shown, calls, hist>>

\* ... and whether the preset is reached.
ReadFlags ==
    /\ call.at = "readflags"
    /\ shown' = [sum |-> call.sum, total |-> call.total,
                 preset |-> /\ acquisition_time > 0
                            /\ acc_time - acquisition_time <= 0
                            /\ ~is_enabled]
    /\ call' = Idle
    /\ UNCHANGED <<control, data, clock, counting, calls, hist>>

\* The destructor stops the thread ...
Destroy ==
    /\ call = Idle
    /\ is_running
    /\ is_running' = FALSE
    /\ call' = [Idle EXCEPT !.at = "join"]
    /\ UNCHANGED <<is_enabled, flag, data, clock, counting, shown, calls, hist>>

\* ... waits for it and deletes the spectrum.
Join ==
    /\ call.at = "join"
    /\ worker.at = "done"
    /\ call' = [call EXCEPT !.at = IF freed THEN "undefined" ELSE "destroyed"]
    /\ UNCHANGED <<control, data, clock, counting, shown, calls, hist>>

\* A request goes on to its end.
Proceed ==
    \/ ClearTime \/ \E b \in Channels : ClearBin(b)
    \/ \E b \in Channels : ReadBin(b)
    \/ VisitDeleted
    \/ DeleteSpectrum \/ DeleteTwice
    \/ NewFails \/ \E found \in {0, 1} : NewSpectrum(found)
    \/ ReadTotal \/ ReadFlags
    \/ Join

Ask ==
    \/ Enable \/ Disable
    \/ \E p \in Presets : SetPreset(p)
    \/ \E n \in Speclens : SetSpeclen(n)
    \/ ClearTotal \/ StartRead \/ Destroy

\* A thread has used memory that is not the spectrum's, or divided by 0.
Undefined == worker.at = "undefined" \/ call.at = "undefined"

Done == (call.at = "destroyed" \/ Undefined) /\ UNCHANGED vars

Next ==
    \/ ~Undefined /\ (Work \/ Tick \/ Proceed \/ Ask)
    \/ Done

\* The operating system runs both threads and time passes; nobody has to ask.
Fairness ==
    /\ WF_vars(Work)
    /\ WF_vars(~Undefined /\ Tick)
    /\ WF_vars(~Undefined /\ Proceed)

Spec == Init /\ [][Next]_vars
FairSpec == Spec /\ Fairness

-----------------------------------------------------------------------------
(* Properties.                                                             *)

\* An answer with spectrum and status is read while the thread counts, yet the
\* status accounts for every count of the spectrum but the one being recorded,
\* unless a clear met the thread in the middle of an event.
CountsCoverSpectrum == ~hist.disturbed => shown.sum <= shown.total + 1

\* A command given when the thread had taken up all before it prevails, if it is
\* the last one: the acquisition ends up, and stays, as asked for, but for the preset.
QuietCommandPrevails ==
    <>[](is_running /\ ~Undefined =>
            /\ hist.quietly = "enable" /\ ~hist.reached => is_enabled
            /\ hist.quietly = "disable" => ~is_enabled)

\* "The detector will stop automatically when the duration is reached", also one
\* that was enabled before the preset was set, and enabled again meanwhile.
PresetEndsAcquisition ==
    (is_enabled /\ acquisition_time > 0)
        ~> (~is_enabled \/ acquisition_time = Off \/ ~is_running \/ Undefined)

\* The spectrum was deleted and the new one could not be allocated.
Dangling == freed /\ call.at # "new"

\* However the threads are scheduled and whatever lengths are set, memory is misused
\* in three ways only: MCAC was set while the thread counted or had still to take up
\* an enable(), Disable merely acknowledged; its new[] failed; or the length that is
\* set has no channel or more than an answer holds.
MemorySafe == Undefined => hist.raced \/ Dangling \/ speclen \notin 1..AnswerSpeclen

\* The destructor returns, also while an acquisition without preset runs.
DestructorReturns == ~is_running ~> (call.at = "destroyed" \/ Undefined)

\* The counts in the channels S, one by one, and how many the spectrum holds.
Counts(S) == UNION {{b} \X (1..spectrum[b]) : b \in S}
SumBins == Cardinality(Counts(DOMAIN spectrum))

\* After a clear the spectrum holds no more counts than were recorded since it
\* began, unless it met the thread between the load and the store of a channel.
ClearEmpties ==
    call = Idle /\ ~hist.disturbed => SumBins <= hist.fresh
=============================================================================
