------------------------- MODULE ConnectionHandler -------------------------
(***************************************************************************)
(* What the handlers of a detector (UDP and USB) promise the callers of    *)
(* sendAndReceive and ClearCommunicationBuffer: the calls of all threads   *)
(* are serialised into turns, and an answer that a call returns is one the *)
(* device gave to this turn or to an earlier one, and newer than every     *)
(* answer returned before it.  The requests carry no identifier, so the    *)
(* interface cannot promise that the answer belongs to the caller's own    *)
(* request; nor can a handler that reassembles an answer from several      *)
(* pieces promise that what it returns was ever sent (Junk).               *)
(***************************************************************************)
EXTENDS Integers

CONSTANT Threads    \* the threads that share one connection

VARIABLES phase,    \* what a thread is doing: "idle", "waiting" or "holding"
          turns,    \* how many calls have had their turn so far
          last,     \* the turn whose answer was returned last
          answer    \* what the thread's latest call returned

vars == <<phase, turns, last, answer>>

\* A call that threw, was ClearCommunicationBuffer, or has not returned.
NoAnswer == 0
\* A packet no request was ever answered with.
Junk == -1

Init ==
    /\ phase = [t \in Threads |-> "idle"]
    /\ turns = 0
    /\ last = 0
    /\ answer = [t \in Threads |-> NoAnswer]

\* A thread calls the handler.
Enter(t) ==
    /\ phase[t] = "idle"
    /\ phase' = [phase EXCEPT ![t] = "waiting"]
    /\ answer' = [answer EXCEPT ![t] = NoAnswer]
    /\ UNCHANGED <<turns, last>>

\* The call gets its turn: no other call is in progress.
Acquire(t) ==
    /\ phase[t] = "waiting"
    /\ \A u \in Threads : phase[u] # "holding"
    /\ phase' = [phase EXCEPT ![t] = "holding"]
    /\ turns' = turns + 1
    /\ UNCHANGED <<last, answer>>

\* The call returns the device's answer to turn r: never a replay, never
\* an older answer after a newer one.
Deliver(t, r) ==
    /\ phase[t] = "holding"
    /\ last < r
    /\ r <= turns
    /\ phase' = [phase EXCEPT ![t] = "idle"]
    /\ last' = r
    /\ answer' = [answer EXCEPT ![t] = r]
    /\ UNCHANGED turns

\* The call returns a packet that is no answer of the device.
DeliverJunk(t) ==
    /\ phase[t] = "holding"
    /\ phase' = [phase EXCEPT ![t] = "idle"]
    /\ answer' = [answer EXCEPT ![t] = Junk]
    /\ UNCHANGED <<turns, last>>

\* The call throws, or it was ClearCommunicationBuffer and returns.
End(t) ==
    /\ phase[t] = "holding"
    /\ phase' = [phase EXCEPT ![t] = "idle"]
    /\ UNCHANGED <<turns, last, answer>>

Next ==
    \E t \in Threads :
        \/ Enter(t)
        \/ Acquire(t)
        \/ \E r \in 1..turns : Deliver(t, r)
        \/ DeliverJunk(t)
        \/ End(t)

Spec == Init /\ [][Next]_vars
=============================================================================
