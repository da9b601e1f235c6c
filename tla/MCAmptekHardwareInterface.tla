--------------------- MODULE MCAmptekHardwareInterface ---------------------
(* Instances of AmptekHardwareInterface for TLC. *)
EXTENDS AmptekHardwareInterface

MCThreads == {"caller"}
MCCaller == "caller"
MCEpoch == -9

\* Reads and the commands that change what they find.
MCReads == {"status", "spectrum", "getbuffered", "startbuffering", "buffer"}
\* One command that reports failure through GetState and one that does not.
MCCommands == {"enable", "disable", "listtimer", "status"}

\* Every cache, the acquisition, and the mode that refuses spectra.
MCOps == {"status", "spectrum", "getbuffered", "startbuffering", "enable", "disable",
          "preset"}

\* Bound: a behaviour that switches the acquisition reads nothing but the status.
MCApart ==
    \/ \A q \in 1..turns : request[q] \notin {"spectrum", "getbuffered", "startbuffering"}
    \/ \A q \in 1..turns : request[q] \notin {"enable", "disable", "preset"}

\* Always read; from the cache if it was filled in this millisecond.
MCAges == {-1, 1}
MCAge == {0}
=============================================================================
