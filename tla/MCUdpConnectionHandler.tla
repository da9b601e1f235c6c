----------------------- MODULE MCUdpConnectionHandler -----------------------
(* Instances of UdpConnectionHandler for TLC. *)
EXTENDS UdpConnectionHandler

CONSTANTS caller, worker

\* The caller of AmptekHardwareInterface and its list-mode worker.
MCThreads == {caller, worker}

\* A negative timeout is refused; 1 us is the least the kernel honours; 900 ns
\* is rounded down to 0, which blocks for ever.
MCTimeouts == {-1, 10}
MCZeroTimeout == {0, 9}
MCHosts == {"address", "unknown"}
MCAllHosts == {"address", "name", "unknown"}
=============================================================================
