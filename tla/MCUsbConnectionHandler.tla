----------------------- MODULE MCUsbConnectionHandler -----------------------
(* Instances of UsbConnectionHandler for TLC. *)
EXTENDS UsbConnectionHandler

\* The caller of AmptekHardwareInterface and its list mode worker.
MCThreads == {"caller", "worker"}
\* Two detectors on the bus; asked for are any, and the second.
MCSerialOf == <<1, 2>>
MCTargets == {-1, 2}
\* Another program may have left a short or a long response behind.
MCLeftovers == {<<<<>>, old>> : old \in {<<>>, <<"short">>, <<"long">>}}
\* Asked for is the first, and the other has a short response in its endpoint.
MCFirst == {1}
MCShort == {<<<<>>, <<"short">>>>}
=============================================================================
