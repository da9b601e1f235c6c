--------------------------- MODULE MCStatusReport ---------------------------
(* Instances of StatusReport for TLC. *)
EXTENDS StatusReport

\* Around the limits of one to four bytes, of an int and of a tenth of a second.
MCDetectors ==
    {[counts |-> c[1], ms |-> c[2], preset |-> c[3], enabled |-> c[4]] :
        c \in {<<<<0, 1>>, 0, 0, FALSE>>, <<<<0, 255>>, 99, 100, TRUE>>,
               <<<<0, 65535>>, 100, 100, FALSE>>, <<<<1, 0>>, 101, 100, FALSE>>,
               <<<<256, 256>>, 25599, 0, TRUE>>, <<<<32767, 65535>>, 1677721599, 0, TRUE>>,
               <<<<32768, 0>>, 6553600, 6553600, FALSE>>,
               <<<<65535, 65535>>, 1677721500, 0, FALSE>>}}
MCLengths == Speclens \cup {100}
MCValues == {250, 16777000}
MCDamages == {1, 128, 255}
\* Shorter and longer than a status: an acknowledge, records of list mode, a text.
MCOthers ==
    {Packet(255, 0, <<>>), Packet(130, 10, [i \in 1..16 |-> 255]),
     Packet(130, 7, [i \in 1..72 |-> 59])}
MCCalls ==
    {<<name, <<>>>> : name \in DOMAIN RequestIds}
        \cup {<<name, <<index>>>> : name \in {"BUFFER", "BUFFER_CLEAR", "GET_BUFFER"},
                                     index \in {0, 255, 256, 511, 65535}}
\* Below, at and above the rates at which the period has 16 bits, for both clocks.
MCRates == {1, 305, 306, 1000, 1220, 1221, 4000, 2500000, 2500001, 10000000, 20000000}
=============================================================================
