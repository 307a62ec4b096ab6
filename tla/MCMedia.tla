------------------------------ MODULE MCMedia ------------------------------
EXTENDS Media

Scripts0 == [c \in 1..2 |-> IF c = 1 THEN {"echo"} ELSE {"render", "pause"}]
Sources0 ==
    {[tag |-> "rtp-audio", generated |-> TRUE, offsets |-> {0}, packets |-> n] : n \in {2}}
    \cup {[tag |-> "audio", generated |-> FALSE, offsets |-> {0, 1}, packets |-> 1]}
=============================================================================
