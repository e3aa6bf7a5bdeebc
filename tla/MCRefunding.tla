---------------------------- MODULE MCRefunding ----------------------------
EXTENDS Refunding, TLC

CONSTANTS c1, c2

World(list, running, types) == [list |-> list, calls |-> running, types |-> types]

OneOfEach == {{}, {"tiktok"}, {"tiktok", "barcode", "early"}, {"kept"}, {"kept", "never"}}

\* One package of each sort, with two calls and a fee, or with one call and every fee.
Singles == {World([p \in {1} |-> traits], {c1, c2}, types) :
              traits \in OneOfEach, types \in {{"refundable"}, {"label"}}}
           \cup {World([p \in {1} |-> traits], {c1}, FeeTypes) : traits \in OneOfEach}

\* Lists of two that are both refunded at once, or of which one is never refunded, and
\* one call.
Pairs == {World([p \in {1, 2} |-> IF p = 1 THEN t[1] ELSE t[2]], {c1}, {"refundable"}) :
            t \in {<<{"tiktok"}, {"tiktok"}>>, <<{"kept", "never"}, {"tiktok"}>>}}

MCWorlds == Singles \cup Pairs
OneTiktok == {World([p \in {1} |-> {"tiktok"}], {c1, c2}, {})}
=============================================================================
