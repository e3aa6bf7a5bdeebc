---------------------------- MODULE MCCharging ----------------------------
EXTENDS Charging, TLC

AllKinds == {"process", "deliver", "cn"}
CustomerKinds == {"process", "deliver"}
OnlyDeliver == {"deliver"}

World(deposit, tiktok, china, n) ==
  [deposit |-> deposit, tiktok |-> tiktok, china |-> china, faults |-> n]
Mixed == World(1, {2}, {}, 1)      \* a plain and a TikTok package, an error or a crash
PlainOnly == World(2, {}, {}, 0)   \* a list of two labels
China == World(0, {2}, {1, 2}, 1)  \* the second package cannot be paid

MCWorlds == {Mixed, PlainOnly, China}
NoFaults == {[Mixed EXCEPT !.faults = 0]}
RichTiktok == {World(3, {1}, {}, 0)}
RequestSymmetry == Permutations(Requests)
=============================================================================
