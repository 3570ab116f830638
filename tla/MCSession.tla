----------------------------- MODULE MCSession -----------------------------
(* Instances of Session for TLC. *)
EXTENDS Session

TwoPicks == {"R", "P"}
OnePick == {"R"}
Nobody == {}
OneSlot == {0}
OtherSlot == {1}
LastSlots == {1, 2}
TwoSlots == {0, 1}

Wishes(n, p, t) == [names |-> n, picks |-> p, tiles |-> t]

(* The first user's client joins by itself; the second user may want the same
   tile; a third one only watches. *)
Table == [i \in Slots |->
            CASE i = 0 -> Wishes({"ann"}, {"R"}, {2})
              [] i = 1 -> Wishes({"bob"}, {"P"}, {2, 4})
              [] i = 2 -> Wishes({"eve"}, {}, {})]

(* The second user may want the name and the tile of the first. *)
Rivals == [i \in Slots |-> IF i = 0 THEN Wishes({"ann"}, {"R"}, {2})
                           ELSE Wishes({"ann", "bob"}, {"P"}, {2, 4})]

(* Two users that may want the same tile. *)
SameTile == [i \in Slots |-> IF i = 0 THEN Wishes({"ann"}, {"R"}, {2, 4})
                             ELSE Wishes({"bob"}, {"R"}, {2})]
=============================================================================
