---------------------------- MODULE MCSuperStream ----------------------------
(* SuperStream with three messages, two of the same key; the other key is bound to both
   partitions. The hash of the first key falls on another partition once there are two. *)
EXTENDS SuperStream

ThreeKeys == <<"b", "b", "a">>
Hashes    == [k \in Keys |-> IF k = "a" THEN 4 ELSE 5]
Bound     == [k \in Keys |-> IF k = "a" THEN <<2, 1>> ELSE <<>>]
==============================================================================
