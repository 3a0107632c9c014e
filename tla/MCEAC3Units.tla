----------------------------- MODULE MCEAC3Units -----------------------------
(* Two independent substreams with a dependent one each. *)
EXTENDS EAC3Decoder

Independent(i, b) == [kind |-> "whole", independent |-> TRUE, id |-> i, blocks |-> b, long |-> FALSE]
Dependent(k, b) == [kind |-> "whole", independent |-> FALSE, id |-> k, blocks |-> b, long |-> FALSE]
Long(frame) == [frame EXCEPT !.long = TRUE]
Part(frame) == [frame EXCEPT !.kind = "part"]
Junk == [kind |-> "junk"]
Stub == [kind |-> "stub"]

Whole == {<<Independent(0, 6)>>, <<Independent(0, 6), Dependent(0, 6)>>,
          <<Independent(0, 3), Dependent(0, 3), Independent(0, 3), Dependent(0, 3)>>,
          <<Independent(0, 6), Independent(1, 6), Dependent(0, 6)>>}
Wrong == {<<Independent(0, 3)>>, <<Independent(0, 6), Dependent(0, 3)>>, <<Independent(1, 6)>>,
          <<Dependent(0, 6)>>, <<Long(Independent(0, 6))>>, <<Junk>>}
Ending == {<<>>, <<Stub>>, <<Part(Independent(0, 6))>>, <<Part(Dependent(0, 6))>>}

(* Behind junk the decoder may skip a syncframe, and go on counting in the   *)
(* row of the one before.                                                    *)
Skipping == {<<Independent(0, 6), Dependent(0, 3), Junk, Independent(1, 6), Dependent(0, 3)>>,
             <<Independent(0, 3), Junk, Independent(0, 3), Dependent(0, 6), Independent(0, 3)>>}

(* Any two of these, or three access units, and then perhaps the beginning   *)
(* of something else.                                                        *)
Bodies ==
  {a \o b : a, b \in Whole \cup Wrong \cup {<<>>}} \cup {a \o b \o c : a, b, c \in Whole}
  \cup {a \o b : a \in Whole \cup {<<>>}, b \in Skipping}

MCPESData == {body \o ending : body \in Bodies, ending \in Ending} \ {<<>>}
=============================================================================
