------------------------------- MODULE MCHead -------------------------------
(* Operations on which TLC checks HeadWatermark. *)
EXTENDS HeadWatermark

\* A cursor, and offsets over a collection that loses no item.
Regular == {[type |-> "cursor", deletes |-> TRUE], [type |-> "offset", deletes |-> FALSE]}
=============================================================================
