------------------------------- MODULE MCSync --------------------------------
(* Two combinations that list a common key, with a key of its own each. *)
EXTENDS SyncSystem

TwoProducers == <<"a", "b">>
CommonListing == [a |-> <<"u1", "u2">>, b |-> <<"u2", "u3">>]
=============================================================================
