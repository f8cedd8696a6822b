----------------------------- MODULE RecordLog ------------------------------
(***************************************************************************)
(* What the journal file promises to the transaction manager: a sequence   *)
(* of complete records that only grows, by one record at a time, possibly  *)
(* followed by an incomplete record that opening the file cuts off.  A     *)
(* file without a complete record is never repaired.                       *)
(***************************************************************************)
EXTENDS Sequences

CONSTANT Image   \* what a record holds: the image of a database

VARIABLES recs, torn

Init == recs = <<>> /\ torn = FALSE

Tear == torn' = TRUE /\ recs' = recs

Complete == \E img \in Image : recs' = Append(recs, img) /\ torn' = FALSE

Cut == recs # <<>> /\ torn' = FALSE /\ recs' = recs

Spec == Init /\ [][Tear \/ Complete \/ Cut]_<<recs, torn>>
=============================================================================
