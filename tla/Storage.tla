------------------------------- MODULE Storage -------------------------------
(***************************************************************************)
(* What the repository gets from one table that has a unique index         *)
(* (internal/db over gorm and PostgreSQL): a multi-row insert is one       *)
(* statement, and is refused as a whole.                                   *)
(***************************************************************************)
EXTENDS Functions

\* Create(&records) succeeds: gorm refuses an empty slice (ErrEmptySlice), and the index
\* refuses a key that occurs twice among the records or is in the table already.
\* batch[i] is the key of the i-th record, present the keys in the table.
Accepts(present, batch) ==
    /\ DOMAIN batch # {}
    /\ IsInjective(batch)
    /\ Range(batch) \cap present = {}
=============================================================================
