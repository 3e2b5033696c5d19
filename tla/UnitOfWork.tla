----------------------------- MODULE UnitOfWork -----------------------------
(***************************************************************************)
(* What a request handler's database session does to one column.           *)
(*                                                                         *)
(* Every handler gets its own SQLAlchemy session (app/database.py): the    *)
(* rows it loads stay in memory, what it assigns is only sent to the       *)
(* database when it commits, and then only the columns whose value differs *)
(* from the one that was loaded are part of the UPDATE.  The transaction   *)
(* runs at READ COMMITTED, so the UPDATE overwrites whatever another       *)
(* handler committed to that column since the row was loaded.              *)
(***************************************************************************)

\* The value a column has after the commit of a session that loaded it as
\* `loaded` and holds it as `held`, when the database has `stored`.
Flushed(stored, loaded, held) == IF held = loaded THEN stored ELSE held

=============================================================================
