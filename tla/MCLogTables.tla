---------------------------- MODULE MCLogTables ----------------------------
(***************************************************************************)
(* Tables with fewer rows than the code's 90 and 100.  Rows have ten       *)
(* entries as in the code, whose index arithmetic is decimal; the ten rows *)
(* of the alternative table and the marked entries are the real ones.      *)
(***************************************************************************)
EXTENDS LogTables

FirstMarked == <<5, 5, 6, 5, 4, 6, 5, 6, 5, 5>>

MCFlagged == {<<i, j>> \in (0..9) \X (0..9) : j >= FirstMarked[i + 1]}
=============================================================================
