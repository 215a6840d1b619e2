--------------------------- MODULE MCPhotospots ---------------------------
(***************************************************************************)
(* A small instance of Photospots for TLC.                                 *)
(***************************************************************************)
EXTENDS Photospots

\* What the safety properties read, and what the next steps depend on.  Once the
\* process has died no property asks who was written back.
View == <<unsafe, tables, stored, upload, tasks, crashed, IF crashed THEN {} ELSE returned>>
=============================================================================
