--------------------------- MODULE AppendOnlyLog ---------------------------
(***************************************************************************)
(* What the audit trail promises: one sequence of entries, which only      *)
(* grows, at its end and by one entry at a time.                           *)
(***************************************************************************)
EXTENDS Sequences

CONSTANT Entries
VARIABLE log

Init == log \in Seq(Entries)

Write(e) == log' = Append(log, e)

Next == \E e \in Entries : Write(e)

Spec == Init /\ [][Next]_log
=============================================================================
