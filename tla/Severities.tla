------------------------------ MODULE Severities ------------------------------
(* How severe rows, events and findings are, in the order the code compares.   *)
EXTENDS Naturals

Info == 0
Low == 1
Medium == 2
High == 3
Critical == 4

Grades == 0 .. 4
===============================================================================
