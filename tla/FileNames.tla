------------------------------ MODULE FileNames ------------------------------
(* What files and programs are called, as the correlation and the map compare  *)
(* it: a directory and a name.  A bare name has no directory.                  *)

CONSTANT None

IsFileName(v) == v = [dir |-> v.dir, base |-> v.base]

NameOnly(v) == [v EXCEPT !.dir = None]
HasPath(v) == v.dir # None
=============================================================================
