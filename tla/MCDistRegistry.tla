--------------------------- MODULE MCDistRegistry ---------------------------
EXTENDS DistRegistry
Hello(h, from, to, out, hid) ==
  [host |-> h, from |-> from, to |-> to, output |-> out, hidden |-> hid]
(* Overlapping ranges: the longest first range ends where nobody goes on.  *)
MCSpares == [w \in {"x", "y", "z", "v"} |->
  CASE w = "x" -> Hello("hx", 1, 2, FALSE, TRUE)
    [] w = "y" -> Hello("hy", 1, 1, FALSE, TRUE)
    [] w = "z" -> Hello("hz", 2, 3, TRUE, FALSE)
    [] w = "v" -> Hello("hv", 3, 3, FALSE, TRUE)]
(* Two workers in a row. *)
MCRow == [w \in {"x", "y"} |->
  IF w = "x" THEN Hello("hx", 1, 1, FALSE, TRUE) ELSE Hello("hy", 2, 2, TRUE, FALSE)]
=============================================================================
