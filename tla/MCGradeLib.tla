----------------------------- MODULE MCGradeLib -----------------------------
(* GradeLib for TLC: two programs with a match test each, in the order in *)
(* which grade-lab registers them, and the end of a part between them.       *)
EXTENDS GradeLib

Run == [kind |-> "run", points |-> 0, parent |-> 0, regexps |-> {}, no |-> {}]
Match(p, pts, r, n) ==
    [kind |-> "match", points |-> pts, parent |-> p, regexps |-> r, no |-> n]
Part == [Run EXCEPT !.kind = "part"]

MCTests == <<Run, Match(1, 2, {"ok1", "ok2"}, {"bad"}), Part, Run, Match(4, 3, {"ok1"}, {})>>

MCOutputs == {<<{"ok1"}, {"ok2"}>>, <<{"ok1"}, {"ok2", "bad"}>>, <<>>}
=============================================================================
