------------------------------ MODULE MCRkgrep ------------------------------
(* Rkgrep for TLC: documents of up to five characters out of a, b, newline  *)
(* and a byte that is not ASCII, a small prime so that hashes collide and   *)
(* differences vanish, codes below it, one pattern more than the array has. *)
EXTENDS Rkgrep

a == 1
b == 2

MCArgs == {<<a>>, <<a, b>>, <<b, BAR, a>>, <<BAR, a, b, BAR, BAR, b, b, BAR>>,
           <<b, a, b, BAR, a>>, <<BAR>>, <<a, BAR, b, BAR, a>>}

MCFiles == BoundedSeq({a, b, NL}, 4) \cup
           {s \o <<c>> : s \in [1 .. 4 -> {a, b}], c \in {a, b}} \cup
           {<<a, -1>>, <<-1, a>>}

MCGarbage == {-5, 0, 3}

MCTails == {<<NUL>>, <<NL, NUL>>, <<a, NUL>>, <<b, a, NUL>>, <<NL, a, NUL>>}
=============================================================================
