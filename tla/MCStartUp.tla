----------------------------- MODULE MCStartUp -----------------------------
(* Configurations of up to three lines, of a section, a key and the two    *)
(* written as one, with values that are integers, start like one, or not.  *)
EXTENDS StartUp

MCValues == {"1", "2.9", "-2", "many"}
MCStoi ==
  [v \in MCValues |-> CASE v = "1" -> 1 [] v = "2.9" -> 2 [] v = "-2" -> -2 [] v = "many" -> NotAnInt]
MCKeys == {<<"topology">>, <<"max_regen_attempts">>, RegenKey}
MCLines ==
  {Skipped} \cup {Line(i, k, v) : i \in BOOLEAN, k \in MCKeys, v \in {"1", "2.9", Empty}}
    \cup {Line(TRUE, <<"max_regen_attempts">>, v) : v \in {"many", "-2"}}
=============================================================================
