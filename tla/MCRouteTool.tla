----------------------------- MODULE MCRouteTool -----------------------------
(* Every rule over two fields and an unknown one, the operators and their  *)
(* synonyms, and numbers on both sides of 0; one rule of every other       *)
(* field; frames of which one field is on both sides of the sign bit and   *)
(* no two of the others are always the same.                               *)
EXTENDS RouteTool, TLC

Numbers == [t \in {"-1", "0", "1", "2", "3", "-4"} |->
  CASE t = "-1" -> -1 [] t = "0" -> 0 [] t = "1" -> 1 [] t = "2" -> 2
    [] t = "3" -> 3 [] OTHER -> -4]

Others == {"type", "flags", "dest", "priority", "payload_len"}

Words == {"source", "ttl", "zone", "range", ">", "lt", "=="} \cup Others

Tokens == [t \in Words |-> 0] @@ Numbers

Texts ==
  {<<f, op, n>> : f \in {"source", "ttl", "zone"}, op \in {">", "lt", "==", "zone"},
                  n \in DOMAIN Numbers \cup {"zone"}}
  \cup {<<"range", f, lo, hi>> : f \in {"source", "zone"},
                                 lo, hi \in DOMAIN Numbers}
  \cup {<<f, "==", "1">> : f \in Others}
  \cup {<<"ttl", ">">>, <<"range", "ttl", "1">>}

\* source is any 32-bit value; the other fields are below the sign bit
MCFrames ==
  {[f \in FieldId |->
      IF f = 3 THEN s ELSE IF f = 6 THEN 3 - (s % 4)
      ELSE IF s % 2 = 0 THEN f % 4 ELSE f \div 4] : s \in 0 .. 7}
=============================================================================
