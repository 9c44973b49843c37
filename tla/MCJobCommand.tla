---- MODULE MCJobCommand ----
(* Every command portion up to five characters long: each can have a percent *)
(* before, in and after a word, escaped or not, twice in a row, and last.    *)
EXTENDS JobCommand

MCTexts == {s \in UNION {[1 .. n -> Chars \ {"\n"}] : n \in 1 .. 5} : s[1] # " " /\ s[Len(s)] # " "}
====
