--------------------------- MODULE MCContentGraph ---------------------------
(* A workspace of version 3 whose item has a forward and a reverse card, and   *)
(* two imported ones: a note with two deletions, and a prompt with an answer.  *)
EXTENDS ContentGraph

card(item, kind) == [item |-> item, kind |-> kind, reps |-> 0, rendering |-> None]

pages == {[items |-> 1 :> [type |-> None, values |-> <<1, 2, 0>>],
           cards |-> 11 :> card(1, "forward") @@ 12 :> card(1, "reverse"),
           reviews |-> {11}, trash |-> <<>>]}

shown(deletion) ==
    [note |-> 1, template |-> 1, ordinal |-> IF deletion = 2 THEN 1 ELSE 0, kind |-> "forward", reps |-> 0, deletion |-> deletion]

document(kind, fields, cards) ==
    [rev |-> 1, types |-> 1 :> [kind |-> kind, rev |-> 1],
     fields |-> [f \in 1 .. fields |-> [type |-> 1, ordinal |-> f - 1, rev |-> 1]],
     templates |-> 1 :> [type |-> 1, ordinal |-> 0, rev |-> 1],
     notes |-> 1 :> [type |-> 1, values |-> [f \in 1 .. fields |-> f + 4]],
     cards |-> cards, reviews |-> {11}, deadNotes |-> {}, deadCards |-> {}, trash |-> <<>>]

imported == {document("deletion", 1, 11 :> shown(1) @@ 12 :> shown(2)), document("standard", 2, 11 :> shown(0))}
=============================================================================
