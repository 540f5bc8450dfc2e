--------------------------- MODULE MCConfigStore ---------------------------
(***************************************************************************)
(* Instances of ConfigStore: two keys, and words that read as headers when *)
(* they are taken for one, so that a misplaced scan has an effect.         *)
(***************************************************************************)
EXTENDS ConfigStore

TwoKeyBits == {0, 1}
TwoLenBits == {1, 2}
TwoKeys    == {{0}, {1}}

x == [key |-> {0}, len |-> {1}]
y == [key |-> {0, 1}, len |-> {2}]

(* Entries of 2 and 4 words: with an even page they never fill it exactly. *)
EvenEntries == {<<x>>, <<y>>, <<x, y, x>>}

(* Entries of 2 words: three of them fill a page of 7 words exactly. *)
OneWord == {<<x>>, <<y>>}

(* Entries of 1, 2 and 3 words. *)
AnyEntries == {<< >>, <<x>>, <<y, x>>}

(* A torn store is followed through start-up up to its next operation. *)
TornBound == torn => phase \in {"off", "idle"}
=============================================================================
