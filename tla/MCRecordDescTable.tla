------------------------- MODULE MCRecordDescTable -------------------------
EXTENDS RecordDescTable, TLC

(* Records of one, four and eight bytes at their natural alignment. *)
MCRecShapes == {<<1, 1>>, <<4, 4>>, <<8, 8>>}

(* Descriptor addresses are interchangeable. *)
DDSymmetry == Permutations(DDs)
====
