------------------------------ MODULE MCPages -------------------------------
EXTENDS Pages

Mix(edits, recalls, files, foreign, faults) ==
    [edits |-> edits, recalls |-> recalls, files |-> files,
     foreign |-> foreign, faults |-> faults]

(* Two saves with a write of others or a loss; an undo beside one, and its *)
(* redo; a file picked, beside a write of others, an edit or an undo.      *)
FewEvents == {Mix(2, 0, 0, 1, 0), Mix(2, 0, 0, 0, 1), Mix(1, 0, 0, 1, 1),
              Mix(1, 1, 0, 1, 0), Mix(1, 2, 0, 0, 0),
              Mix(0, 0, 1, 1, 0), Mix(1, 0, 1, 0, 0), Mix(0, 1, 1, 1, 0)}
=============================================================================
