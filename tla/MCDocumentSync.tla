--------------------------- MODULE MCDocumentSync ---------------------------
(* Texts and inodes are interchangeable: one file is enough to begin with.  *)
EXTENDS DocumentSync, TLC

CONSTANTS OpenedText, OpenedInode

OpenedInit == Init /\ disk = [content |-> OpenedText, ino |-> OpenedInode]

OpenedSpec == OpenedInit /\ [][Next]_vars /\ Fairness
=============================================================================
