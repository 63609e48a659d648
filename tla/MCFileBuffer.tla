---------------------------- MODULE MCFileBuffer ----------------------------
EXTENDS FileBuffer
SmallBounds == [edit |-> 2, undo |-> 1, outside |-> 1, save |-> 1,
                discard |-> 1, rename |-> 1, join |-> 1]
\* One edit and one rename, and nothing else that anybody does.
RenameBounds == [deed \in Deeds |-> IF deed \in {"edit", "rename"} THEN 1 ELSE 0]
====
