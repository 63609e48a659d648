-------------------------- MODULE MCLanguageServer --------------------------
EXTENDS LanguageServer
SmallBounds == [d \in Deeds |-> IF d = "edit" THEN 2 ELSE 1]
====
