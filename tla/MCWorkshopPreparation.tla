------------------------ MODULE MCWorkshopPreparation ------------------------
EXTENDS WorkshopPreparation, TLC

CONSTANTS a1, a2

\* a1 is listed on the first page, a2 on the last one.
TwoPages == [a \in Articles |-> IF a = a1 THEN 0 ELSE LastPage]

\* The properties treat passes alike.
Interchangeable == Permutations(Passes)
=============================================================================
