-------------------------- MODULE MCWorkshopCommerce --------------------------
EXTENDS WorkshopCommerce, TLC

\* The properties treat servers, orders and client keys alike.
Interchangeable == Permutations(Servers) \cup Permutations(Orders) \cup Permutations(Keys)
=============================================================================
