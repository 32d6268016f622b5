------------------------------ MODULE MC_DAVLevel ------------------------------
EXTENDS DAVLevel

\* Every field-value of up to four characters over the ten classes.
MC_MaxLen == 4

\* Lists of up to three elements, so "1", "2" and an extend meet in every order.
MC_MaxElems == 3
=============================================================================
