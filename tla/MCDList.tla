------------------------------ MODULE MCDList ------------------------------
\* A list of up to four nodes, in total, that may be removed and passed over.
EXTENDS DList

CONSTANTS n1, n2, n3, n4
=============================================================================
