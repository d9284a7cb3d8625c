----------------------------- MODULE MCFragGroups -----------------------------
EXTENDS FragGroups

\* The last SDU in three fragments, the others in two.
MCCount == [k \in Keys |-> IF k = NumKeys THEN 3 ELSE 2]
===============================================================================
