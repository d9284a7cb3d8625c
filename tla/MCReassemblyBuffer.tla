-------------------------- MODULE MCReassemblyBuffer --------------------------
EXTENDS ReassemblyBuffer

\* Whole SDUs, sets of two and of three fragments, and a count past the bound.
MCFragments ==
    {<<0, 1>>, <<0, 2>>, <<1, 2>>, <<0, 3>>, <<1, 3>>, <<2, 3>>, <<0, MaxFragments + 1>>}
===============================================================================
