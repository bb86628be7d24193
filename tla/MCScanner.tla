----------------------------- MODULE MCScanner -----------------------------
\* A header of three characters instead of four, and three prompts: one that a
\* chunk can end in, one that comes back in itself, and one that is not set.
EXTENDS Scanner

MCPattern == <<"*", "B", "0">>

MCPrompts == <<<<"B", "1">>, <<"1", "1", "B">>, <<>>>>
=============================================================================
