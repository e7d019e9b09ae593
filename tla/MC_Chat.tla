------------------------------- MODULE MC_Chat -------------------------------
EXTENDS Chat

\* CLOSE_COMMAND is one byte B; a is any other byte.
MC_CLOSE == <<"B">>
\* Lines that fit in buf, and a line one byte too long for it.
MC_ShortLines == {<<"a">>, MC_CLOSE}
MC_LongLines == MC_ShortLines \cup {<<"a", "a">>}
=============================================================================
