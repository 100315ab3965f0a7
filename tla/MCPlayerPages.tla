--------------------------- MODULE MCPlayerPages ---------------------------
\* Page loads are interchangeable, and so are the two credentials: the
\* specification names none of them.
EXTENDS PlayerPages, TLC

CONSTANTS mine, yours, now, current

\* Two credentials that ask for what one player plays, and its page of songs.
MCPageOf == (mine :> current) @@ (yours :> current) @@ (now :> now)

MCPages == {current, now}

Symmetry == Permutations(Callers) \cup Permutations({mine, yours})
=============================================================================
