----------------------------- MODULE MCUserIds -----------------------------
(* The instance of UserIds that TLC checks: ids of two bits.               *)
EXTENDS UserIds

\* Lines: single ids, a range, a wrap, a count that truncates to nothing, junk.
MCLines == {<<0, 1, 1>>, <<1, 0, 1>>, <<2, 2, 1>>, <<0, 1, 2>>, <<2, 1, 6>>, <<1, 1, 4>>, Junk}

\* One or two of them in any order, three beyond the static array, and four,
\* which are too many.
MCText ==
  UNION {[1 .. n -> MCLines] : n \in 1 .. 2}
  \cup {<<<<2, 0, 1>>, <<0, 1, 1>>, <<1, 2, 1>>>>, <<<<1, 0, 1>>, <<2, 1, 1>>, <<0, 1, 1>>>>,
        <<<<2, 0, 1>>, <<0, 1, 1>>, <<1, 2, 1>>, Junk>>}

\* Three addresses, and one address three times.
MCPointers == {<<1, 2, 3>>, <<1, 1, 1>>}

=============================================================================
