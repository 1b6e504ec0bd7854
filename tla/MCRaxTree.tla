----------------------------- MODULE MCRaxTree -----------------------------
EXTENDS RaxTree

\* Keys over two bytes: the empty one, prefixes of each other and forks at every depth.
MCKeys == {<<>>, <<1>>, <<1, 1>>, <<1, 2, 1>>, <<1, 2, 2>>, <<2, 1>>}

\* Keys none of which is a prefix of another.
MCForks == {<<1, 1, 1>>, <<1, 1, 2>>, <<1, 2>>, <<2, 1>>, <<2, 2>>, <<3>>}
=============================================================================
