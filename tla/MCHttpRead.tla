----------------------------- MODULE MCHttpRead -----------------------------
EXTENDS HttpRead

\* One chunk that fits into what http_read allocates, one that does not, and two.
SomeChunkings == {<< >>, <<1>>, <<3>>, <<2, 5>>}
=============================================================================
