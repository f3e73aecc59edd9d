-------------------------------- MODULE MCAT25 --------------------------------
(* An instance of AT25 for TLC: a chip of two pages.                        *)
EXTENDS AT25

\* From the middle of a page to the middle of the next; the whole chip and
\* more; its last byte and more; behind its end.
MCRequests == {<<1, 2>>, <<0, 5>>, <<3, 2>>, <<4, 1>>}

\* Bytes that differ within a page, and from page to page.
MCBuffers == {<<10, 255>>, <<255, 10>>, <<10, 10, 255, 10, 255>>, <<255, 10, 10, 255, 10>>}

MCWords == 0 .. 255
=============================================================================
