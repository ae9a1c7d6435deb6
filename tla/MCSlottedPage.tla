--------------------------- MODULE MCSlottedPage ---------------------------
(* A page of 24 bytes, for up to four records of one or three bytes.       *)
EXTENDS SlottedPageClient
CONSTANTS a, b
MCRecord == {<<a>>, <<b, a, b>>}
=============================================================================
