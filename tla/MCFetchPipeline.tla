-------------------------- MODULE MCFetchPipeline --------------------------
(* Small instances of FetchPipeline for TLC. *)
EXTENDS FetchPipeline

CONSTANTS r1, r2

TwoRequests == {r1, r2}

Addresses == {"short", "page", "other"}
ShortToPage == [u \in Addresses |-> IF u = "short" THEN "page" ELSE u]
RuledRemote == {"page"}

Asks(url, mode, format, refresh) ==
  [url : url, mode : mode, format : format, refresh : refresh]

\* Three keys are in use, over two entries.
SomeArgs ==
  Asks({"short"}, {"stealth"}, {"markdown"}, BOOLEAN)
    \cup Asks({"page"}, {"basic"}, {"airead"}, {FALSE})
    \cup Asks({"other"}, {"basic"}, {"html"}, {FALSE})
=============================================================================
