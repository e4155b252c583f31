----------------------------- MODULE WaitQueue -----------------------------
(* The waiters of an asyncio.Lock or Semaphore, a deque: first in, first   *)
(* out, and whoever gives up is taken out of the middle.                   *)
EXTENDS Naturals, SequencesExt

\* The position of e, which is in s.
At(s, e) == CHOOSE i \in DOMAIN s : s[i] = e

Without(s, e) ==
  IF \E i \in DOMAIN s : s[i] = e THEN RemoveAt(s, At(s, e)) ELSE s
=============================================================================
