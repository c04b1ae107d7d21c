------------------------------ MODULE MCColdPath ------------------------------
(* Small instances of ColdPath for TLC: bytes 0, 1 and 2, ids of two bytes. *)
EXTENDS ColdPath

\* One name, the same followed by the byte after the separator, and an invalid
\* one that reads like a key of the first.
MCCallers == {<<2>>, <<2, 2>>, <<2, 1>>}

Base == [PlainConfig(1) EXCEPT !.capacity = 64]

\* Three schemas, another window for the first, and what is refused.
MCRequests ==
    { Base,
      [Base EXCEPT !.window = 1, !.recover = 1],
      [Base EXCEPT !.payload = 2],
      [Base EXCEPT !.dim = 2, !.dtype = 1, !.metric = 1, !.capacity = 0],
      [Base EXCEPT !.capacity = 96],
      [Base EXCEPT !.interval = 99],
      [Base EXCEPT !.abi = 2],
      PlainConfig(MaxDim + 1) }

\* What is refused, and what evicts everything.
MCWindows == {-1, 0}
=============================================================================
