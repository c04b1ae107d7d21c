---------------------------- MODULE MCEngineCalls ----------------------------
(* Small instances of EngineCalls for TLC: vectors of norm 5 and 0. *)
EXTENDS EngineCalls

CONSTANTS s1, s2, t1, t2

\* Two entries for the first sensor, in any order, and one for the second.
MCTraffic ==
    { [s |-> s1, ts |-> 1, vec |-> <<3, 4>>, payload |-> TRUE],
      [s |-> s1, ts |-> 2, vec |-> <<-4, 3>>, payload |-> FALSE],
      [s |-> s2, ts |-> 1, vec |-> <<0, 0>>, payload |-> TRUE] }

MCTargets == {<<5, 0>>}
MCRanges == {<<1, 2>>, <<2, 3>>}
\* One producer thread for both sensors, or one each.
Together == s1 :> t1 @@ s2 :> t1
Apart == s1 :> t1 @@ s2 :> t2

\* Both types and metrics; one engine that Open made, the INT8 ones with a single place.
MCSetups ==
    { [int8 |-> FALSE, cosine |-> TRUE, limit |-> 0, opened |-> FALSE, producer |-> Together],
      [int8 |-> FALSE, cosine |-> FALSE, limit |-> 0, opened |-> TRUE, producer |-> Apart],
      [int8 |-> TRUE, cosine |-> TRUE, limit |-> 1, opened |-> FALSE, producer |-> Apart],
      [int8 |-> TRUE, cosine |-> FALSE, limit |-> 1, opened |-> FALSE, producer |-> Together] }
=============================================================================
