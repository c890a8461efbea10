----------------------------- MODULE MCCallTimeouts -----------------------------
(* Two calls, each of which may be retried, at two targets, one over TLS. *)
EXTENDS CallTimeouts

CONSTANTS t1, t2

MCTargets == {t1, t2}
MCHttps == {t2}
MCGaps == {0, 1}

\* Bound: after the run's first attempt, paths only lose and delay what is sent.
\* What they can do to a response is the same each time, and only the verdict of
\* a record tells of it.
LaterResponsesInOrder ==
    (calls # <<>> \/ timeouts # <<>>) => ~conn.gap /\ conn.overtaken = 0 /\ conn.segs <= Segments
=================================================================================
