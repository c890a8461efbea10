------------------------------ MODULE MCProbeRoute ------------------------------
(***************************************************************************)
(* Two jobs on two pool threads and one thread of the default pool; bodies *)
(* and secrets over two letters.                                           *)
(***************************************************************************)
EXTENDS ProbeRoute, TLC

CONSTANTS j1, j2, p1, p2, h1, a, b

MCRuns == {j1, j2}
MCPoolThreads == {p1, p2}
MCDefaultThreads == {h1}
MCCallsOf == (j1 :> 2) @@ (j2 :> 1)

\* One secret inside another; two that overlap, one of them with itself.
MCSecrets == (j1 :> << <<b>>, <<a, b>> >>) @@ (j2 :> << <<b, a>>, <<a, a>> >>)
MCLetters == {a, b}

\* With one secret inside another; with one over itself, or none; with two that
\* overlap; with one at the end.
MCBodies == {<<a, b, b>>, <<a, a, a>>, <<b, a, a>>, <<a, b, a>>}

Plain(range) == [form |-> "plain", range |-> range]
MCHosts == {[name |-> "ordinary", results |-> {Plain("public")}],
            [name |-> "lookalike", results |-> {Plain("public"), Plain("listed")}],
            [name |-> "respelt", results |-> {Plain("public")}],
            [name |-> "ordinary", results |-> {[form |-> "mapped", range |-> "listed"]}],
            [name |-> "ordinary", results |-> {[form |-> "zoned", range |-> "flagged"]}]}

\* One job's dispatch is plain or fit to be sealed back; the other's comes from a
\* scheduler whose certificate or envelope is not what it should be.
Sealed(opens, cert) == [sealed |-> TRUE, opens |-> opens, replyCert |-> cert]
MCDispatches == (j1 :> {NoRequest, Sealed(TRUE, "rsa")})
                @@ (j2 :> {Sealed(TRUE, "none"), Sealed(TRUE, "unusable"), Sealed(FALSE, "rsa")})

\* Below zero, zero, cut to zero, below the floor, inside, above the ceiling.
MCHalves == {-3, 0, 1, 3, 4, 12}

Symmetry == Permutations(MCPoolThreads)
=================================================================================
