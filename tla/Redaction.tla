------------------------------- MODULE Redaction --------------------------------
(***************************************************************************)
(* _redact_body_bytes (services/executor.py) over sequences of letters,    *)
(* and what it should do, said by positions.  A mask that was put in is a  *)
(* symbol of its own: no secret holds any of the mask's bytes, and those a *)
(* body holds are letters like others.  The code orders secrets by         *)
(* characters and replaces bytes; of two secrets, one inside the other,    *)
(* the outer one is the longer by either count.                            *)
(***************************************************************************)
EXTENDS Naturals, Sequences, FiniteSets

CONSTANTS Letters, Mask

ASSUME MaskAssumption == Mask \notin Letters

\* `s` is found in the data at i.
At(s, data, i) ==
    /\ i + Len(s) <= Len(data) + 1
    /\ \A k \in DOMAIN s : data[i + k - 1] = s[k]

\* bytes.replace: from the left, occurrences that do not overlap.
Replace(data, needle) ==
    LET rest[i \in 1 .. Len(data) + 1] ==
            IF i > Len(data) THEN <<>>
            ELSE IF At(needle, data, i) THEN <<Mask>> \o rest[i + Len(needle)]
                 ELSE <<data[i]>> \o rest[i + 1]
    IN  rest[1]

\* Shortest first (mutant of Before).
Before_Shortest(secrets, i, j) ==
    \/ Len(secrets[i]) < Len(secrets[j])
    \/ Len(secrets[i]) = Len(secrets[j]) /\ i < j

\* sorted(.., key=len, reverse=True): longest first, those of one length as they are.
Before(secrets, i, j) ==
    \/ Len(secrets[i]) > Len(secrets[j])
    \/ Len(secrets[i]) = Len(secrets[j]) /\ i < j

Held(secrets) == {i \in DOMAIN secrets : secrets[i] # <<>>}

\* `order` runs through the positions in S, each before the next.
Ordered(order, secrets, S) ==
    /\ \A m, n \in DOMAIN order : m < n => Before(secrets, order[m], order[n])
    /\ \A i \in S : \E n \in DOMAIN order : order[n] = i

LongestFirst(secrets) ==
    LET held == Held(secrets)
        order == CHOOSE o \in [1 .. Cardinality(held) -> held] : Ordered(o, secrets, held)
    IN  [n \in 1 .. Cardinality(held) |-> secrets[order[n]]]

redact_body_bytes(data, secrets) ==
    LET order == LongestFirst(secrets)
        masked[n \in 0 .. Len(order)] ==
            IF n = 0 THEN data ELSE Replace(masked[n - 1], order[n])
    IN  masked[Len(order)]

---------------------------------------------------------------------------------
(* The reference. *)

\* The letter at d is part of a secret.
InSecret(secrets, data, d) ==
    \E n \in DOMAIN secrets, i \in DOMAIN data :
        At(secrets[n], data, i) /\ i <= d /\ d < i + Len(secrets[n])

\* Where two secrets share letters of the data, one is inside the other.
Nested(secrets, data) ==
    \A m, n \in DOMAIN secrets, i, j \in DOMAIN data :
        At(secrets[m], data, i) /\ At(secrets[n], data, j) =>
            \/ i + Len(secrets[m]) <= j \/ j + Len(secrets[n]) <= i
            \/ i <= j /\ j + Len(secrets[n]) <= i + Len(secrets[m])
            \/ j <= i /\ i + Len(secrets[m]) <= j + Len(secrets[n])

\* No secret is left.
NoneLeft(secrets, stored) ==
    \A n \in Held(secrets), i \in DOMAIN stored : ~At(secrets[n], stored, i)

\* `start` cuts the data into as many pieces as there are letters stored: each is
\* one letter that was kept, or letters of secrets under one mask.  Where secrets
\* only nest, none of theirs is kept.
Cut(start, secrets, data, stored) ==
    /\ start[1] = 1 /\ start[Len(stored) + 1] = Len(data) + 1
    /\ \A p \in DOMAIN stored :
        \/ /\ start[p + 1] = start[p] + 1 /\ stored[p] = data[start[p]]
           /\ Nested(secrets, data) => ~InSecret(secrets, data, start[p])
        \/ /\ start[p] < start[p + 1] /\ stored[p] = Mask
           /\ \A d \in start[p] .. start[p + 1] - 1 : InSecret(secrets, data, d)

\* What may be stored of the data: every secret is gone, and nothing else.
WellMasked(data, secrets, stored) ==
    /\ NoneLeft(secrets, stored)
    /\ \E start \in [1 .. Len(stored) + 1 -> 1 .. Len(data) + 1] :
           Cut(start, secrets, data, stored)
=================================================================================
