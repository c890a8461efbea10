------------------------------ MODULE EgressGuard -------------------------------
(***************************************************************************)
(* services/egress_guard.py: which hosts and addresses a tenant's probe    *)
(* may not reach.  An address is how it is written and what it is: `range` *)
(* is of the address itself, for an IPv4-mapped IPv6 address of the IPv4   *)
(* address inside.  A host name is known by how it relates to the blocked  *)
(* suffixes.                                                               *)
(***************************************************************************)
Ranges == {"public", "flagged", "listed"}   \* is_loopback ... is_reserved; _BLOCKED_NETWORKS
Addresses == [form : {"plain", "mapped", "zoned", "text"}, range : Ranges]
Names == {"ordinary",     \* no blocked suffix
          "lookalike",    \* ends in a suffix, but not at a label: notlocalhost
          "suffix", "subdomain",
          "respelt",      \* a blocked name in capitals, with spaces or a final dot
          "empty"}

\* strip(), lower(), rstrip(".")
Canonical(name) == IF name = "respelt" THEN "suffix" ELSE name
host_is_blocked(name) == Canonical(name) \in {"empty", "suffix", "subdomain"}

\* The mapped address is judged as the IPv6 address around it, which is in no
\* list (mutant of ip_is_blocked).
ip_is_blocked_NoUnwrap(a) ==
    a.form = "text" \/ (a.form # "mapped" /\ a.range # "public")

\* A zone is cut off, a mapped address unwrapped; what is no address is blocked.
ip_is_blocked(a) == a.form = "text" \/ a.range # "public"

\* _guarded_getaddrinfo raises: the name is blocked, or any address is.
ResolutionBlocked(active, name, results) ==
    active /\ (host_is_blocked(name) \/ \E a \in results : ip_is_blocked(a))

\* _guarded_connect raises.
ConnectBlocked(active, a) == active /\ ip_is_blocked(a)
=================================================================================
