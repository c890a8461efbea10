----------------------------- MODULE BootstrapTrust -----------------------------
(***************************************************************************)
(* Who the agent talks to when it enrols (mtls/bootstrap_trust.py with the *)
(* request of mtls/bootstrap.py) and when it renews (_post_renewal of      *)
(* mtls/renewal.py), and which guards its settings arm (config.py,         *)
(* main.py).  Whoever answers at the gateway's address is a peer, known by *)
(* the certificate it presents; any peer may answer any connection.  A TLS *)
(* context is the set of peers it accepts; an unverified connection        *)
(* accepts all.  The CAs an agent trusts from then on are those it was     *)
(* handed by whoever answered its enrolment.  A process is started with    *)
(* the settings of the moment, on the files of the one before; how those   *)
(* are written, and torn, is CertLifecycle's.                              *)
(***************************************************************************)
EXTENDS Naturals, FiniteSets

CONSTANTS Peers,
          Public,     \* certificates the system trust store chains to, for this host
          Private,    \* those issued by the CA of PROBE_AGENT_BOOTSTRAP_CA_BUNDLE
          Pinned,     \* those whose fingerprint is in PROBE_AGENT_BOOTSTRAP_PIN_SHA256
          CAs,
          Issuer,     \* which of them issued a peer's certificate
          Platform,   \* the CAs of the platform
          Hands,      \* the bundles, sets of CAs, that a peer may hand out
          Nobody,     \* no peer
          MaxPosts    \* bound: requests of one task are counted up to here

ASSUME TrustAssumption ==
    /\ Public \subseteq Peers /\ Private \subseteq Peers /\ Pinned \subseteq Peers
    /\ Platform \subseteq CAs
    /\ Issuer \in [Peers -> CAs] /\ Hands \in [Peers -> SUBSET (SUBSET CAs)]
    /\ Nobody \notin Peers
    /\ MaxPosts \in Nat \ {0}

\* The gateway, under whichever of the platform's CAs it has its certificate from.
Gateways == {p \in Peers : Issuer[p] \in Platform}

\* What the operator names, and the gateway itself, are the platform: they hand
\* out its CAs.  Nothing is assumed of anybody else who may answer.
ASSUME HonestAssumption ==
    \A p \in Public \cup Private \cup Pinned \cup Gateways : Hands[p] \subseteq SUBSET Platform

VARIABLES settings,   \* the environment the process was started with
          pc,         \* "boot", "fetch", "post", "failed", "idle"
          task,       \* what the request is for: "enrol", "renew", "renew_front"
          trust,      \* the peers the TLS context under construction or in use accepts
          fetched,    \* whose certificate the pre-connect got
          enrolled,   \* certificates are on disk
          anchors,    \* the CAs of the bundle on disk, which are also the pinned ones
          guard,      \* _egress_enabled
          vouched,    \* history: every peer that supplied that bundle was authenticated
          dialled,    \* history: what this process has connected to a peer for
          sent,       \* history: the last request a peer got from it
          posts       \* history: requests of this attempt that a peer got

disk == <<enrolled, anchors, vouched>>
history == <<dialled, sent, posts>>
vars == <<settings, pc, task, trust, fetched, guard, disk, history>>

Tasks == {"enrol", "renew", "renew_front"}

\* A request as sent: what for, to whom, whose certificate was fetched before, and
\* the bundle on disk at the time.
Sent == [task : Tasks \cup {"none"}, to : Peers \cup {Nobody},
         fetched : Peers \cup {Nobody}, anchors : SUBSET CAs, vouched : BOOLEAN]

NothingSent == [task |-> "none", to |-> Nobody, fetched |-> Nobody,
                anchors |-> {}, vouched |-> FALSE]

\* deployment_env: the exact value, one that differs in case or spaces, or another.
Settings == [env : {"production", "respelt", "dev"}, https : BOOLEAN, insecure : BOOLEAN,
             pin : {"unset", "malformed", "set"}, bundle : {"unset", "set"},
             egress_guard : {"unset", "on", "off"}]

\* bootstrap_trust.is_production: strip().lower()
is_production == settings.env \in {"production", "respelt"}

\* AgentSettings.is_production and egress_guard_enabled
settings_is_production == settings.env = "production"
egress_guard_enabled ==
    IF settings.egress_guard # "unset" THEN settings.egress_guard = "on"
    ELSE settings_is_production

Init ==
    /\ settings \in Settings
    /\ pc = "boot" /\ task = "enrol" /\ trust = {} /\ fetched = Nobody /\ guard = FALSE
    /\ enrolled = FALSE /\ anchors = {} /\ vouched = FALSE
    /\ dialled = {} /\ sent = NothingSent /\ posts = 0

---------------------------------------------------------------------------------
(* Building a context.  Each is a conjunct on pc', trust' and fetched'. *)

Fail == pc' = "failed" /\ UNCHANGED <<trust, fetched>>

\* A peer without a certificate will do (mutant of Post).
Post_Certless(accepted) == pc' = "post" /\ trust' = accepted \cup {Nobody} /\ fetched' = Nobody

\* The request goes to a peer of this set.
Post(accepted) == pc' = "post" /\ trust' = accepted /\ fetched' = Nobody

\* The pin is parsed when there is a certificate to compare it with (mutant of
\* gateway_trust_context).
gateway_trust_context_LateParse ==
    \/ settings.pin # "unset" /\ pc' = "fetch" /\ UNCHANGED <<trust, fetched>>
    \/ settings.pin = "unset" /\ settings.bundle = "set" /\ (Fail \/ Post(Private))
    \/ settings.pin = "unset" /\ settings.bundle = "unset" /\ Post(Public)

\* The gateway as the operator configured it: pin, else bundle, else system store.
\* The pin is parsed before any connection; the file of the bundle is looked for
\* each time, and may not be there.
gateway_trust_context ==
    \/ settings.pin = "malformed" /\ Fail
    \/ settings.pin = "set" /\ pc' = "fetch" /\ UNCHANGED <<trust, fetched>>
    \/ settings.pin = "unset" /\ settings.bundle = "set" /\ (Fail \/ Post(Private))
    \/ settings.pin = "unset" /\ settings.bundle = "unset" /\ Post(Public)

\* The opt-out is looked at before the environment (mutant of Unauthenticated).
Unauthenticated_OptOutFirst ==
    IF settings.insecure THEN "allowed"
    ELSE IF settings.https THEN "no"
    ELSE IF is_production THEN "refused" ELSE "allowed"

\* Whether the settings ask for a gateway that is not authenticated, and may.
Unauthenticated ==
    IF settings.https /\ ~settings.insecure THEN "no"
    ELSE IF is_production THEN "refused" ELSE "allowed"

resolve_bootstrap_verify ==
    \/ Unauthenticated = "refused" /\ Fail
    \/ Unauthenticated = "allowed" /\ Post(Peers)
    \/ Unauthenticated = "no" /\ gateway_trust_context

---------------------------------------------------------------------------------
(* The steps. *)

\* ensure_registered, from the start of a process without certificates.
Enrol ==
    /\ pc = "boot" /\ ~enrolled
    /\ task' = "enrol"
    /\ resolve_bootstrap_verify
    /\ posts' = 0
    /\ UNCHANGED <<settings, guard, disk, dialled, sent>>

\* The context accepts any pinned certificate, not the one that was checked
\* (mutant of PinAndBind).
PinAndBind_AnyPin(p) ==
    IF p \in Pinned THEN pc' = "post" /\ trust' = Pinned /\ fetched' = p ELSE Fail

\* The pin is checked, and the request bound to the certificate that was seen.
PinAndBind(p) ==
    IF p \in Pinned THEN pc' = "post" /\ trust' = {p} /\ fetched' = p ELSE Fail

\* fetch_peer_certificate and _pin_and_bind: a connection that carries nothing.
FetchPeerCertificate(p) ==
    /\ pc = "fetch"
    /\ dialled' = dialled \cup {task}
    /\ PinAndBind(p)
    /\ UNCHANGED <<settings, task, guard, disk, sent, posts>>

\* The peer is accepted and gets the request.
Send(p) ==
    /\ dialled' = dialled \cup {task}
    /\ sent' = [task |-> task, to |-> p, fetched |-> fetched,
                anchors |-> anchors, vouched |-> vouched]
    /\ posts' = IF posts < MaxPosts THEN posts + 1 ELSE posts

\* ensure_registered: certificate and bundle are written as the peer hands them
\* out, and the bundle is pinned.
EnrolmentAnswered(p) ==
    /\ task = "enrol"
    /\ pc' = "boot" /\ enrolled' = TRUE
    /\ anchors' \in Hands[p]
    /\ vouched' = (Unauthenticated = "no")

\* _renew, with no bundle in the answer.
RenewalAnswered ==
    /\ task # "enrol"
    /\ pc' = "idle" /\ UNCHANGED disk

\* _renew, with a bundle that keeps some of what is pinned: it replaces all of it.
BundleAccepted(p) ==
    /\ task # "enrol"
    /\ pc' = "idle" /\ UNCHANGED enrolled
    /\ anchors' \in Hands[p] /\ anchors' \cap anchors # {}
    /\ vouched' = (vouched /\ settings.https)

\* bundle_preserves_pins says no: "refusing to rotate the trust anchor".
BundleRefused(p) ==
    /\ task # "enrol"
    /\ \E bundle \in Hands[p] : bundle \cap anchors = {}
    /\ pc' = "failed" /\ UNCHANGED disk

\* It answers.
Answered(p) ==
    /\ pc = "post" /\ p \in trust
    /\ Send(p)
    /\ EnrolmentAnswered(p) \/ RenewalAnswered \/ BundleAccepted(p) \/ BundleRefused(p)
    /\ UNCHANGED <<settings, task, trust, fetched, guard>>

\* Any failure moves a renewal on to the front's trust (mutant of FailedPost).
FailedPost_MovesOn ==
    IF task = "renew" THEN task' = "renew_front" /\ gateway_trust_context
    ELSE Fail /\ UNCHANGED task

\* An error, a timeout or a lost answer ends the attempt.
FailedPost == Fail /\ UNCHANGED task

Unanswered(p) ==
    /\ pc = "post" /\ p \in trust
    /\ Send(p)
    /\ FailedPost
    /\ UNCHANGED <<settings, guard, disk>>

\* The renewal falls back on the trust of enrolment, opt-out and all (mutant of
\* FrontTrust).
FrontTrust_AsEnrolment == task' = "renew_front" /\ resolve_bootstrap_verify

\* The peer's certificate was not issued by a CA the agent holds: authenticate it as
\* what the operator said stands in front of the gateway.
FrontTrust == task' = "renew_front" /\ gateway_trust_context

\* The peer's certificate is rejected in the handshake; nothing was sent.
Rejected(p) ==
    /\ pc = "post" /\ p \notin trust
    /\ dialled' = dialled \cup {task}
    /\ IF task = "renew" THEN FrontTrust ELSE Fail /\ UNCHANGED task
    /\ UNCHANGED <<settings, guard, disk, sent, posts>>

\* No connection: refused, timed out, no such name.
Unreachable ==
    /\ pc \in {"fetch", "post"}
    /\ Fail
    /\ UNCHANGED <<settings, task, guard, disk, history>>

\* lifespan: the guards are set, and renewal_loop starts.
Serve ==
    /\ pc = "boot" /\ enrolled
    /\ pc' = "idle"
    /\ guard' = egress_guard_enabled
    /\ UNCHANGED <<settings, task, trust, fetched, disk, history>>

\* Who holds a certificate of a CA in the bundle on disk.
Certified == {p \in Peers : Issuer[p] \in anchors}

\* _renewal_verify, before any setting is looked at but the URL: mutual TLS against
\* the bundle on disk, or plain http.
Renew ==
    /\ pc = "idle" /\ enrolled
    /\ task' = "renew"
    /\ Post(IF settings.https THEN Certified ELSE Peers)
    /\ posts' = 0
    /\ UNCHANGED <<settings, guard, disk, dialled, sent>>

\* A failed renewal ends itself, not the process.
Recover ==
    /\ pc = "failed" /\ task # "enrol"
    /\ pc' = "idle"
    /\ UNCHANGED <<settings, task, trust, fetched, guard, disk, history>>

\* The process ends, wherever it is (a failed enrolment ends it), and another is
\* started on the files that are there, with the environment of that moment.
Restart ==
    /\ settings' \in Settings
    /\ pc' = "boot" /\ task' = "enrol" /\ trust' = {} /\ fetched' = Nobody
    /\ guard' = FALSE
    /\ dialled' = {} /\ sent' = NothingSent /\ posts' = 0
    /\ UNCHANGED disk

Next == \/ Enrol \/ Serve \/ Renew \/ Unreachable \/ Recover \/ Restart
        \/ \E p \in Peers : FetchPeerCertificate(p) \/ Answered(p) \/ Unanswered(p) \/ Rejected(p)

Spec == Init /\ [][Next]_vars

---------------------------------------------------------------------------------
(* Properties. *)

\* Types of the variables.
TypeOK ==
    /\ settings \in Settings
    /\ pc \in {"boot", "fetch", "post", "failed", "idle"}
    /\ task \in Tasks
    /\ trust \subseteq Peers
    /\ fetched \in Peers \cup {Nobody}
    /\ enrolled \in BOOLEAN /\ guard \in BOOLEAN /\ vouched \in BOOLEAN
    /\ anchors \subseteq CAs /\ dialled \subseteq Tasks
    /\ sent \in Sent
    /\ posts \in 0 .. MaxPosts

\* The peers the operator's settings authenticate: the strongest statement made,
\* also where the file of the bundle has gone.
Configured == IF settings.pin = "set" THEN Pinned
              ELSE IF settings.bundle = "set" THEN Private ELSE Public

\* The bootstrap token goes to a peer the operator's settings authenticate, unless
\* they say in so many words that none is to be, outside production however spelt.
TokenOnlyToConfigured ==
    sent.task = "enrol" =>
        \/ sent.to \in Configured
        \/ settings.env = "dev" /\ (settings.insecure \/ ~settings.https)

\* _pin_and_bind: "there is no check-then-use gap to race".  A peer that gets a
\* request after a pin was checked is the one whose certificate was checked.
BoundToFetched == sent.fetched # Nobody => sent.to = sent.fetched

\* _post_renewal: "Neither path skips verification".  Over https a renewal goes to a
\* front the operator configured or to who holds a certificate of a CA on disk; and
\* where every bundle on disk so far came from an authenticated peer, that is the
\* platform's gateway.  (An agent enrolled under the opt-out, or over http, pinned
\* the CA of whoever answered and renews with them.)
RenewalAlwaysVerified ==
    (sent.task \in {"renew", "renew_front"} /\ settings.https) =>
        /\ sent.to \in Configured \/ Issuer[sent.to] \in sent.anchors
        /\ sent.vouched => sent.to \in Configured \cup Gateways

\* An attempt sends its request once: the second trust is tried only when nothing
\* was sent under the first, so the gateway certifies at most one key for it.
OnePostPerAttempt == posts <= 1

\* gateway_trust_context: "Parse before touching the network so a typo'd pin is a
\* config error".  What the settings make an error of is found before the agent
\* connects for what they are asked about: an enrolment that is refused or has a
\* malformed pin to go by, and a renewal's second attempt that has.  (The first one
\* of a renewal looks at neither, and does connect.)
SettingsErrorNeverDials ==
    /\ Unauthenticated = "refused" => "enrol" \notin dialled
    /\ settings.https /\ settings.pin = "malformed" =>
          /\ "renew_front" \notin dialled
          /\ Unauthenticated = "no" => "enrol" \notin dialled

\* config.py: 'Only the exact value "production" arms the production-gated guards,
\* mirroring [...] the bootstrap trust checks': on an agent that serves and was not
\* told otherwise, the egress guard is on exactly where those are armed.
GuardsArmedTogether ==
    (pc = "idle" /\ settings.egress_guard = "unset") => (guard <=> is_production)
=================================================================================
