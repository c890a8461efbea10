-------------------------- MODULE BootstrapTrustProofs --------------------------
(***************************************************************************)
(* Theorems about BootstrapTrust, for any peers, any trust stores, any     *)
(* pins and any CAs.  The properties speak of requests that were sent; the *)
(* invariant says what must be so while one is prepared: whom the context  *)
(* accepts, by the task it is built for, that nothing was sent yet, and    *)
(* whose CAs are on disk.                                                  *)
(***************************************************************************)
EXTENDS BootstrapTrust, TLAPS

\* A certificate is fetched only for a pin, and never on behalf of enrolment that
\* need not authenticate.
Fetching ==
    pc = "fetch" => /\ settings.pin = "set" /\ posts = 0
                    /\ task # "renew"
                    /\ task = "enrol" => Unauthenticated = "no"

\* Whom a request that is about to be sent may reach.
Prepared ==
    pc = "post" =>
        /\ posts = 0
        /\ fetched # Nobody => trust = {fetched}
        /\ task = "enrol" =>
              \/ Unauthenticated = "allowed"
              \/ /\ Unauthenticated = "no" /\ trust \subseteq Configured
                 /\ settings.pin # "malformed"
        /\ task = "renew" => (settings.https => trust = Certified)
        /\ task = "renew_front" => trust \subseteq Configured /\ settings.pin # "malformed"

\* A bundle that came from authenticated peers all the way is the platform's.
Vouched == vouched => anchors \subseteq Platform

\* What holds of the requests that were sent.
Kept == /\ TokenOnlyToConfigured /\ BoundToFetched
        /\ RenewalAlwaysVerified /\ SettingsErrorNeverDials

IInv == TypeOK /\ Fetching /\ Prepared /\ Vouched /\ posts <= 1 /\ Kept

\* What the operator's trust comes to: an error, a certificate to fetch, or a
\* context that accepts whom the settings name.
LEMMA GatewayTrust ==
    ASSUME TypeOK, gateway_trust_context
    PROVE  \/ pc' = "failed" /\ trust' = trust /\ fetched' = fetched
           \/ /\ pc' = "fetch" /\ settings.pin = "set"
              /\ trust' = trust /\ fetched' = fetched
           \/ /\ pc' = "post" /\ trust' = Configured /\ fetched' = Nobody
              /\ settings.pin = "unset"
  BY DEF TypeOK, Settings, gateway_trust_context, Fail, Post, Configured

\* The peers the settings authenticate are among the peers.
LEMMA ConfiguredArePeers ==
    ASSUME TypeOK PROVE Configured \subseteq Peers
  BY TrustAssumption DEF TypeOK, Configured

\* What the settings say of trust changes with the settings alone.
LEMMA SameSettings ==
    ASSUME settings' = settings
    PROVE  Configured' = Configured /\ Unauthenticated' = Unauthenticated
  BY DEF Configured, Unauthenticated, is_production

\* A step that sends nothing and dials nobody keeps what holds of what was sent.
LEMMA NothingNew ==
    ASSUME Kept, settings' = settings, sent' = sent, dialled' = dialled
    PROVE  Kept'
  BY SameSettings
     DEF Kept, TokenOnlyToConfigured, BoundToFetched, RenewalAlwaysVerified,
         SettingsErrorNeverDials

\* Enrolment's first step.
LEMMA EnrolStep ==
    ASSUME IInv, Enrol PROVE IInv'
<1> USE DEF IInv, Enrol, disk
<1>1. /\ Configured' = Configured /\ Unauthenticated' = Unauthenticated /\ Kept'
      /\ Configured \subseteq Peers /\ Vouched'
  BY SameSettings, NothingNew, ConfiguredArePeers DEF Vouched
<1>2. CASE Unauthenticated = "refused"
  BY <1>1, <1>2, TrustAssumption
     DEF resolve_bootstrap_verify, Fail, TypeOK, Fetching, Prepared, Tasks
<1>3. CASE Unauthenticated = "allowed"
  BY <1>1, <1>3, TrustAssumption
     DEF resolve_bootstrap_verify, Post, TypeOK, Fetching, Prepared, Tasks
<1>4. CASE Unauthenticated = "no"
  <2>1. gateway_trust_context
    BY <1>4 DEF resolve_bootstrap_verify
  <2> QED
    BY <1>1, <1>4, <2>1, GatewayTrust, TrustAssumption
       DEF TypeOK, Fetching, Prepared, Tasks
<1> QED
  BY <1>2, <1>3, <1>4 DEF Unauthenticated

\* A certificate was fetched: it is bound, or the attempt fails.
LEMMA FetchStep ==
    ASSUME IInv, NEW p \in Peers, FetchPeerCertificate(p) PROVE IInv'
<1> USE DEF IInv, FetchPeerCertificate, disk
<1>1. Unauthenticated' = Unauthenticated /\ Configured' = Configured
  BY SameSettings
<1>2. Configured = Pinned /\ settings.pin = "set"
  BY DEF Fetching, Configured
<1>3. dialled' \subseteq Tasks /\ dialled' = dialled \cup {task}
  BY DEF TypeOK
<1>4. TokenOnlyToConfigured' /\ BoundToFetched' /\ RenewalAlwaysVerified'
  BY <1>1 DEF Kept, TokenOnlyToConfigured, BoundToFetched, RenewalAlwaysVerified
<1>5. SettingsErrorNeverDials'
  BY <1>1, <1>2, <1>3 DEF Kept, SettingsErrorNeverDials, Fetching
<1>6. TypeOK'
  BY <1>3, TrustAssumption DEF PinAndBind, Fail, TypeOK
<1>7. Fetching' /\ Prepared' /\ Vouched'
  BY <1>1, <1>2, TrustAssumption DEF PinAndBind, Fail, TypeOK, Fetching, Prepared, Vouched
<1> QED
  BY <1>4, <1>5, <1>6, <1>7 DEF Kept

\* What a request that is sent leaves behind.
LEMMA SendStep ==
    ASSUME IInv, NEW p \in Peers, pc = "post", p \in trust, Send(p),
           settings' = settings
    PROVE  posts' = 1 /\ sent' \in Sent /\ dialled' \subseteq Tasks /\ Kept'
<1> USE DEF IInv, Send
<1>1. posts' = 1 /\ dialled' \subseteq Tasks
  BY TrustAssumption DEF Prepared, TypeOK
<1>2. /\ sent' \in Sent /\ sent'.to = p /\ sent'.fetched = fetched /\ sent'.task = task
      /\ sent'.anchors = anchors /\ sent'.vouched = vouched
  BY DEF Sent, TypeOK
<1>3. Configured' = Configured /\ Unauthenticated' = Unauthenticated
  BY SameSettings
<1>4. TokenOnlyToConfigured'
  <2>1. settings.env \notin {"production", "respelt"} => settings.env = "dev"
    BY DEF TypeOK, Settings
  <2> QED
    BY <1>2, <1>3, <2>1 DEF TokenOnlyToConfigured, Prepared, Unauthenticated, is_production
<1>5. BoundToFetched'
  BY <1>2 DEF BoundToFetched, Prepared
<1>6. RenewalAlwaysVerified'
  <2>1. CASE task = "renew" /\ settings.https
    <3>1. Issuer[p] \in anchors
      BY <2>1 DEF Prepared, Certified
    <3>2. vouched => p \in Gateways
      BY <3>1 DEF Vouched, Gateways
    <3> QED
      BY <1>2, <3>1, <3>2 DEF RenewalAlwaysVerified
  <2>2. CASE task = "renew_front"
    BY <1>2, <1>3, <2>2 DEF RenewalAlwaysVerified, Prepared
  <2>3. CASE task = "enrol" \/ ~settings.https
    BY <1>2, <2>3 DEF RenewalAlwaysVerified
  <2> QED
    BY <2>1, <2>2, <2>3 DEF TypeOK, Tasks
<1>7. SettingsErrorNeverDials'
  BY <1>3 DEF Kept, SettingsErrorNeverDials, Prepared
<1> QED
  BY <1>1, <1>2, <1>4, <1>5, <1>6, <1>7 DEF Kept

\* The bundle that is on disk once a request was answered.
LEMMA AnsweredBundle ==
    ASSUME IInv, NEW p \in Peers, Answered(p)
    PROVE  /\ enrolled' \in BOOLEAN /\ vouched' \in BOOLEAN /\ anchors' \subseteq CAs
           /\ pc' \in {"boot", "idle", "failed"} /\ Vouched'
<1> USE DEF IInv, Answered, disk
<1>1. Hands[p] \subseteq SUBSET CAs
  BY TrustAssumption
<1>2. p \in Configured \cup Gateways => Hands[p] \subseteq SUBSET Platform
  BY HonestAssumption DEF Configured
<1>3. CASE EnrolmentAnswered(p)
  <2>1. /\ task = "enrol" /\ enrolled' = TRUE /\ pc' = "boot" /\ anchors' \in Hands[p]
        /\ vouched' = (Unauthenticated = "no")
    BY <1>3 DEF EnrolmentAnswered
  <2>2. Unauthenticated = "no" => p \in Configured
    BY <2>1 DEF Prepared
  <2> QED
    BY <1>1, <1>2, <2>1, <2>2 DEF Vouched
<1>4. CASE BundleAccepted(p)
  <2>1. /\ task # "enrol" /\ enrolled' = enrolled /\ pc' = "idle" /\ anchors' \in Hands[p]
        /\ vouched' = (vouched /\ settings.https)
    BY <1>4 DEF BundleAccepted
  <2>2. vouched /\ settings.https => p \in Configured \cup Gateways
    <3>1. CASE task = "renew"
      BY <3>1 DEF Prepared, Certified, Vouched, Gateways
    <3>2. CASE task = "renew_front"
      BY <3>2 DEF Prepared
    <3> QED
      BY <2>1, <3>1, <3>2 DEF TypeOK, Tasks
  <2>3. enrolled' \in BOOLEAN
    BY <2>1 DEF TypeOK
  <2> QED
    BY <1>1, <1>2, <2>1, <2>2, <2>3 DEF Vouched
<1>5. CASE RenewalAnswered
  BY <1>5 DEF RenewalAnswered, TypeOK, Vouched
<1>6. CASE BundleRefused(p)
  BY <1>6 DEF BundleRefused, TypeOK, Vouched
<1> QED
  BY <1>3, <1>4, <1>5, <1>6

\* The request is sent, and answered or not.
LEMMA PostStep ==
    ASSUME IInv, NEW p \in Peers, Answered(p) \/ Unanswered(p) PROVE IInv'
<1> USE DEF IInv, disk
<1>1. /\ pc = "post" /\ p \in trust /\ Send(p) /\ settings' = settings
      /\ task' = task /\ trust' = trust /\ fetched' = fetched /\ guard' = guard
  BY DEF Answered, Unanswered, FailedPost, Fail
<1>2. posts' = 1 /\ sent' \in Sent /\ dialled' \subseteq Tasks /\ Kept'
  BY <1>1, SendStep
<1>3. /\ enrolled' \in BOOLEAN /\ vouched' \in BOOLEAN /\ anchors' \subseteq CAs
      /\ pc' \in {"boot", "idle", "failed"} /\ Vouched'
  <2>1. CASE Answered(p)
    BY <2>1, AnsweredBundle
  <2>2. CASE Unanswered(p)
    BY <2>2 DEF Unanswered, FailedPost, Fail, TypeOK, Vouched
  <2> QED
    BY <2>1, <2>2
<1> QED
  BY <1>1, <1>2, <1>3, TrustAssumption DEF TypeOK, Fetching, Prepared

\* A peer was turned away before anything was sent.
LEMMA RejectedStep ==
    ASSUME IInv, NEW p \in Peers, Rejected(p) PROVE IInv'
<1> USE DEF IInv, Rejected, disk
<1>1. /\ Configured' = Configured /\ Unauthenticated' = Unauthenticated
      /\ Configured \subseteq Peers
  BY SameSettings, ConfiguredArePeers
<1>2. dialled' \subseteq Tasks /\ dialled' = dialled \cup {task}
  BY DEF TypeOK
<1>3. Kept'
  BY <1>1, <1>2
     DEF Kept, TokenOnlyToConfigured, BoundToFetched, RenewalAlwaysVerified,
         SettingsErrorNeverDials, Prepared
<1>4. CASE task = "renew"
  <2>1. task' = "renew_front" /\ gateway_trust_context
    BY <1>4 DEF FrontTrust
  <2> QED
    BY <1>1, <1>2, <1>3, <2>1, GatewayTrust, TrustAssumption
       DEF TypeOK, Tasks, Fetching, Prepared, Vouched
<1>5. CASE task # "renew"
  BY <1>1, <1>2, <1>3, <1>5, TrustAssumption
     DEF Fail, TypeOK, Fetching, Prepared, Vouched
<1> QED
  BY <1>4, <1>5

\* The steps of a process that reach no peer.
LEMMA QuietStep ==
    ASSUME IInv, Unreachable \/ Serve \/ Renew \/ Recover \/ UNCHANGED vars
    PROVE  IInv'
<1> USE DEF IInv
<1>1. settings' = settings /\ sent' = sent /\ dialled' = dialled /\ UNCHANGED disk
  BY DEF Unreachable, Serve, Renew, Recover, vars, history
<1>2. /\ Configured' = Configured /\ Unauthenticated' = Unauthenticated /\ Kept'
      /\ Vouched' /\ Certified' = Certified
  BY <1>1, SameSettings, NothingNew DEF Vouched, Certified, disk
<1>3. CASE Unreachable
  BY <1>1, <1>2, <1>3
     DEF Unreachable, Fail, history, disk, TypeOK, Fetching, Prepared
<1>4. CASE Serve
  <2>1. egress_guard_enabled \in BOOLEAN
    BY DEF egress_guard_enabled, settings_is_production
  <2> QED
    BY <1>1, <1>2, <1>4, <2>1
       DEF Serve, history, disk, TypeOK, Fetching, Prepared
<1>5. CASE Renew
  BY <1>1, <1>2, <1>5, TrustAssumption
     DEF Renew, Post, disk, Certified, TypeOK, Tasks, Fetching, Prepared
<1>6. CASE Recover
  BY <1>1, <1>2, <1>6
     DEF Recover, history, disk, TypeOK, Fetching, Prepared
<1>7. CASE UNCHANGED vars
  BY <1>1, <1>2, <1>7
     DEF vars, history, disk, TypeOK, Fetching, Prepared
<1> QED
  BY <1>3, <1>4, <1>5, <1>6, <1>7

\* Nothing was sent and nobody dialled by a process that has only just started.
LEMMA FreshProcess ==
    ASSUME dialled = {}, sent = NothingSent PROVE Kept
  BY DEF NothingSent, Kept, TokenOnlyToConfigured, BoundToFetched, RenewalAlwaysVerified,
         SettingsErrorNeverDials

\* The next process, with other settings.
LEMMA RestartStep ==
    ASSUME IInv, Restart PROVE IInv'
<1> USE DEF IInv, Restart, disk
<1>1. sent' \in Sent
  BY TrustAssumption DEF NothingSent, Sent
<1>2. TypeOK'
  <2>1. /\ enrolled' \in BOOLEAN /\ vouched' \in BOOLEAN /\ guard' \in BOOLEAN
        /\ anchors' \subseteq CAs /\ settings' \in Settings
    BY DEF TypeOK
  <2>2. posts' \in 0 .. MaxPosts
    BY TrustAssumption
  <2> QED
    BY <1>1, <2>1, <2>2 DEF TypeOK, Tasks
<1>3. Kept'
  BY DEF NothingSent, Kept, TokenOnlyToConfigured, BoundToFetched, RenewalAlwaysVerified,
         SettingsErrorNeverDials
<1> QED
  BY <1>2, <1>3 DEF Fetching, Prepared, Vouched

\* The invariant holds in every reachable state.
THEOREM Invariant == Spec => []IInv
<1>1. ASSUME Init PROVE IInv
  <2>1. TypeOK
    <3>1. enrolled \in BOOLEAN /\ guard \in BOOLEAN /\ vouched \in BOOLEAN
      BY <1>1, Zenon DEF Init
    <3>2. sent \in Sent /\ posts \in 0 .. MaxPosts
      BY <1>1, TrustAssumption DEF Init, Sent, NothingSent
    <3> QED
      BY <1>1, <3>1, <3>2 DEF Init, TypeOK, Tasks
  <2>2. Fetching /\ Prepared /\ Vouched /\ posts <= 1
    BY <1>1 DEF Init, Fetching, Prepared, Vouched
  <2>3. Kept
    BY <1>1, FreshProcess DEF Init
  <2> QED
    BY <2>1, <2>2, <2>3 DEF IInv
<1>2. IInv /\ [Next]_vars => IInv'
  BY EnrolStep, FetchStep, PostStep, RejectedStep, QuietStep, RestartStep DEF Next
<1> QED
  BY <1>1, <1>2, PTL DEF Spec

\* Every request, context and history is of its declared type.
THEOREM TypeCorrect == Spec => []TypeOK
  BY Invariant, PTL DEF IInv

\* The bootstrap token goes to a peer the operator's settings authenticate, unless
\* they waive that outside production (resolve_bootstrap_verify).
THEOREM TokenGuarded == Spec => []TokenOnlyToConfigured
  BY Invariant, PTL DEF IInv, Kept

\* The request that follows a pin check reaches the peer that was checked
\* (_pin_and_bind).
THEOREM NoCheckThenUseGap == Spec => []BoundToFetched
  BY Invariant, PTL DEF IInv, Kept

\* Through any number of processes, settings and rotations, a renewal over https goes
\* to a configured front or to a certificate of a CA on disk, and to the platform
\* itself where that CA never came from a peer nobody authenticated (_post_renewal).
THEOREM RenewalVerified == Spec => []RenewalAlwaysVerified
  BY Invariant, PTL DEF IInv, Kept

\* One renewal attempt or one enrolment puts its request on the wire at most once.
THEOREM AtMostOnePost == Spec => []OnePostPerAttempt
<1>1. IInv => OnePostPerAttempt
  BY DEF IInv, OnePostPerAttempt
<1> QED
  BY <1>1, Invariant, PTL

\* What the settings make an error of is found before the connection it is about,
\* whatever settings an agent, enrolled or not, is started with.
THEOREM ErrorBeforeDialling == Spec => []SettingsErrorNeverDials
  BY Invariant, PTL DEF IInv, Kept
=================================================================================
