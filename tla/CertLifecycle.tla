----------------------------- MODULE CertLifecycle ------------------------------
(***************************************************************************)
(* The agent's identity on disk and in memory: enrolment                   *)
(* (mtls/bootstrap.py), startup (main.py), renewal and its hot reload      *)
(* (mtls/renewal.py), with a crash possible between any two steps.         *)
(*                                                                         *)
(* The five files -- key, certificate, CA bundle, CA pins, slug -- are     *)
(* written one after another.  Renewal replaces a file in one step         *)
(* (os.replace); enrolment and write_pins truncate and then write, so a    *)
(* crash there can leave the file empty.  The gateway is external: it      *)
(* certifies a key for a bootstrap token, or for a signature by a key it   *)
(* has certified before, and rotates its CA by overlapping bundles.        *)
(*                                                                         *)
(* A key is known by the order it was generated in, a certificate by the   *)
(* key it was issued for, a CA by its generation.  The agent is one with a *)
(* bootstrap token and a gateway URL configured.                           *)
(***************************************************************************)
EXTENDS Naturals

CONSTANTS
    MaxKeys,       \* keypairs generated over the agent's life (bound)
    MaxCa,         \* generations of the gateway's CA (bound)
    MaxCrashes,    \* crashes (bound)
    WritesFail,    \* whether a write may raise (a full disk, a lost mount)
    GatewayHttps,  \* whether the gateway is reached over https
    SlugSet        \* whether PROBE_AGENT_SLUG is configured

ASSUME BoundsAssumption == {MaxKeys, MaxCa, MaxCrashes} \subseteq Nat /\ MaxCa # 0
ASSUME FlagsAssumption == {WritesFail, GatewayHttps, SlugSet} \subseteq BOOLEAN

Keys == 1..MaxKeys
CAs == 1..MaxCa
Absent == 0
Torn == MaxKeys + 1        \* a file that is there and holds nothing usable
TornCa == {0}

VARIABLES
    key, cert, ca, pins, slug,    \* the files: key_path, cert_path, ca_cert_path,
                                  \* ca_pins_path, slug_path
    due,                          \* the certificate on disk is near its expiry
    pc,                           \* where the process is
    mode,                         \* what the listener serves: none, http, mtls
    served,                       \* the identity loaded in the listener's context
    sealKey,                      \* app.state.agent_private_key
    newKey, reply,                \* of the enrolment or renewal under way
    generated, issued, bundle,    \* keys generated; certified; the gateway's bundle
    crashes

disk == <<key, cert, ca, pins, slug, due>>
memory == <<mode, served, sealKey>>
gateway == <<issued, bundle>>
vars == <<disk, pc, memory, newKey, reply, generated, gateway, crashes>>

NoReply == [cert |-> Absent, ca |-> {}]
Enrolling == {"reg_key", "reg_post", "reg_cert", "reg_ca", "reg_pins", "reg_slug"}
Renewing == {"ren_post", "ren_check", "ren_key", "ren_cert", "ren_ca", "ren_pins", "ren_reload"}

TypeOK ==
    /\ key \in {Absent, Torn} \cup Keys
    /\ cert \in {Absent, Torn} \cup Keys
    /\ ca \in (SUBSET CAs) \cup {TornCa}
    /\ pins \in SUBSET CAs
    /\ slug \in BOOLEAN /\ due \in BOOLEAN
    /\ pc \in {"down", "start", "load", "serving"} \cup Enrolling \cup Renewing
    /\ mode \in {"none", "http", "mtls"}
    /\ served \in {Absent} \cup Keys
    /\ sealKey \in {Absent} \cup Keys
    /\ newKey \in {Absent} \cup Keys
    /\ reply \in [cert : {Absent} \cup Keys, ca : SUBSET CAs]
    /\ generated \in 0..MaxKeys
    /\ issued \subseteq Keys
    /\ bundle \subseteq CAs
    /\ crashes \in 0..MaxCrashes

Init ==
    /\ key = Absent /\ cert = Absent /\ ca = {} /\ pins = {}
    /\ slug = FALSE /\ due = FALSE
    /\ pc = "down" /\ mode = "none" /\ served = Absent /\ sealKey = Absent
    /\ newKey = Absent /\ reply = NoReply
    /\ generated = 0 /\ issued = {} /\ bundle = {1}
    /\ crashes = 0

-----------------------------------------------------------------------------
Step(from, to) == pc = from /\ pc' = to

certs_exist == key # Absent /\ cert # Absent /\ ca # {}

\* load_cert_chain and load_verify_locations accept what is on disk.
PairLoads == cert \in Keys /\ key = cert
Loadable == PairLoads /\ ca # {} /\ ca # TornCa

\* The process ends: by a crash, or because an exception was not caught.
Dies ==
    /\ pc' = "down"
    /\ mode' = "none" /\ served' = Absent /\ sealKey' = Absent
    /\ newKey' = Absent /\ reply' = NoReply

-----------------------------------------------------------------------------
(* Startup and enrolment *)

Boot ==
    /\ pc = "down"
    /\ pc' = IF certs_exist THEN "load" ELSE "start"
    /\ UNCHANGED <<disk, memory, newKey, reply, generated, gateway, crashes>>

\* ensure_registered goes by the certificate and the key alone.
SkipEnrolment ==
    /\ Step("start", "load")
    /\ cert # Absent /\ key # Absent
    /\ UNCHANGED <<disk, memory, newKey, reply, generated, gateway, crashes>>

GenerateKey ==
    /\ Step("start", "reg_key")
    /\ cert = Absent \/ key = Absent
    /\ generated < MaxKeys
    /\ generated' = generated + 1
    /\ newKey' = generated + 1
    /\ UNCHANGED <<disk, memory, reply, gateway, crashes>>

WriteKey ==
    /\ Step("reg_key", "reg_post")
    /\ key' = newKey
    /\ UNCHANGED <<cert, ca, pins, slug, due, memory, newKey, reply, generated, gateway, crashes>>

\* The gateway certifies the key; the bundle it returns is its own, or holds no
\* certificate that ca_fingerprints can read.
Register ==
    /\ Step("reg_post", "reg_cert")
    /\ issued' = issued \cup {newKey}
    /\ reply' \in {[cert |-> newKey, ca |-> b] : b \in {bundle, {}}}
    /\ UNCHANGED <<disk, memory, newKey, generated, bundle, crashes>>

\* No connection, a refusal, or an answer that never arrived: the exception
\* ends the process ("A failed bootstrap is intentionally fatal here").
RegisterFails ==
    /\ pc = "reg_post"
    /\ issued' \in {issued, issued \cup {newKey}}
    /\ Dies
    /\ UNCHANGED <<disk, generated, bundle, crashes>>

WriteCert ==
    /\ Step("reg_cert", "reg_ca")
    /\ cert' = reply.cert
    /\ due' = FALSE
    /\ UNCHANGED <<key, ca, pins, slug, memory, newKey, reply, generated, gateway, crashes>>

WriteCa ==
    /\ Step("reg_ca", "reg_pins")
    /\ ca' = IF reply.ca = {} THEN TornCa ELSE reply.ca
    /\ UNCHANGED <<key, cert, pins, slug, due, memory, newKey, reply, generated, gateway, crashes>>

\* Trust on first use, if there is anything to pin.
WritePins ==
    /\ Step("reg_pins", "reg_slug")
    /\ pins' = IF reply.ca = {} THEN pins ELSE reply.ca
    /\ UNCHANGED <<key, cert, ca, slug, due, memory, newKey, reply, generated, gateway, crashes>>

\* The reply may hold no slug.
WriteSlug ==
    /\ Step("reg_slug", "load")
    /\ slug' \in {slug, TRUE}
    /\ UNCHANGED <<key, cert, ca, pins, due, memory, newKey, reply, generated, gateway, crashes>>

\* build_server_context and load_private_key; the listener then has the pair.
ServeMtls ==
    /\ Step("load", "serving")
    /\ certs_exist /\ Loadable
    /\ mode' = "mtls" /\ served' = cert /\ sealKey' = key
    /\ newKey' = Absent /\ reply' = NoReply
    /\ UNCHANGED <<disk, generated, gateway, crashes>>

\* What is on disk does not load: build_server_context raises.
StartFails ==
    /\ pc = "load"
    /\ certs_exist /\ ~Loadable
    /\ Dies
    /\ UNCHANGED <<disk, generated, gateway, crashes>>

\* Mutant of ServeHttp: plain HTTP is the fallback for a pair that will not load.
ServeHttp_Fallback ==
    /\ Step("load", "serving")
    /\ ~Loadable
    /\ mode' = "http"
    /\ newKey' = Absent /\ reply' = NoReply
    /\ UNCHANGED <<disk, served, sealKey, generated, gateway, crashes>>

ServeHttp ==
    /\ Step("load", "serving")
    /\ ~certs_exist
    /\ mode' = "http"
    /\ newKey' = Absent /\ reply' = NoReply
    /\ UNCHANGED <<disk, served, sealKey, generated, gateway, crashes>>

-----------------------------------------------------------------------------
(* Renewal: one cycle of renewal_loop *)

\* Back to sleep, the rest of the cycle undone.
Sleeps == pc' = "serving" /\ newKey' = Absent /\ reply' = NoReply

\* Mutant of RenewStart: saves the new key before asking for its certificate.
RenewStart_SavesKey ==
    /\ Step("serving", "ren_post")
    /\ cert \in Keys /\ key \in Keys
    /\ due
    /\ slug \/ SlugSet
    /\ generated < MaxKeys
    /\ generated' = generated + 1
    /\ newKey' = generated + 1
    /\ key' = newKey'
    /\ UNCHANGED <<cert, ca, pins, slug, due, memory, reply, gateway, crashes>>

\* renew_if_needed: both files there, the certificate readable and near its
\* expiry, the slug known; then _renew up to the request.
RenewStart ==
    /\ Step("serving", "ren_post")
    /\ cert \in Keys /\ key \in Keys
    /\ due
    /\ slug \/ SlugSet
    /\ generated < MaxKeys
    /\ generated' = generated + 1
    /\ newKey' = generated + 1
    /\ UNCHANGED <<disk, memory, reply, gateway, crashes>>

\* _post_renewal: over https the context needs a pair that loads; the gateway
\* wants the new CSR signed by a key it certified.  It may leave out its bundle.
Renew ==
    /\ Step("ren_post", "ren_check")
    /\ GatewayHttps => Loadable
    /\ key \in issued
    /\ issued' = issued \cup {newKey}
    /\ reply' \in {[cert |-> newKey, ca |-> b] : b \in {bundle, {}}}
    /\ UNCHANGED <<disk, memory, newKey, generated, bundle, crashes>>

\* Any failure is logged, whether or not the gateway certified the new key.
RenewFails ==
    /\ pc = "ren_post"
    /\ issued' \in {issued} \cup
          (IF key \in issued /\ (GatewayHttps => Loadable) THEN {issued \cup {newKey}} ELSE {})
    /\ Sleeps
    /\ UNCHANGED <<disk, memory, generated, bundle, crashes>>

bundle_preserves_pins(b) == pins = {} \/ b \cap pins # {}

\* Mutant of CheckContinuity: any bundle will do.
CheckContinuity_Any ==
    /\ Step("ren_check", "ren_key")
    /\ UNCHANGED <<disk, memory, newKey, reply, generated, gateway, crashes>>

CheckContinuity ==
    /\ Step("ren_check", "ren_key")
    /\ reply.ca = {} \/ bundle_preserves_pins(reply.ca)
    /\ UNCHANGED <<disk, memory, newKey, reply, generated, gateway, crashes>>

RefuseBundle ==
    /\ pc = "ren_check"
    /\ ~(reply.ca = {} \/ bundle_preserves_pins(reply.ca))
    /\ Sleeps
    /\ UNCHANGED <<disk, memory, generated, gateway, crashes>>

ReplaceKey ==
    /\ Step("ren_key", "ren_cert")
    /\ key' = newKey
    /\ UNCHANGED <<cert, ca, pins, slug, due, memory, newKey, reply, generated, gateway, crashes>>

\* Mutant of ReplaceCert: the certificate is not replaced.
ReplaceCert_Skipped ==
    /\ pc = "ren_cert"
    /\ pc' = IF reply.ca = {} THEN "ren_reload" ELSE "ren_ca"
    /\ UNCHANGED <<disk, memory, newKey, reply, generated, gateway, crashes>>

ReplaceCert ==
    /\ pc = "ren_cert"
    /\ pc' = IF reply.ca = {} THEN "ren_reload" ELSE "ren_ca"
    /\ cert' = reply.cert
    /\ due' = FALSE
    /\ UNCHANGED <<key, ca, pins, slug, memory, newKey, reply, generated, gateway, crashes>>

ReplaceCa ==
    /\ Step("ren_ca", "ren_pins")
    /\ ca' = reply.ca
    /\ UNCHANGED <<key, cert, pins, slug, due, memory, newKey, reply, generated, gateway, crashes>>

\* The pin set follows the bundle.
AdvancePins ==
    /\ Step("ren_pins", "ren_reload")
    /\ pins' = reply.ca
    /\ UNCHANGED <<key, cert, ca, slug, due, memory, newKey, reply, generated, gateway, crashes>>

\* The live context takes the pair; agent_private_key stays what it was.
HotReload ==
    /\ pc = "ren_reload"
    /\ served' = IF mode = "mtls" /\ PairLoads THEN cert ELSE served
    /\ Sleeps
    /\ UNCHANGED <<disk, mode, sealKey, generated, gateway, crashes>>

-----------------------------------------------------------------------------
(* Faults and the environment *)

\* Mutant of MayTear: what is left of the pin file is taken for a pin.
MayTear_PinsGarbled ==
    /\ key' \in {key} \cup (IF pc = "reg_key" THEN {Torn} ELSE {})
    /\ cert' \in {cert} \cup (IF pc = "reg_cert" THEN {Torn} ELSE {})
    /\ ca' \in {ca} \cup (IF pc = "reg_ca" THEN {TornCa} ELSE {})
    /\ pins' \in {pins} \cup (IF pc \in {"reg_pins", "ren_pins"} THEN {TornCa} ELSE {})
    /\ UNCHANGED <<slug, due>>

\* A file written in place, not by os.replace, may be left empty.
MayTear ==
    /\ key' \in {key} \cup (IF pc = "reg_key" THEN {Torn} ELSE {})
    /\ cert' \in {cert} \cup (IF pc = "reg_cert" THEN {Torn} ELSE {})
    /\ ca' \in {ca} \cup (IF pc = "reg_ca" THEN {TornCa} ELSE {})
    /\ pins' \in {pins} \cup (IF pc \in {"reg_pins", "ren_pins"} THEN {{}} ELSE {})
    /\ UNCHANGED <<slug, due>>

\* A write raises: fatal in enrolment, logged in renewal.
WriteFails ==
    /\ WritesFail
    /\ \/ pc \in {"reg_key", "reg_cert", "reg_ca", "reg_pins", "reg_slug"} /\ Dies
       \/ pc \in {"ren_key", "ren_cert", "ren_ca", "ren_pins"} /\ Sleeps /\ UNCHANGED memory
    /\ MayTear
    /\ UNCHANGED <<generated, gateway, crashes>>

\* The process is killed.
Crash ==
    /\ pc # "down"
    /\ crashes < MaxCrashes
    /\ crashes' = crashes + 1
    /\ MayTear
    /\ Dies
    /\ UNCHANGED <<generated, gateway>>

CertAges ==
    /\ cert \in Keys
    /\ ~due
    /\ due' = TRUE
    /\ UNCHANGED <<key, cert, ca, pins, slug, pc, memory, newKey, reply, generated, gateway, crashes>>

\* The gateway's CA rotates by make-before-break: the next generation joins
\* the bundle, then the one before leaves it.
RotateCa ==
    /\ \E c \in CAs : \/ bundle = {c} /\ c + 1 \in CAs /\ bundle' = {c, c + 1}
                      \/ bundle = {c, c + 1} /\ bundle' = {c + 1}
    /\ UNCHANGED <<disk, pc, memory, newKey, reply, generated, issued, crashes>>

-----------------------------------------------------------------------------
Enrol ==
    \/ SkipEnrolment \/ GenerateKey \/ WriteKey \/ Register \/ RegisterFails
    \/ WriteCert \/ WriteCa \/ WritePins \/ WriteSlug

Renewal ==
    \/ RenewStart \/ Renew \/ RenewFails \/ CheckContinuity \/ RefuseBundle
    \/ ReplaceKey \/ ReplaceCert \/ ReplaceCa \/ AdvancePins \/ HotReload

Next ==
    \/ Boot \/ Enrol \/ ServeMtls \/ StartFails \/ ServeHttp
    \/ Renewal
    \/ WriteFails \/ Crash \/ CertAges \/ RotateCa

Spec == Init /\ [][Next]_vars

-----------------------------------------------------------------------------
(* Safety *)

\* Once there is a certificate, the key on disk is one the gateway certified,
\* through every crash and failed write: the agent can always prove possession
\* of a key the gateway knows.
DiskKeyCertified == cert # Absent => key \in issued

\* The trust anchor on disk always shares a CA with the recorded pins: no
\* renewal swaps it, and no crash between the two files separates them.
AnchorPinned == pins # {} => ca \cap pins # {}

\* A certificate reaches the disk only after the key it was issued for.
CertFollowsKey == [][cert' # cert /\ cert' \in Keys => key = cert']_vars

\* An agent that has pinned a CA has all three trust files, and no crash or
\* failed renewal makes it come up on a plain-HTTP listener again.
NoHttpOncePinned == [][mode # "http" /\ mode' = "http" => pins = {}]_vars

\* A renewal that gets as far as its reload leaves files that load, whatever
\* earlier renewals and crashes left: "the files are already written, so a
\* restart still recovers" (_renew).
RestartRecovers == pc = "ren_reload" /\ mode = "mtls" => Loadable

(* Statements of comments that the code does not keep. *)

\* _renew: "the pair on disk is always consistent" -- whatever stopped the
\* process, the certificate left behind is the key's.
PairConsistent == pc = "down" /\ cert \in Keys => key = cert

\* main.py: an agent told to enrol "must not fall back to an unauthenticated
\* plain-HTTP listener".
NeverPlainHttp == mode # "http"

\* main.py: "The same key the certificate was issued for, held for opening a
\* sealed dispatch".
SealKeyIsServedKey == pc = "serving" /\ mode = "mtls" => sealKey = served
=================================================================================
