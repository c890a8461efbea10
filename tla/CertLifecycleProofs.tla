-------------------------- MODULE CertLifecycleProofs ---------------------------
(***************************************************************************)
(* Theorems about CertLifecycle, for any number of keys, CA generations    *)
(* and crashes.  The invariant says, beside the two properties themselves, *)
(* what the step under way has already done to the files: which key is on  *)
(* disk, whether the gateway certified it, and that enrolment runs only    *)
(* on a disk with no certificate, bundle or pins.                          *)
(***************************************************************************)
EXTENDS CertLifecycle, TLAPS

\* Where there is no certificate, enrolment has left nothing but a key.
Unenrolled == cert = Absent => ca = {} /\ pins = {}

\* Enrolment: what its earlier steps did.
EnrolProgress ==
    /\ pc \in Enrolling => newKey # Absent
    /\ pc \in {"reg_ca", "reg_pins", "reg_slug"} => cert # Absent
    /\ pc \in {"reg_key", "reg_post", "reg_cert"} => cert = Absent
    /\ pc \in {"reg_cert", "reg_ca", "reg_pins", "reg_slug"} => newKey \in issued
    /\ pc = "reg_post" => key = newKey
    /\ pc = "reg_cert" => key = newKey /\ reply.cert = newKey
    /\ pc = "reg_ca" => pins = {}
    /\ pc = "reg_pins" => reply.ca \in {{}, ca}

\* Renewal: what its earlier steps did.
RenewProgress ==
    /\ pc \in {"ren_check", "ren_key"} => newKey \in issued /\ reply.cert = newKey
    /\ pc = "ren_cert" => key = newKey /\ reply.cert = newKey
    /\ pc \in Renewing => cert # Absent /\ newKey # Absent
    /\ pc \in {"ren_key", "ren_cert", "ren_ca"} =>
          reply.ca = {} \/ pins = {} \/ reply.ca \cap pins # {}
    /\ pc = "ren_ca" => reply.ca # {}
    /\ pc = "ren_pins" => ca = reply.ca

Inv == TypeOK /\ DiskKeyCertified /\ AnchorPinned /\ Unenrolled
              /\ EnrolProgress /\ RenewProgress

FreshMarks == Absent \notin Keys /\ Torn \notin Keys /\ Torn # Absent

\* Absent and torn files hold no key.
LEMMA NoKeyThere == FreshMarks
  BY BoundsAssumption DEF FreshMarks, Absent, Torn, Keys

\* Startup: what is on disk is only looked at.
LEMMA StartupStep ==
    ASSUME Inv,
           Boot \/ SkipEnrolment \/ ServeMtls \/ StartFails \/ ServeHttp
    PROVE  Inv'
<1> USE NoKeyThere DEF FreshMarks, NoReply, Sleeps, Dies, Step, Enrolling, Renewing,
       disk, memory, gateway
<1>1. CASE Boot
  <2>1. TypeOK'
    BY <1>1 DEF Boot, Inv, TypeOK, EnrolProgress, RenewProgress, Keys, CAs, TornCa
  <2>2. (DiskKeyCertified /\ AnchorPinned /\ Unenrolled)'
    BY <1>1 DEF Boot, Inv, TypeOK, DiskKeyCertified, AnchorPinned, Unenrolled,
                  EnrolProgress, RenewProgress, TornCa
  <2>3. EnrolProgress'
    BY <1>1 DEF Boot, certs_exist, Inv, TypeOK, DiskKeyCertified, Unenrolled, EnrolProgress, Keys
  <2>4. RenewProgress'
    BY <1>1 DEF Boot, certs_exist, Inv, TypeOK, DiskKeyCertified, RenewProgress, Keys
  <2> QED
    BY <2>1, <2>2, <2>3, <2>4 DEF Inv
<1>2. CASE SkipEnrolment
  <2>1. TypeOK'
    BY <1>2 DEF SkipEnrolment, Inv, TypeOK, EnrolProgress, RenewProgress, Keys, CAs, TornCa
  <2>2. (DiskKeyCertified /\ AnchorPinned /\ Unenrolled)'
    BY <1>2 DEF SkipEnrolment, Inv, TypeOK, DiskKeyCertified, AnchorPinned, Unenrolled,
                  EnrolProgress, RenewProgress, TornCa
  <2>3. EnrolProgress'
    BY <1>2 DEF SkipEnrolment, Inv, TypeOK, DiskKeyCertified, Unenrolled, EnrolProgress, Keys
  <2>4. RenewProgress'
    BY <1>2 DEF SkipEnrolment, Inv, TypeOK, DiskKeyCertified, RenewProgress, Keys
  <2> QED
    BY <2>1, <2>2, <2>3, <2>4 DEF Inv
<1>3. CASE ServeMtls
  <2>1. TypeOK'
    BY <1>3 DEF ServeMtls, Loadable, PairLoads, Inv, TypeOK, EnrolProgress, RenewProgress, Keys, CAs, TornCa
  <2>2. (DiskKeyCertified /\ AnchorPinned /\ Unenrolled)'
    BY <1>3 DEF ServeMtls, Inv, TypeOK, DiskKeyCertified, AnchorPinned, Unenrolled,
                  EnrolProgress, RenewProgress, TornCa
  <2>3. EnrolProgress'
    BY <1>3 DEF ServeMtls, Inv, TypeOK, DiskKeyCertified, Unenrolled, EnrolProgress, Keys
  <2>4. RenewProgress'
    BY <1>3 DEF ServeMtls, Inv, TypeOK, DiskKeyCertified, RenewProgress, Keys
  <2> QED
    BY <2>1, <2>2, <2>3, <2>4 DEF Inv
<1>4. CASE StartFails
  <2>1. TypeOK'
    BY <1>4 DEF StartFails, Inv, TypeOK, EnrolProgress, RenewProgress, Keys, CAs, TornCa
  <2>2. (DiskKeyCertified /\ AnchorPinned /\ Unenrolled)'
    BY <1>4 DEF StartFails, Inv, TypeOK, DiskKeyCertified, AnchorPinned, Unenrolled,
                  EnrolProgress, RenewProgress, TornCa
  <2>3. EnrolProgress'
    BY <1>4 DEF StartFails, Inv, TypeOK, DiskKeyCertified, Unenrolled, EnrolProgress, Keys
  <2>4. RenewProgress'
    BY <1>4 DEF StartFails, Inv, TypeOK, DiskKeyCertified, RenewProgress, Keys
  <2> QED
    BY <2>1, <2>2, <2>3, <2>4 DEF Inv
<1>5. CASE ServeHttp
  <2>1. TypeOK'
    BY <1>5 DEF ServeHttp, Inv, TypeOK, EnrolProgress, RenewProgress, Keys, CAs, TornCa
  <2>2. (DiskKeyCertified /\ AnchorPinned /\ Unenrolled)'
    BY <1>5 DEF ServeHttp, Inv, TypeOK, DiskKeyCertified, AnchorPinned, Unenrolled,
                  EnrolProgress, RenewProgress, TornCa
  <2>3. EnrolProgress'
    BY <1>5 DEF ServeHttp, Inv, TypeOK, DiskKeyCertified, Unenrolled, EnrolProgress, Keys
  <2>4. RenewProgress'
    BY <1>5 DEF ServeHttp, Inv, TypeOK, DiskKeyCertified, RenewProgress, Keys
  <2> QED
    BY <2>1, <2>2, <2>3, <2>4 DEF Inv
<1> QED
  BY <1>1, <1>2, <1>3, <1>4, <1>5

\* Enrolment, write by write.
LEMMA EnrolStep ==
    ASSUME Inv,
           GenerateKey \/ WriteKey \/ Register \/ RegisterFails \/ WriteCert \/ WriteCa \/ WritePins \/ WriteSlug
    PROVE  Inv'
<1> USE NoKeyThere DEF FreshMarks, NoReply, Sleeps, Dies, Step, Enrolling, Renewing,
       disk, memory, gateway
<1>1. CASE GenerateKey
  <2>1. TypeOK'
    BY <1>1, BoundsAssumption DEF GenerateKey, Inv, TypeOK, EnrolProgress, RenewProgress, Keys, CAs, TornCa
  <2>2. (DiskKeyCertified /\ AnchorPinned /\ Unenrolled)'
    BY <1>1 DEF GenerateKey, Inv, TypeOK, DiskKeyCertified, AnchorPinned, Unenrolled,
                  EnrolProgress, RenewProgress, TornCa
  <2>a. cert = Absent
    BY <1>1 DEF GenerateKey, Inv, TypeOK, DiskKeyCertified
  <2>b. newKey' # Absent
    BY <1>1, BoundsAssumption DEF GenerateKey, Inv, TypeOK, Absent
  <2>3. EnrolProgress'
    BY <1>1, <2>a, <2>b DEF GenerateKey, EnrolProgress
  <2>4. RenewProgress'
    BY <1>1, BoundsAssumption DEF GenerateKey, Inv, TypeOK, DiskKeyCertified, RenewProgress, Keys
  <2> QED
    BY <2>1, <2>2, <2>3, <2>4 DEF Inv
<1>2. CASE WriteKey
  <2>1. TypeOK'
    BY <1>2 DEF WriteKey, Inv, TypeOK, EnrolProgress, RenewProgress, Keys, CAs, TornCa
  <2>2. (DiskKeyCertified /\ AnchorPinned /\ Unenrolled)'
    BY <1>2 DEF WriteKey, Inv, TypeOK, DiskKeyCertified, AnchorPinned, Unenrolled,
                  EnrolProgress, RenewProgress, TornCa
  <2>3. EnrolProgress'
    BY <1>2 DEF WriteKey, Inv, TypeOK, DiskKeyCertified, Unenrolled, EnrolProgress, Keys
  <2>4. RenewProgress'
    BY <1>2 DEF WriteKey, Inv, TypeOK, DiskKeyCertified, RenewProgress, Keys
  <2> QED
    BY <2>1, <2>2, <2>3, <2>4 DEF Inv
<1>3. CASE Register
  <2>1. TypeOK'
    <3>1. newKey \in Keys /\ bundle \in SUBSET CAs
      BY <1>3 DEF Register, Inv, TypeOK, EnrolProgress
    <3>2. reply' \in [cert : {Absent} \cup Keys, ca : SUBSET CAs]
      BY <1>3, <3>1 DEF Register
    <3> QED
      BY <1>3, <3>1, <3>2 DEF Register, Inv, TypeOK
  <2>2. (DiskKeyCertified /\ AnchorPinned /\ Unenrolled)'
    BY <1>3 DEF Register, Inv, TypeOK, DiskKeyCertified, AnchorPinned, Unenrolled,
                  EnrolProgress, RenewProgress, TornCa
  <2>3. EnrolProgress'
    BY <1>3 DEF Register, Inv, TypeOK, DiskKeyCertified, Unenrolled, EnrolProgress, Keys
  <2>4. RenewProgress'
    BY <1>3 DEF Register, Inv, TypeOK, DiskKeyCertified, RenewProgress, Keys
  <2> QED
    BY <2>1, <2>2, <2>3, <2>4 DEF Inv
<1>4. CASE RegisterFails
  <2>1. TypeOK'
    BY <1>4 DEF RegisterFails, Inv, TypeOK, EnrolProgress, RenewProgress, Keys, CAs, TornCa
  <2>2. (DiskKeyCertified /\ AnchorPinned /\ Unenrolled)'
    BY <1>4 DEF RegisterFails, Inv, TypeOK, DiskKeyCertified, AnchorPinned, Unenrolled,
                  EnrolProgress, RenewProgress, TornCa
  <2>3. EnrolProgress'
    BY <1>4 DEF RegisterFails, Inv, TypeOK, DiskKeyCertified, Unenrolled, EnrolProgress, Keys
  <2>4. RenewProgress'
    BY <1>4 DEF RegisterFails, Inv, TypeOK, DiskKeyCertified, RenewProgress, Keys
  <2> QED
    BY <2>1, <2>2, <2>3, <2>4 DEF Inv
<1>5. CASE WriteCert
  <2>1. TypeOK'
    BY <1>5 DEF WriteCert, Inv, TypeOK, EnrolProgress, RenewProgress, Keys, CAs, TornCa
  <2>2. (DiskKeyCertified /\ AnchorPinned /\ Unenrolled)'
    BY <1>5 DEF WriteCert, Inv, TypeOK, DiskKeyCertified, AnchorPinned, Unenrolled,
                  EnrolProgress, RenewProgress, TornCa
  <2>3. EnrolProgress'
    BY <1>5 DEF WriteCert, Inv, TypeOK, DiskKeyCertified, Unenrolled, EnrolProgress, Keys
  <2>4. RenewProgress'
    BY <1>5 DEF WriteCert, Inv, TypeOK, DiskKeyCertified, RenewProgress, Keys
  <2> QED
    BY <2>1, <2>2, <2>3, <2>4 DEF Inv
<1>6. CASE WriteCa
  <2>1. TypeOK'
    BY <1>6 DEF WriteCa, Inv, TypeOK, EnrolProgress, RenewProgress, Keys, CAs, TornCa
  <2>2. (DiskKeyCertified /\ AnchorPinned /\ Unenrolled)'
    BY <1>6 DEF WriteCa, Inv, TypeOK, DiskKeyCertified, AnchorPinned, Unenrolled,
                  EnrolProgress, RenewProgress, TornCa
  <2>3. EnrolProgress'
    BY <1>6 DEF WriteCa, Inv, TypeOK, DiskKeyCertified, Unenrolled, EnrolProgress, Keys
  <2>4. RenewProgress'
    BY <1>6 DEF WriteCa, Inv, TypeOK, DiskKeyCertified, RenewProgress, Keys
  <2> QED
    BY <2>1, <2>2, <2>3, <2>4 DEF Inv
<1>7. CASE WritePins
  <2>1. TypeOK'
    BY <1>7 DEF WritePins, Inv, TypeOK, EnrolProgress, RenewProgress, Keys, CAs, TornCa
  <2>2. (DiskKeyCertified /\ AnchorPinned /\ Unenrolled)'
    BY <1>7 DEF WritePins, Inv, TypeOK, DiskKeyCertified, AnchorPinned, Unenrolled,
                  EnrolProgress, RenewProgress, TornCa
  <2>3. EnrolProgress'
    BY <1>7 DEF WritePins, Inv, TypeOK, DiskKeyCertified, Unenrolled, EnrolProgress, Keys
  <2>4. RenewProgress'
    BY <1>7 DEF WritePins, Inv, TypeOK, DiskKeyCertified, RenewProgress, Keys
  <2> QED
    BY <2>1, <2>2, <2>3, <2>4 DEF Inv
<1>8. CASE WriteSlug
  <2>1. TypeOK'
    <3>1. slug' \in BOOLEAN
      BY <1>8 DEF WriteSlug, Inv, TypeOK
    <3> QED
      BY <1>8, <3>1 DEF WriteSlug, Inv, TypeOK, EnrolProgress, RenewProgress, Keys, CAs, TornCa
  <2>2. (DiskKeyCertified /\ AnchorPinned /\ Unenrolled)'
    BY <1>8 DEF WriteSlug, Inv, TypeOK, DiskKeyCertified, AnchorPinned, Unenrolled,
                  EnrolProgress, RenewProgress, TornCa
  <2>3. EnrolProgress'
    BY <1>8 DEF WriteSlug, Inv, TypeOK, DiskKeyCertified, Unenrolled, EnrolProgress, Keys
  <2>4. RenewProgress'
    BY <1>8 DEF WriteSlug, Inv, TypeOK, DiskKeyCertified, RenewProgress, Keys
  <2> QED
    BY <2>1, <2>2, <2>3, <2>4 DEF Inv
<1> QED
  BY <1>1, <1>2, <1>3, <1>4, <1>5, <1>6, <1>7, <1>8

\* Renewal, up to the point where it writes.
LEMMA RequestStep ==
    ASSUME Inv,
           RenewStart \/ Renew \/ RenewFails \/ CheckContinuity \/ RefuseBundle
    PROVE  Inv'
<1> USE NoKeyThere DEF FreshMarks, NoReply, Sleeps, Dies, Step, Enrolling, Renewing,
       disk, memory, gateway
<1>1. CASE RenewStart
  <2>1. TypeOK'
    BY <1>1, BoundsAssumption DEF RenewStart, Inv, TypeOK, EnrolProgress, RenewProgress, Keys, CAs, TornCa
  <2>2. (DiskKeyCertified /\ AnchorPinned /\ Unenrolled)'
    BY <1>1 DEF RenewStart, Inv, TypeOK, DiskKeyCertified, AnchorPinned, Unenrolled,
                  EnrolProgress, RenewProgress, TornCa
  <2>3. EnrolProgress'
    BY <1>1, BoundsAssumption DEF RenewStart, Inv, TypeOK, DiskKeyCertified, Unenrolled, EnrolProgress, Keys
  <2>4. RenewProgress'
    BY <1>1, BoundsAssumption DEF RenewStart, Inv, TypeOK, DiskKeyCertified, RenewProgress, Keys
  <2> QED
    BY <2>1, <2>2, <2>3, <2>4 DEF Inv
<1>2. CASE Renew
  <2>1. TypeOK'
    <3>1. PICK b \in {bundle, {}} : reply' = [cert |-> newKey, ca |-> b]
      BY <1>2 DEF Renew
    <3>2. b \in SUBSET CAs /\ newKey \in Keys
      BY <1>2 DEF Renew, Inv, TypeOK, RenewProgress
    <3> QED
      BY <1>2, <3>1, <3>2 DEF Renew, Inv, TypeOK
  <2>2. (DiskKeyCertified /\ AnchorPinned /\ Unenrolled)'
    BY <1>2 DEF Renew, Inv, TypeOK, DiskKeyCertified, AnchorPinned, Unenrolled,
                  EnrolProgress, RenewProgress, TornCa
  <2>3. EnrolProgress'
    BY <1>2 DEF Renew, Inv, TypeOK, DiskKeyCertified, Unenrolled, EnrolProgress, Keys
  <2>4. RenewProgress'
    BY <1>2 DEF Renew, Inv, TypeOK, DiskKeyCertified, RenewProgress, Keys
  <2> QED
    BY <2>1, <2>2, <2>3, <2>4 DEF Inv
<1>3. CASE RenewFails
  <2>1. TypeOK'
    BY <1>3 DEF RenewFails, Inv, TypeOK, EnrolProgress, RenewProgress, Keys, CAs, TornCa
  <2>2. (DiskKeyCertified /\ AnchorPinned /\ Unenrolled)'
    BY <1>3 DEF RenewFails, Inv, TypeOK, DiskKeyCertified, AnchorPinned, Unenrolled,
                  EnrolProgress, RenewProgress, TornCa
  <2>3. EnrolProgress'
    BY <1>3 DEF RenewFails, Inv, TypeOK, DiskKeyCertified, Unenrolled, EnrolProgress, Keys
  <2>4. RenewProgress'
    BY <1>3 DEF RenewFails, Inv, TypeOK, DiskKeyCertified, RenewProgress, Keys
  <2> QED
    BY <2>1, <2>2, <2>3, <2>4 DEF Inv
<1>4. CASE CheckContinuity
  <2>1. TypeOK'
    BY <1>4 DEF CheckContinuity, Inv, TypeOK, EnrolProgress, RenewProgress, Keys, CAs, TornCa
  <2>2. (DiskKeyCertified /\ AnchorPinned /\ Unenrolled)'
    BY <1>4 DEF CheckContinuity, Inv, TypeOK, DiskKeyCertified, AnchorPinned, Unenrolled,
                  EnrolProgress, RenewProgress, TornCa
  <2>3. EnrolProgress'
    BY <1>4 DEF CheckContinuity, bundle_preserves_pins, Inv, TypeOK, DiskKeyCertified, Unenrolled, EnrolProgress, Keys
  <2>4. RenewProgress'
    BY <1>4 DEF CheckContinuity, bundle_preserves_pins, Inv, TypeOK, DiskKeyCertified, RenewProgress, Keys
  <2> QED
    BY <2>1, <2>2, <2>3, <2>4 DEF Inv
<1>5. CASE RefuseBundle
  <2>1. TypeOK'
    BY <1>5 DEF RefuseBundle, Inv, TypeOK, EnrolProgress, RenewProgress, Keys, CAs, TornCa
  <2>2. (DiskKeyCertified /\ AnchorPinned /\ Unenrolled)'
    BY <1>5 DEF RefuseBundle, Inv, TypeOK, DiskKeyCertified, AnchorPinned, Unenrolled,
                  EnrolProgress, RenewProgress, TornCa
  <2>3. EnrolProgress'
    BY <1>5 DEF RefuseBundle, Inv, TypeOK, DiskKeyCertified, Unenrolled, EnrolProgress, Keys
  <2>4. RenewProgress'
    BY <1>5 DEF RefuseBundle, Inv, TypeOK, DiskKeyCertified, RenewProgress, Keys
  <2> QED
    BY <2>1, <2>2, <2>3, <2>4 DEF Inv
<1> QED
  BY <1>1, <1>2, <1>3, <1>4, <1>5

\* Renewal, write by write.
LEMMA ReplaceStep ==
    ASSUME Inv,
           ReplaceKey \/ ReplaceCert \/ ReplaceCa \/ AdvancePins \/ HotReload
    PROVE  Inv'
<1> USE NoKeyThere DEF FreshMarks, NoReply, Sleeps, Dies, Step, Enrolling, Renewing,
       disk, memory, gateway
<1>1. CASE ReplaceKey
  <2>1. TypeOK'
    BY <1>1 DEF ReplaceKey, Inv, TypeOK, EnrolProgress, RenewProgress, Keys, CAs, TornCa
  <2>2. (DiskKeyCertified /\ AnchorPinned /\ Unenrolled)'
    BY <1>1 DEF ReplaceKey, Inv, TypeOK, DiskKeyCertified, AnchorPinned, Unenrolled,
                  EnrolProgress, RenewProgress, TornCa
  <2>3. EnrolProgress'
    BY <1>1 DEF ReplaceKey, Inv, TypeOK, DiskKeyCertified, Unenrolled, EnrolProgress, Keys
  <2>4. RenewProgress'
    BY <1>1 DEF ReplaceKey, Inv, TypeOK, DiskKeyCertified, RenewProgress, Keys
  <2> QED
    BY <2>1, <2>2, <2>3, <2>4 DEF Inv
<1>2. CASE ReplaceCert
  <2>1. TypeOK'
    BY <1>2 DEF ReplaceCert, Inv, TypeOK, EnrolProgress, RenewProgress, Keys, CAs, TornCa
  <2>2. (DiskKeyCertified /\ AnchorPinned /\ Unenrolled)'
    BY <1>2 DEF ReplaceCert, Inv, TypeOK, DiskKeyCertified, AnchorPinned, Unenrolled,
                  EnrolProgress, RenewProgress, TornCa
  <2>3. EnrolProgress'
    BY <1>2 DEF ReplaceCert, Inv, TypeOK, DiskKeyCertified, Unenrolled, EnrolProgress, Keys
  <2>4. RenewProgress'
    BY <1>2 DEF ReplaceCert, Inv, TypeOK, DiskKeyCertified, RenewProgress, Keys
  <2> QED
    BY <2>1, <2>2, <2>3, <2>4 DEF Inv
<1>3. CASE ReplaceCa
  <2>1. TypeOK'
    BY <1>3 DEF ReplaceCa, Inv, TypeOK, EnrolProgress, RenewProgress, Keys, CAs, TornCa
  <2>2. (DiskKeyCertified /\ AnchorPinned /\ Unenrolled)'
    BY <1>3 DEF ReplaceCa, Inv, TypeOK, DiskKeyCertified, AnchorPinned, Unenrolled,
                  EnrolProgress, RenewProgress, TornCa
  <2>3. EnrolProgress'
    BY <1>3 DEF ReplaceCa, Inv, TypeOK, DiskKeyCertified, Unenrolled, EnrolProgress, Keys
  <2>4. RenewProgress'
    BY <1>3 DEF ReplaceCa, Inv, TypeOK, DiskKeyCertified, RenewProgress, Keys
  <2> QED
    BY <2>1, <2>2, <2>3, <2>4 DEF Inv
<1>4. CASE AdvancePins
  <2>1. TypeOK'
    BY <1>4 DEF AdvancePins, Inv, TypeOK, EnrolProgress, RenewProgress, Keys, CAs, TornCa
  <2>2. (DiskKeyCertified /\ AnchorPinned /\ Unenrolled)'
    BY <1>4 DEF AdvancePins, Inv, TypeOK, DiskKeyCertified, AnchorPinned, Unenrolled,
                  EnrolProgress, RenewProgress, TornCa
  <2>3. EnrolProgress'
    BY <1>4 DEF AdvancePins, Inv, TypeOK, DiskKeyCertified, Unenrolled, EnrolProgress, Keys
  <2>4. RenewProgress'
    BY <1>4 DEF AdvancePins, Inv, TypeOK, DiskKeyCertified, RenewProgress, Keys
  <2> QED
    BY <2>1, <2>2, <2>3, <2>4 DEF Inv
<1>5. CASE HotReload
  <2>1. TypeOK'
    BY <1>5 DEF HotReload, PairLoads, Inv, TypeOK, EnrolProgress, RenewProgress, Keys, CAs, TornCa
  <2>2. (DiskKeyCertified /\ AnchorPinned /\ Unenrolled)'
    BY <1>5 DEF HotReload, Inv, TypeOK, DiskKeyCertified, AnchorPinned, Unenrolled,
                  EnrolProgress, RenewProgress, TornCa
  <2>3. EnrolProgress'
    BY <1>5 DEF HotReload, Inv, TypeOK, DiskKeyCertified, Unenrolled, EnrolProgress, Keys
  <2>4. RenewProgress'
    BY <1>5 DEF HotReload, Inv, TypeOK, DiskKeyCertified, RenewProgress, Keys
  <2> QED
    BY <2>1, <2>2, <2>3, <2>4 DEF Inv
<1> QED
  BY <1>1, <1>2, <1>3, <1>4, <1>5

\* A file torn by a fault keeps its type.
LEMMA TornTyped ==
    ASSUME TypeOK, MayTear
    PROVE  /\ key' \in {Absent, Torn} \cup Keys /\ cert' \in {Absent, Torn} \cup Keys
           /\ ca' \in (SUBSET CAs) \cup {TornCa} /\ pins' \in SUBSET CAs
           /\ slug' \in BOOLEAN /\ due' \in BOOLEAN
<1>1. key' \in {Absent, Torn} \cup Keys
  BY DEF MayTear, TypeOK
<1>2. cert' \in {Absent, Torn} \cup Keys
  BY DEF MayTear, TypeOK
<1>3. ca' \in (SUBSET CAs) \cup {TornCa}
  <2>1. ca' = ca \/ ca' = TornCa
    BY DEF MayTear
  <2> QED
    BY <2>1 DEF TypeOK
<1>4. pins' \in SUBSET CAs
  <2>1. pins' = pins \/ pins' = {}
    BY DEF MayTear
  <2> QED
    BY <2>1 DEF TypeOK
<1>5. slug' \in BOOLEAN /\ due' \in BOOLEAN
  BY DEF MayTear, TypeOK
<1> QED
  BY <1>1, <1>2, <1>3, <1>4, <1>5

\* A failed write, a crash, the passage of time, the gateway's rotation.
LEMMA FaultStep ==
    ASSUME Inv,
           WriteFails \/ Crash \/ CertAges \/ RotateCa
    PROVE  Inv'
<1> USE NoKeyThere DEF FreshMarks, NoReply, Sleeps, Dies, Step, Enrolling, Renewing,
       disk, memory, gateway
<1>1. CASE WriteFails
  <2>1. TypeOK'
    BY <1>1, TornTyped DEF WriteFails, Inv, TypeOK, Absent
  <2>2. (DiskKeyCertified /\ AnchorPinned /\ Unenrolled)'
    BY <1>1 DEF WriteFails, MayTear, Inv, TypeOK, DiskKeyCertified, AnchorPinned, Unenrolled,
                  EnrolProgress, RenewProgress, TornCa
  <2>3. EnrolProgress'
    BY <1>1 DEF WriteFails, MayTear, Inv, TypeOK, DiskKeyCertified, Unenrolled, EnrolProgress, Keys
  <2>4. RenewProgress'
    BY <1>1 DEF WriteFails, MayTear, Inv, TypeOK, DiskKeyCertified, RenewProgress, Keys
  <2> QED
    BY <2>1, <2>2, <2>3, <2>4 DEF Inv
<1>2. CASE Crash
  <2>1. TypeOK'
    BY <1>2, BoundsAssumption, TornTyped DEF Crash, Inv, TypeOK, Absent
  <2>2. (DiskKeyCertified /\ AnchorPinned /\ Unenrolled)'
    BY <1>2 DEF Crash, MayTear, Inv, TypeOK, DiskKeyCertified, AnchorPinned, Unenrolled,
                  EnrolProgress, RenewProgress, TornCa
  <2>3. EnrolProgress'
    BY <1>2, BoundsAssumption DEF Crash, MayTear, Inv, TypeOK, DiskKeyCertified, Unenrolled, EnrolProgress, Keys
  <2>4. RenewProgress'
    BY <1>2, BoundsAssumption DEF Crash, MayTear, Inv, TypeOK, DiskKeyCertified, RenewProgress, Keys
  <2> QED
    BY <2>1, <2>2, <2>3, <2>4 DEF Inv
<1>3. CASE CertAges
  <2>1. TypeOK'
    BY <1>3 DEF CertAges, Inv, TypeOK, EnrolProgress, RenewProgress, Keys, CAs, TornCa
  <2>2. (DiskKeyCertified /\ AnchorPinned /\ Unenrolled)'
    BY <1>3 DEF CertAges, Inv, TypeOK, DiskKeyCertified, AnchorPinned, Unenrolled,
                  EnrolProgress, RenewProgress, TornCa
  <2>3. EnrolProgress'
    BY <1>3 DEF CertAges, Inv, TypeOK, DiskKeyCertified, Unenrolled, EnrolProgress, Keys
  <2>4. RenewProgress'
    BY <1>3 DEF CertAges, Inv, TypeOK, DiskKeyCertified, RenewProgress, Keys
  <2> QED
    BY <2>1, <2>2, <2>3, <2>4 DEF Inv
<1>4. CASE RotateCa
  <2>1. TypeOK'
    BY <1>4 DEF RotateCa, Inv, TypeOK, EnrolProgress, RenewProgress, Keys, CAs, TornCa
  <2>2. (DiskKeyCertified /\ AnchorPinned /\ Unenrolled)'
    BY <1>4 DEF RotateCa, Inv, TypeOK, DiskKeyCertified, AnchorPinned, Unenrolled,
                  EnrolProgress, RenewProgress, TornCa
  <2>3. EnrolProgress'
    BY <1>4 DEF RotateCa, Inv, TypeOK, DiskKeyCertified, Unenrolled, EnrolProgress, Keys
  <2>4. RenewProgress'
    BY <1>4 DEF RotateCa, Inv, TypeOK, DiskKeyCertified, RenewProgress, Keys
  <2> QED
    BY <2>1, <2>2, <2>3, <2>4 DEF Inv
<1> QED
  BY <1>1, <1>2, <1>3, <1>4

-----------------------------------------------------------------------------
\* Nothing is on disk to begin with, and no step is under way.
LEMMA InitInv == Init => Inv
<1> SUFFICES ASSUME Init PROVE Inv
  OBVIOUS
<1>1. TypeOK
  <2>1. bundle \subseteq CAs
    BY BoundsAssumption DEF Init, CAs
  <2>2. generated \in 0..MaxKeys /\ crashes \in 0..MaxCrashes
    BY BoundsAssumption DEF Init
  <2>3. reply \in [cert : {Absent} \cup Keys, ca : SUBSET CAs]
    BY DEF Init, NoReply
  <2> QED
    BY <2>1, <2>2, <2>3 DEF Init, TypeOK
<1>2. DiskKeyCertified /\ AnchorPinned /\ Unenrolled
  BY DEF Init, DiskKeyCertified, AnchorPinned, Unenrolled
<1>3. EnrolProgress /\ RenewProgress
  BY DEF Init, EnrolProgress, RenewProgress, Enrolling, Renewing
<1> QED
  BY <1>1, <1>2, <1>3 DEF Inv

\* Every step, and every stutter, preserves the invariant.
LEMMA InvStep == Inv /\ [Next]_vars => Inv'
<1> SUFFICES ASSUME Inv, [Next]_vars PROVE Inv'
  OBVIOUS
<1>1. CASE Next
  BY <1>1, StartupStep, EnrolStep, RequestStep, ReplaceStep, FaultStep DEF Next, Enrol, Renewal
<1>2. CASE UNCHANGED vars
  BY <1>2 DEF vars, disk, memory, gateway, Inv, TypeOK, DiskKeyCertified, AnchorPinned,
              Unenrolled, EnrolProgress, RenewProgress
<1> QED
  BY <1>1, <1>2

\* Whatever crashes and fails, the files and the step under way agree (Inv).
THEOREM Invariance == Spec => []Inv
  BY InitInv, InvStep, PTL DEF Spec

\* Every state of the agent and of its files is of the declared types.
THEOREM TypeCorrect == Spec => []TypeOK
<1>1. Inv => TypeOK
  BY DEF Inv
<1> QED
  BY <1>1, Invariance, PTL

\* Through every enrolment, renewal, crash and failed write, an agent that has
\* a certificate has on disk a key the gateway certified.
THEOREM DiskKeyAlwaysCertified == Spec => []DiskKeyCertified
<1>1. Inv => DiskKeyCertified
  BY DEF Inv
<1> QED
  BY <1>1, Invariance, PTL

\* The bundle on disk never loses every pinned CA, although bundle and pins are
\* two files and the renewal check looks at the pins alone.
THEOREM AnchorAlwaysPinned == Spec => []AnchorPinned
<1>1. Inv => AnchorPinned
  BY DEF Inv
<1> QED
  BY <1>1, Invariance, PTL

-----------------------------------------------------------------------------
\* Neither a fault nor anything but two steps touches the certificate.
LEMMA WhoWritesCert ==
    ASSUME Inv, [Next]_vars, cert' # cert, cert' \in Keys
    PROVE  WriteCert \/ ReplaceCert
<1>1. ~MayTear
  <2> SUFFICES ASSUME MayTear PROVE FALSE
    OBVIOUS
  <2>1. cert' = Torn
    BY DEF MayTear
  <2> QED
    BY <2>1, NoKeyThere DEF FreshMarks
<1> QED
  BY <1>1 DEF Next, vars, disk, Boot, Enrol, Renewal, SkipEnrolment, GenerateKey, WriteKey,
       Register, RegisterFails, WriteCa, WritePins, WriteSlug, ServeMtls, StartFails, ServeHttp,
       RenewStart, Renew, RenewFails, CheckContinuity, RefuseBundle, ReplaceKey, ReplaceCa,
       AdvancePins, HotReload, WriteFails, Crash, CertAges, RotateCa

\* A certificate reaches the disk, in enrolment and in renewal, only when the
\* key it was issued for is already there.
THEOREM CertAfterKey == Spec => CertFollowsKey
<1> DEFINE A == cert' # cert /\ cert' \in Keys => key = cert'
<1>1. Inv /\ [Next]_vars => [A]_vars
  <2> SUFFICES ASSUME Inv, [Next]_vars, cert' # cert, cert' \in Keys
               PROVE  key = cert'
    OBVIOUS
  <2>1. CASE WriteCert
    BY <2>1 DEF WriteCert, Step, Inv, EnrolProgress
  <2>2. CASE ReplaceCert
    BY <2>2 DEF ReplaceCert, Inv, RenewProgress
  <2> QED
    BY <2>1, <2>2, WhoWritesCert
<1> QED
  BY <1>1, Invariance, PTL DEF Spec, CertFollowsKey

\* An agent that has pinned a CA never serves plain HTTP again: pins imply a
\* bundle, a certificate and a key, so certs_exist holds at every start.
THEOREM PinnedNeverHttp == Spec => NoHttpOncePinned
<1> DEFINE A == mode # "http" /\ mode' = "http" => pins = {}
<1>1. Inv /\ [Next]_vars => [A]_vars
  <2> SUFFICES ASSUME Inv, [Next]_vars, mode # "http", mode' = "http"
               PROVE  pins = {}
    OBVIOUS
  <2>1. ServeHttp
    BY DEF Next, vars, disk, memory, Boot, Enrol, Renewal, SkipEnrolment, GenerateKey, WriteKey,
         Register, RegisterFails, WriteCert, WriteCa, WritePins, WriteSlug, ServeMtls, StartFails,
         RenewStart, Renew, RenewFails, CheckContinuity, RefuseBundle, ReplaceKey, ReplaceCert,
         ReplaceCa, AdvancePins, HotReload, WriteFails, Crash, CertAges, RotateCa, Dies
  <2>2. ~certs_exist
    BY <2>1 DEF ServeHttp
  <2>3. SUFFICES ASSUME pins # {} PROVE FALSE
    OBVIOUS
  <2>4. ca # {} /\ cert # Absent
    BY <2>3 DEF Inv, AnchorPinned, Unenrolled
  <2>5. key # Absent
    BY <2>4, NoKeyThere DEF FreshMarks, Inv, DiskKeyCertified, TypeOK
  <2> QED
    BY <2>2, <2>4, <2>5 DEF certs_exist
<1> QED
  BY <1>1, Invariance, PTL DEF Spec, NoHttpOncePinned

-----------------------------------------------------------------------------
\* What a renewal of an agent that serves mutual TLS builds on: a usable bundle,
\* and, past the two replacements, the new pair.
Reloadable ==
    /\ mode = "mtls" => pc \in {"serving"} \cup Renewing /\ ca # {} /\ ca # TornCa
    /\ pc \in {"ren_ca", "ren_pins", "ren_reload"} => key = newKey /\ cert = newKey

\* No generation of the gateway's CA is what a torn bundle file holds.
LEMMA BundleNotTorn == ASSUME NEW b \in SUBSET CAs PROVE b # TornCa
  BY DEF CAs, TornCa

\* Startup and enrolment, which never have a listener, and the faults.
LEMMA ReloadableOutside ==
    ASSUME Inv, Reloadable,
           Boot \/ Enrol \/ ServeMtls \/ StartFails \/ ServeHttp
               \/ WriteFails \/ Crash \/ CertAges \/ RotateCa
    PROVE  Reloadable'
<1> USE DEF Reloadable, Step, Enrolling, Renewing, disk, memory, gateway
<1>1. CASE Boot \/ StartFails \/ ServeHttp
  BY <1>1 DEF Boot, StartFails, ServeHttp, Dies
<1>2. CASE Enrol
  BY <1>2 DEF Enrol, SkipEnrolment, GenerateKey, WriteKey, Register, RegisterFails, WriteCert,
              WriteCa, WritePins, WriteSlug, Dies
<1>3. CASE ServeMtls
  BY <1>3 DEF ServeMtls, Loadable
<1>4. CASE WriteFails \/ Crash
  BY <1>4 DEF WriteFails, Crash, MayTear, Sleeps, Dies
<1>5. CASE CertAges \/ RotateCa
  BY <1>5 DEF CertAges, RotateCa
<1> QED
  BY <1>1, <1>2, <1>3, <1>4, <1>5

\* A renewal, from its request to its reload.
LEMMA ReloadableRenewal ==
    ASSUME Inv, Reloadable, Renewal
    PROVE  Reloadable'
<1> USE DEF Reloadable, Step, Sleeps, Enrolling, Renewing, disk, memory, gateway
<1>1. CASE RenewStart \/ Renew \/ RenewFails \/ CheckContinuity \/ RefuseBundle
  BY <1>1 DEF RenewStart, Renew, RenewFails, CheckContinuity, RefuseBundle
<1>2. CASE ReplaceKey
  BY <1>2 DEF ReplaceKey
<1>3. CASE ReplaceCert
  BY <1>3 DEF ReplaceCert, Inv, RenewProgress
<1>4. CASE ReplaceCa
  <2>1. reply.ca # {} /\ reply.ca # TornCa
    BY <1>4, BundleNotTorn DEF ReplaceCa, Inv, TypeOK, RenewProgress
  <2> QED
    BY <1>4, <2>1 DEF ReplaceCa
<1>5. CASE AdvancePins \/ HotReload
  BY <1>5 DEF AdvancePins, HotReload
<1> QED
  BY <1>1, <1>2, <1>3, <1>4, <1>5 DEF Renewal

\* A renewal of an agent that serves mutual TLS never gets as far as its reload
\* with files that would not load, so a restart then comes up serving it.
THEOREM ReloadAlwaysLoads == Spec => []RestartRecovers
<1>1. Init => Reloadable
  BY DEF Init, Reloadable
<1>2. Inv /\ Reloadable /\ [Next]_vars => Reloadable'
  <2> SUFFICES ASSUME Inv, Reloadable, [Next]_vars PROVE Reloadable'
    OBVIOUS
  <2>1. CASE Next
    BY <2>1, ReloadableOutside, ReloadableRenewal DEF Next
  <2>2. CASE UNCHANGED vars
    BY <2>2 DEF vars, disk, memory, gateway, Reloadable
  <2> QED
    BY <2>1, <2>2
<1>3. Inv /\ Reloadable => RestartRecovers
  <2> SUFFICES ASSUME Inv, Reloadable, pc = "ren_reload", mode = "mtls" PROVE Loadable
    BY DEF RestartRecovers
  <2>1. newKey \in Keys
    BY DEF Inv, TypeOK, RenewProgress, Renewing
  <2> QED
    BY <2>1 DEF Reloadable, Loadable, PairLoads
<1> QED
  BY <1>1, <1>2, <1>3, Invariance, PTL DEF Spec
=================================================================================
