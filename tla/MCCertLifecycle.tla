---------------------------- MODULE MCCertLifecycle -----------------------------
(***************************************************************************)
(* Small instances of CertLifecycle: two crashes, so that a restart can be *)
(* interrupted too; four keys, so that enrolment can be retried and two    *)
(* renewals follow; three CA generations, so that a whole rotation can     *)
(* pass between two renewals.                                              *)
(***************************************************************************)
EXTENDS CertLifecycle

MCMaxKeys == 4
MCMaxCa == 3
=================================================================================
