------------------------- MODULE MCCertificateChain -------------------------
(* Two checks at once over three certificates in batches of two: a walk of  *)
(* more than one batch, and certificates issued while it runs.              *)
EXTENDS CertificateChain, TLC

CONSTANTS k1, k2
=============================================================================
