--------------------------- MODULE CertificateBook ---------------------------
(***************************************************************************)
(* What the certificate ledger promises: one line of certificates, written *)
(* once and never changed.  A certificate names the asset, the erasures it *)
(* certifies, its number and the certificate issued just before it; a new  *)
(* one is issued for an asset only when its erasures are not those of its  *)
(* latest certificate.                                                     *)
(***************************************************************************)
EXTENDS Naturals, Sequences

CONSTANT Assets

VARIABLE certs

LatestIndex(a) ==
  IF \E i \in DOMAIN certs : certs[i].asset = a
    THEN CHOOSE i \in DOMAIN certs :
           certs[i].asset = a /\ \A j \in DOMAIN certs : certs[j].asset = a => j <= i
    ELSE 0

\* The latest certificate of the asset is for exactly these erasures.
Covered(a, sources) ==
  LatestIndex(a) # 0 /\ certs[LatestIndex(a)].sources = sources

Taken(number) == \E i \in DOMAIN certs : certs[i].number = number

Init == certs = <<>>

\* prev is the place of the certificate before it: its hash, with no collisions.
Issue(a, sources, number) ==
  /\ ~Covered(a, sources)
  /\ ~Taken(number)
  /\ certs' = Append(certs, [asset |-> a, sources |-> sources,
                             number |-> number, prev |-> Len(certs)])

Next ==
  /\ Len(certs') = Len(certs) + 1
  /\ LET new == certs'[Len(certs')]
     IN  new.asset \in Assets /\ Issue(new.asset, new.sources, new.number)

Spec == Init /\ [][Next]_certs
=============================================================================
