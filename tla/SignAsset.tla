------------------------------ MODULE SignAsset ------------------------------
(***************************************************************************)
(* What zsign signs with: ZSignAsset::Init of openssl.cpp.  Files are      *)
(* known by what is in them; decoding and cryptography are external.       *)
(***************************************************************************)
EXTENDS Integers, Sequences, SequencesExt

CONSTANT None \* no file, no certificate, no name, no team

\* A certificate: the private key it belongs to and its common name.
CertSet(keys, names) == [key : keys, name : names]
\* Credentials as files: the key file (PEM, DER or PKCS #12, which may bring a certificate),
\* the certificate file, the profile, whose certificates may be unreadable (None), and the
\* entitlements, which may be asked for and be unreadable.
KeyFileSet(keys, certs)          == [key : keys, cert : certs \cup {None}]
ProfileSet(teams, certs, ents)   == [team : teams, certs : certs, ents : ents]
CredentialSet(files, certs, profiles) ==
  [pkey : files \cup {None}, cert : certs \cup {None}, prov : profiles \cup {None},
   ents : {"none", "read", "unreadable"}]

\* The certificate that comes with the key file, else the one of the certificate file;
\* one of another key is dropped.
Given(c) ==
  LET cert == IF c.pkey.cert # None THEN c.pkey.cert ELSE c.cert
  IN  IF cert # None /\ cert.key = c.pkey.key THEN cert ELSE None

\* Mutant of Listed: the certificates are not compared with the key.
ListedFirst(c) == IF c.prov.certs = << >> THEN None ELSE c.prov.certs[1]
\* The first certificate of the profile that can be decoded and belongs to the key.
Listed(c) ==
  LET certs == c.prov.certs
      fits  == {i \in DOMAIN certs : certs[i] # None /\ certs[i].key = c.pkey.key}
  IN  IF fits = {} THEN None ELSE certs[Min(fits)]

Paired(c) == IF Given(c) # None THEN Given(c) ELSE Listed(c)

\* Entitlements that cannot be read are those of the profile, without a word.
Entitlements(c) == IF c.ents = "read" THEN "given" ELSE c.prov.ents

\* The asset: what signing takes from the files.
Identity(c) == [adhoc |-> FALSE, cert |-> Paired(c), team |-> c.prov.team, ents |-> Entitlements(c)]

InitIdentity(c) ==
  IF c.prov = None THEN None
  ELSE IF c.prov.team = None \/ c.pkey = None THEN None
  ELSE IF Paired(c) = None THEN None
  ELSE IF Paired(c).name = None THEN None
  ELSE Identity(c)

\* Ad-hoc: only the entitlements are looked at, and have to be readable.
InitAdhoc(c) ==
  IF c.ents = "unreadable" THEN None
  ELSE [adhoc |-> TRUE, cert |-> None, team |-> None,
        ents |-> IF c.ents = "read" THEN "given" ELSE None]

InitAsset(adhoc, c) == IF adhoc THEN InitAdhoc(c) ELSE InitIdentity(c)
==============================================================================
