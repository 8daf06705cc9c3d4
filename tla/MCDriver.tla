------------------------------ MODULE MCDriver ------------------------------
(***************************************************************************)
(* Credentials and command lines for Driver.                               *)
(***************************************************************************)
EXTENDS Driver

Cert(k, n) == [key |-> k, name |-> n]
Profile(team, certs) == [team |-> team, certs |-> certs, ents |-> "profile"]
Creds(pkey, cert, prov, ents) == [pkey |-> pkey, cert |-> cert, prov |-> prov, ents |-> ents]
Key(cert) == [key |-> "mine", cert |-> cert]

Mine == Cert("mine", "dev")
Other == Cert("other", "dev")
Full == Profile("team", <<None, Other, Mine>>)

MCCredentials ==
  {Creds(Key(x), y, p, "none") : x \in {None, Mine}, y \in {None, Mine, Other, Cert("mine", None)},
                                 p \in {None, Full, Profile(None, <<Mine>>), Profile("team", <<Other>>)}}
    \cup {Creds(None, Mine, Full, e) : e \in {"none", "unreadable"}}
    \cup {Creds(Key(None), None, Full, "read")}
    \cup {Creds(None, None, None, e) : e \in {"none", "unreadable"}}
Good == Creds(Key(None), None, Full, "none")

Line(creds, adhoc, single, inject, output, install) ==
  [creds |-> creds, adhoc |-> adhoc, single |-> single, inject |-> inject, output |-> output,
   install |-> install]
MCOptions ==
  {Line(Good, FALSE, s, j, o, i) : s \in BOOLEAN, j \in BOOLEAN, i \in BOOLEAN,
                                   o \in {"none", "file", "temp", "input"}}
    \cup {Line(c, FALSE, FALSE, FALSE, "none", FALSE) : c \in MCCredentials}
    \* Ad-hoc, only the entitlements count.
    \cup {Line(Creds(None, None, None, e), TRUE, FALSE, FALSE, "none", FALSE) : e \in {"none", "unreadable"}}
==============================================================================
