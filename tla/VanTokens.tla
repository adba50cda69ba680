------------------------------ MODULE VanTokens ------------------------------
(***************************************************************************)
(* The data that the sites of a VAN exchange through Vault                 *)
(* (internal/van/types.go), and the names both sides derive from it.       *)
(*                                                                         *)
(* The program builds every name by joining zone, site and group names     *)
(* with "-".  A name is therefore the sequence of its dash-separated parts *)
(* and joining two names is \o: two different pairs collide here exactly   *)
(* when they collide in the program.                                       *)
(***************************************************************************)
EXTENDS Sequences

\* A secret or a link that is not there (a NotFound answer, a nil pointer).
CONSTANT None

(***************************************************************************)
(* A token is a Link and the Secret it names, with the three labels that   *)
(* Prepare writes and Unmarshal reads back: the publishing site, the zone  *)
(* it publishes from and the zone it publishes to.  ends is the endpoint   *)
(* list of Link.Spec; Link.Spec.TlsCredentials is the name of the Secret   *)
(* in every token the program generates, so one field stands for both.     *)
(* data is Secret.Data, or None when the Secret pointer is nil.            *)
(***************************************************************************)
Token(site, siteZone, targetZone, link, ends, secret, data) ==
    [site |-> site, siteZone |-> siteZone, targetZone |-> targetZone,
     link |-> link, ends |-> ends, secret |-> secret, data |-> data]

\* The Link resource alone, as the local platform stores it.
LinkOf(t) ==
    [site |-> t.site, siteZone |-> t.siteZone, targetZone |-> t.targetZone,
     link |-> t.link, ends |-> t.ends, secret |-> t.secret]

\* The token Load puts together again from a stored Link and its Secret.
TokenOf(l, d) ==
    Token(l.site, l.siteZone, l.targetZone, l.link, l.ends, l.secret, d)

SameLabels(t, u) ==
    /\ t.site = u.site
    /\ t.siteZone = u.siteZone
    /\ t.targetZone = u.targetZone

SameSpec(t, u) == t.ends = u.ends /\ t.secret = u.secret

\* Mutant: a certificate renewed under the same name goes unnoticed.
EqualsBySpec(t, u) == SameLabels(t, u) /\ SameSpec(t, u)

\* Token.Equals: labels, then Link.Spec, then Secret.Data.
Equals(t, u) == SameLabels(t, u) /\ SameSpec(t, u) /\ t.data = u.data

\* Equals dereferences the Secret only once labels and Spec agree.
EqualsPanics(t, u) == SameLabels(t, u) /\ SameSpec(t, u) /\ t.data = None

(***************************************************************************)
(* The zones of a configuration, in its order: a zone has a name and the   *)
(* list of zones it is reachable from.                                     *)
(***************************************************************************)
HasZone(zones, name) == \E i \in DOMAIN zones : zones[i].name = name

Reachable(zones) == \E i \in DOMAIN zones : zones[i].reach # << >>

(***************************************************************************)
(* Where a token lives in Vault: <van>/<target zone>/links/<key>.  One VAN *)
(* and one mount are modelled, so a path is a target zone and a key.       *)
(***************************************************************************)
LinkKey(site, zone) == zone \o site

PathTo(site, siteZone, targetZone) == <<targetZone, LinkKey(site, siteZone)>>

PathOf(t) == PathTo(t.site, t.siteZone, t.targetZone)

(***************************************************************************)
(* The names Generate gives.  On Kubernetes the certificate, and with it   *)
(* the Secret, is named after zone and site and there is one Link per      *)
(* endpoint group; a System site has one Link, named as its Secret.        *)
(***************************************************************************)
CertName(zone, site) == zone \o site

KubeLinkName(zone, site, group) == zone \o site \o group

KubeToken(site, zone, target, group, ends, data) ==
    Token(site, zone, target, KubeLinkName(zone, site, group), ends,
          CertName(zone, site), data)

SystemToken(site, zone, target, ends, data) ==
    Token(site, zone, target, CertName(zone, site), ends,
          CertName(zone, site), data)

=============================================================================
