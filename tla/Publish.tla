------------------------------- MODULE Publish -------------------------------
(***************************************************************************)
(* The publishing half of a reconcile pass: publishTokens of               *)
(* internal/van/common/vanform.go, with the Generate of the platform's     *)
(* token handler and GetPublishedToken and PublishToken of                 *)
(* internal/client/vault.go.  A pass generates a token for every zone and  *)
(* every zone that one is reachable from, compares it with the one Vault   *)
(* holds, and puts those that differ.                                      *)
(*                                                                         *)
(* On Kubernetes the Secret of a token is issued, some time after its      *)
(* Certificate is created, by the Skupper controller; on a System site a   *)
(* token is a file of the site's runtime directory.                        *)
(***************************************************************************)
EXTENDS VanTokens, Integers

CONSTANTS
    Platforms,          \* the platforms to look at: "kube", "system"
    MySite,             \* this site
    Zone,               \* names of zones
    Group,              \* endpoint groups of a Kubernetes site
    Host,               \* hosts of the token files of a System site
    AnyHost,            \* a zone with no endpoint host
    FileRank,           \* the order in which the token files are read
    Ends,               \* endpoint lists
    MaxData,            \* number of times a certificate is issued again
    Configs,            \* zone lists: name, reach and endpoint host
    MaxChanges,         \* bound on the changes of the others
    MaxFaults           \* bound on failed calls and crashes

\* Contents of a Secret, by age; 0 is one that is not complete.
Data == 0..MaxData

ZoneRecord == [name : Zone, reach : Seq(Zone), host : Host \cup {AnyHost}]

Path == {PathTo(MySite, z, t) : z, t \in Zone}

ASSUME NameAssumption == Zone \subseteq Seq(STRING) /\ MySite \in Seq(STRING)
ASSUME PlatformAssumption == Platforms \subseteq {"kube", "system"} /\ Platforms # {}
ASSUME ConfigsAssumption == Configs \subseteq Seq(ZoneRecord) /\ Configs # {}
ASSUME FileRankAssumption == FileRank \in [Host -> Nat]
ASSUME NoneAssumption == None \notin Ends /\ None \notin Data
ASSUME BoundAssumption == MaxData \in Nat /\ MaxChanges \in Nat /\ MaxFaults \in Nat

VARIABLES
    platform,           \* the one this site runs on
    config,             \* the zones of the VAN configuration now in force
    endpoints,          \* the endpoint list of each group of the ready site
    certs,              \* the zones that have a Certificate
    secrets,            \* the contents of each zone's Secret, or None
    files,              \* the contents of each host's token file, or None
    vault,              \* this site's token at each path, or None
    pc,                 \* where the pass is
    zones,              \* the configuration this pass has loaded
    site,               \* the endpoints of the site this pass has found
    todo,               \* the slots the present loop has not come to
    generated,          \* tokens generated, each with its slot
    published,          \* tokens found in Vault, in order
    toPublish,          \* tokens to put, each with its slot
    touched,            \* paths the others changed during this pass
    changes, faults     \* how much of the bounds is used

world == <<platform, config, endpoints, certs, secrets, files>>
local == <<zones, site, generated, published, toPublish>>
env == <<touched, changes>>
vars == <<world, vault, pc, local, todo, env, faults>>

\* A slot is a zone of the configuration and one of its ReachableFrom.
Slots(zs) == UNION {{<<i, j>> : j \in DOMAIN zs[i].reach} : i \in DOMAIN zs}

SlotPath(zs, s) == PathTo(MySite, zs[s[1]].name, zs[s[1]].reach[s[2]])

Before(s, t) == s[1] < t[1] \/ (s[1] = t[1] /\ s[2] <= t[2])

FirstOf(slots) == CHOOSE s \in slots : \A t \in slots : Before(s, t)

Ready(eps) == {g \in Group : eps[g] # None}

------------------------------------------------------------------------------
\* Mutant: the tokens generated are kept from one pass to the next.
ForgetAllButTokens ==
    /\ zones' = << >>
    /\ site' = [g \in Group |-> None]
    /\ todo' = {}
    /\ published' = << >>
    /\ toPublish' = {}
    /\ touched' = {}
    /\ UNCHANGED generated

Forget ==
    /\ zones' = << >>
    /\ site' = [g \in Group |-> None]
    /\ todo' = {}
    /\ generated' = {}
    /\ published' = << >>
    /\ toPublish' = {}
    /\ touched' = {}

Stop == pc' = "idle" /\ Forget

Fault == faults < MaxFaults /\ faults' = faults + 1

Begin ==
    /\ pc = "idle"
    /\ pc' = "site"
    /\ zones' = config
    /\ UNCHANGED <<world, vault, site, todo, generated, published, toPublish,
                   env, faults>>

------------------------------------------------------------------------------
(* Generate. *)

\* With no reachable zone, or on Kubernetes with no ready site, there is
\* nothing to generate.
GetSite ==
    /\ pc = "site"
    /\ IF /\ Reachable(zones)
          /\ platform = "kube" => Ready(endpoints) # {}
       THEN pc' = IF platform = "kube" THEN "certificate" ELSE "file"
       ELSE pc' = "fetch"
    /\ site' = endpoints
    /\ todo' = Slots(zones)
    /\ UNCHANGED <<world, vault, zones, generated, published, toPublish, env,
                   faults>>

\* A failure to list the sites counts as no site; on a System site the
\* runtime site cannot be read and the pass ends.
GetSiteFails ==
    /\ pc = "site"
    /\ Fault
    /\ IF platform = "kube"
       THEN /\ pc' = "fetch"
            /\ todo' = Slots(zones)
            /\ UNCHANGED <<local, touched>>
       ELSE Stop
    /\ UNCHANGED <<world, vault, changes>>

\* The zone the loop over zones has come to, and its slots.
ThisZone == FirstOf(todo)[1]
ThisZoneSlots == {s \in todo : s[1] = ThisZone}

CreateCertificate ==
    /\ pc = "certificate"
    /\ todo # {}
    /\ \/ /\ certs' = certs \cup {zones[ThisZone].name}
          /\ pc' = "secret"
          /\ UNCHANGED <<local, todo, touched, faults>>
       \/ Fault /\ Stop /\ UNCHANGED certs
    /\ UNCHANGED <<platform, config, endpoints, secrets, files, vault, changes>>

KubeTokens(s, d) ==
    LET z == zones[s[1]]
    IN  {<<s, KubeToken(MySite, z.name, z.reach[s[2]], <<g>>, site[g], d)>> :
            g \in Ready(site)}

\* The Secret is taken as soon as there is one, complete or not: the retry
\* condition is asked only when Get has failed.
GetSecret ==
    /\ pc = "secret"
    /\ LET d == secrets[zones[ThisZone].name]
       IN  /\ d # None
           /\ generated' =
                generated \cup UNION {KubeTokens(s, d) : s \in ThisZoneSlots}
    /\ todo' = todo \ ThisZoneSlots
    /\ pc' = "certificate"
    /\ UNCHANGED <<world, vault, zones, site, published, toPublish, env, faults>>

\* After 60 attempts the pass ends.
GetSecretGivesUp ==
    /\ pc = "secret"
    /\ \/ secrets[zones[ThisZone].name] = None /\ UNCHANGED faults
       \/ Fault
    /\ Stop
    /\ UNCHANGED <<world, vault, changes>>

FilesFor(host) == {h \in Host : files[h] # None /\ host \in {h, AnyHost}}

FirstFile(hosts) == CHOOSE h \in hosts : \A k \in hosts : FileRank[h] <= FileRank[k]

\* loadTokenForHost, once for every slot.
LoadTokenForHost ==
    /\ pc = "file"
    /\ todo # {}
    /\ LET s == FirstOf(todo)
           z == zones[s[1]]
           h == FirstFile(FilesFor(z.host))
       IN  /\ FilesFor(z.host) # {}
           /\ generated' = generated \cup
                {<<s, SystemToken(MySite, z.name, z.reach[s[2]], h, files[h])>>}
           /\ todo' = todo \ {s}
    /\ UNCHANGED <<world, vault, pc, zones, site, published, toPublish, env,
                   faults>>

LoadTokenFails ==
    /\ pc = "file"
    /\ todo # {}
    /\ \/ FilesFor(zones[ThisZone].host) = {} /\ UNCHANGED faults
       \/ Fault
    /\ Stop
    /\ UNCHANGED <<world, vault, changes>>

Generated ==
    /\ pc \in {"certificate", "file"}
    /\ todo = {}
    /\ pc' = "fetch"
    /\ todo' = Slots(zones)
    /\ UNCHANGED <<world, vault, local, env, faults>>

------------------------------------------------------------------------------
(* The tokens published so far, and what is to be published. *)

\* A token that cannot be read counts as one that is not there.
GetPublishedToken ==
    /\ pc = "fetch"
    /\ todo # {}
    /\ LET s == FirstOf(todo)
           t == vault[SlotPath(zones, s)]
       IN  /\ todo' = todo \ {s}
           /\ \/ /\ published' = IF t = None THEN published ELSE Append(published, t)
                 /\ UNCHANGED faults
              \/ Fault /\ UNCHANGED published
    /\ UNCHANGED <<world, vault, pc, zones, site, generated, toPublish, env>>

\* Mutant: the first published token whatever its target zone.
FirstForAny(target) ==
    {i \in DOMAIN published : \A j \in DOMAIN published : i <= j}

\* getToken: the first published token for that target zone.
FirstFor(target) ==
    {i \in DOMAIN published :
        /\ published[i].targetZone = target
        /\ \A j \in DOMAIN published : published[j].targetZone = target => i <= j}

\* Mutant: any token there is for the target will do.
AnyPublished(t) == FirstFor(t.targetZone) # {}

\* Mutant: tokens are compared without what they carry.
SamePublished(t) ==
    \E i \in FirstFor(t.targetZone) : SameLabels(published[i], t)

AlreadyPublished(t) ==
    \E i \in FirstFor(t.targetZone) : Equals(published[i], t)

Compare ==
    /\ pc = "fetch"
    /\ todo = {}
    /\ toPublish' = {x \in generated : ~AlreadyPublished(x[2])}
    /\ pc' = "put"
    /\ UNCHANGED <<world, vault, zones, site, todo, generated, published, env,
                   faults>>

\* In the order of generation; Go leaves that of the groups open.
NextToPut(x) == x \in toPublish /\ x[1] = FirstOf({y[1] : y \in toPublish})

PublishToken(x) ==
    /\ pc = "put"
    /\ NextToPut(x)
    /\ vault' = [vault EXCEPT ![PathOf(x[2])] = x[2]]
    /\ toPublish' = toPublish \ {x}
    /\ UNCHANGED <<world, pc, zones, site, todo, generated, published, env, faults>>

\* The first token that cannot be put ends the pass.
PublishTokenFails ==
    /\ pc = "put"
    /\ toPublish # {}
    /\ Fault
    /\ Stop
    /\ UNCHANGED <<world, vault, changes>>

End ==
    /\ pc = "put"
    /\ toPublish = {}
    /\ Stop
    /\ UNCHANGED <<world, vault, changes, faults>>

Crash ==
    /\ pc # "idle"
    /\ Fault
    /\ Stop
    /\ UNCHANGED <<world, vault, changes>>

------------------------------------------------------------------------------
(* What the others do meanwhile. *)

Change == changes < MaxChanges /\ changes' = changes + 1

\* The Skupper controller issues, or reissues, the Secret of a Certificate.
\* It is not bound by MaxChanges, for it goes up to MaxData only.
Issue(z) ==
    /\ z \in certs
    /\ secrets' = [secrets EXCEPT ![z] = IF @ = None THEN 0 ELSE @ + 1]
    /\ secrets'[z] <= MaxData
    /\ UNCHANGED <<platform, config, endpoints, certs, files, vault, pc, local,
                   todo, env, faults>>

SetEndpoints(g, e) ==
    /\ platform = "kube"
    /\ endpoints[g] # e
    /\ Change
    /\ endpoints' = [endpoints EXCEPT ![g] = e]
    /\ UNCHANGED <<platform, config, certs, secrets, files, vault, pc, local,
                   todo, touched, faults>>

SetFile(h, d) ==
    /\ platform = "system"
    /\ d # 0
    /\ files[h] # d
    /\ Change
    /\ files' = [files EXCEPT ![h] = d]
    /\ UNCHANGED <<platform, config, endpoints, certs, secrets, vault, pc, local,
                   todo, touched, faults>>

Reconfigure(c) ==
    /\ c # config
    /\ Change
    /\ config' = c
    /\ UNCHANGED <<platform, endpoints, certs, secrets, files, vault, pc, local,
                   todo, touched, faults>>

\* An operator deletes a token.
Withdraw(p) ==
    /\ vault[p] # None
    /\ Change
    /\ vault' = [vault EXCEPT ![p] = None]
    /\ touched' = IF pc = "idle" THEN {} ELSE touched \cup {p}
    /\ UNCHANGED <<world, pc, local, todo, faults>>

------------------------------------------------------------------------------
Init ==
    /\ platform \in Platforms
    /\ config \in Configs
    /\ endpoints = [g \in Group |-> None]
    /\ certs = {}
    /\ secrets = [z \in Zone |-> None]
    /\ files = [h \in Host |-> None]
    /\ vault = [p \in Path |-> None]
    /\ pc = "idle"
    /\ zones = << >>
    /\ site = [g \in Group |-> None]
    /\ todo = {}
    /\ generated = {}
    /\ published = << >>
    /\ toPublish = {}
    /\ touched = {}
    /\ changes = 0
    /\ faults = 0

Pass ==
    \/ Begin \/ GetSite \/ CreateCertificate \/ GetSecret \/ GetSecretGivesUp
    \/ LoadTokenForHost \/ LoadTokenFails \/ Generated
    \/ GetPublishedToken \/ Compare
    \/ \E x \in toPublish : PublishToken(x)
    \/ End

Mishap == GetSiteFails \/ PublishTokenFails \/ Crash

Others ==
    \/ \E z \in Zone : Issue(z)
    \/ \E g \in Group, e \in Ends \cup {None} : SetEndpoints(g, e)
    \/ \E h \in Host, d \in Data \cup {None} : SetFile(h, d)
    \/ \E c \in Configs : Reconfigure(c)
    \/ \E p \in Path : Withdraw(p)

Next == Pass \/ Mishap \/ Others

\* A pass goes on, and the controller starts another every minute.
Spec == Init /\ [][Next]_vars /\ WF_vars(Pass)

------------------------------------------------------------------------------
(* Properties. *)

TokenRecord ==
    [site : {MySite}, siteZone : Zone, targetZone : Zone,
     link : {KubeLinkName(z, MySite, <<g>>) : z \in Zone, g \in Group}
                \cup {CertName(z, MySite) : z \in Zone},
     ends : Ends \cup Host, secret : {CertName(z, MySite) : z \in Zone},
     data : Data]

\* The values the variables take.  Beyond types: a token generated belongs to
\* its slot, and only tokens generated in this pass are put (vanform.go:103-110).
TypeOK ==
    /\ platform \in Platforms
    /\ config \in Configs
    /\ endpoints \in [Group -> Ends \cup {None}]
    /\ certs \subseteq Zone
    /\ secrets \in [Zone -> Data \cup {None}]
    /\ files \in [Host -> Data \cup {None}]
    /\ vault \in [Path -> TokenRecord \cup {None}]
    /\ pc \in {"idle", "site", "certificate", "secret", "file", "fetch", "put"}
    /\ zones \in Configs \cup {<< >>}
    /\ site \in [Group -> Ends \cup {None}]
    /\ todo \subseteq Slots(zones)
    /\ generated \subseteq Slots(zones) \X TokenRecord
    /\ \A x \in generated : PathOf(x[2]) = SlotPath(zones, x[1])
    /\ published \in Seq(TokenRecord)
    /\ toPublish \subseteq generated
    /\ touched \subseteq Path
    /\ changes \in 0..MaxChanges
    /\ faults \in 0..MaxFaults

\* A pass that comes to its end without an error has published every token it
\* generated, one Link per endpoint group (kube/token.go:102, vanform.go:103-124),
\* though it could not read some of those in Vault (vanform.go:84-97).
PassPublishes ==
    pc = "put" /\ toPublish = {} =>
        \A x \in generated :
            PathOf(x[2]) \in touched \/ vault[PathOf(x[2])] = x[2]

\* A certificate in Vault is never replaced by an older one: what a pass puts
\* it has read in that pass, and passes do not overlap.
NoDowngrade ==
    [][platform = "kube" =>
        \A p \in Path : vault[p] # None /\ vault'[p] # None
            => vault[p].data <= vault'[p].data]_vault

\* The tokens this site ought to have in slot s of the present configuration.
Wanted(s) ==
    LET z == config[s[1]]
        t == z.reach[s[2]]
        h == FirstFile(FilesFor(z.host))
    IN  IF platform = "kube"
        THEN {KubeToken(MySite, z.name, t, <<g>>, endpoints[g], secrets[z.name]) :
                 g \in Ready(endpoints)}
        ELSE {SystemToken(MySite, z.name, t, h, files[h])}

\* What Generate needs is there, for every zone.
Publishable ==
    /\ platform = "kube" => Ready(endpoints) # {}
    /\ \A s \in Slots(config) :
        IF platform = "kube"
        THEN secrets[config[s[1]].name] # None
        ELSE FilesFor(config[s[1]].host) # {}

\* Once failures and changes are over, Vault comes to hold the site's present
\* token for every zone it is reachable from, and keeps it (vanform.go:60-126).
Converges ==
    <>[](Publishable =>
            \A s \in Slots(config) : vault[SlotPath(config, s)] \in Wanted(s))

\* And the passes stop writing: "token already published" (vanform.go:106).
Quiesces == <>[](toPublish = {})

=============================================================================
