---------------------------- MODULE PublishProofs ----------------------------
(***************************************************************************)
(* Proofs about the publishing pass, for any zones, groups and hosts and   *)
(* any bounds: the types, that a certificate in Vault is never replaced by *)
(* an older one, and that a pass that ends has published what it made.     *)
(***************************************************************************)
EXTENDS Publish, CommonLemmas, SequenceTheorems, TLAPS

------------------------------------------------------------------------------
(* Lemmas about the operators. *)

LEMMA ZonesAreSequence ==
    ASSUME NEW zs \in Configs \cup {<< >>}
    PROVE  zs \in Seq(ZoneRecord)
<1>1. CASE zs \in Configs
  BY <1>1, ConfigsAssumption
<1>2. CASE zs = << >>
  BY <1>2
<1> QED BY <1>1, <1>2

\* A slot names a zone of the configuration and one it is reachable from.
LEMMA SlotType ==
    ASSUME NEW zs \in Configs \cup {<< >>}, NEW s \in Slots(zs)
    PROVE  /\ s \in Nat \X Nat /\ s[1] \in DOMAIN zs
           /\ zs[s[1]] \in ZoneRecord /\ zs[s[1]].name \in Zone
           /\ zs[s[1]].reach[s[2]] \in Zone
           /\ SlotPath(zs, s) \in Path
<1>1. PICK i \in DOMAIN zs : \E j \in DOMAIN zs[i].reach : s = <<i, j>>
  BY DEF Slots
<1>2. PICK j \in DOMAIN zs[i].reach : s = <<i, j>>
  BY <1>1
<1>3. i \in Nat /\ zs[i] \in ZoneRecord
  BY ZonesAreSequence
<1>4. zs[i].name \in Zone /\ zs[i].reach \in Seq(Zone)
  BY <1>3 DEF ZoneRecord
<1>5. j \in Nat /\ zs[i].reach[j] \in Zone
  BY <1>4
<1>6. s \in Nat \X Nat /\ s[1] = i /\ s[2] = j
  BY <1>2, <1>3, <1>5
<1>7. SlotPath(zs, s) \in Path
  BY <1>4, <1>5, <1>6 DEF SlotPath, Path
<1> QED BY <1>3, <1>4, <1>5, <1>6, <1>7

\* The loops over zones and zones to reach come to a first slot.
LEMMA FirstSlot ==
    ASSUME NEW slots, slots \subseteq Nat \X Nat, slots # {}
    PROVE  FirstOf(slots) \in slots /\ \A t \in slots : Before(FirstOf(slots), t)
<1>1. \E s \in slots : \A t \in slots : Before(s, t)
  BY FirstPair DEF Before
<1> QED BY <1>1 DEF FirstOf

\* loadTokenForHost returns the first of the files that will do.
LEMMA FirstFileWillDo ==
    ASSUME NEW host, FilesFor(host) # {}
    PROVE  FirstFile(FilesFor(host)) \in FilesFor(host)
<1>1. \A h \in FilesFor(host) : FileRank[h] \in Nat
  BY FileRankAssumption DEF FilesFor
<1>2. \E h \in FilesFor(host) : \A k \in FilesFor(host) : FileRank[h] <= FileRank[k]
  BY <1>1, LowestRank
<1> QED BY <1>2 DEF FirstFile

------------------------------------------------------------------------------
(* The types.  Between passes a site has nothing, so that a new one may load *)
(* another configuration.                                                    *)

IdleInv ==
    pc = "idle" => /\ zones = << >> /\ todo = {} /\ generated = {} /\ published = << >>
                   /\ toPublish = {}

TInv == TypeOK /\ IdleInv

LEMMA FaultBound ==
    ASSUME TypeOK, Fault
    PROVE  faults' \in 0..MaxFaults /\ faults' # 0
BY BoundAssumption DEF Fault, TypeOK

LEMMA ChangeBound ==
    ASSUME TypeOK, Change
    PROVE  changes' \in 0..MaxChanges
BY BoundAssumption DEF Change, TypeOK

LEMMA StopTypes ==
    ASSUME TInv, Stop,
           platform' = platform, config' = config, endpoints' = endpoints,
           certs' = certs, secrets' = secrets, files' = files, vault' = vault,
           changes' = changes, faults' \in 0..MaxFaults
    PROVE  TInv'
<1>1. /\ zones' = << >> /\ todo' = {} /\ generated' = {} /\ published' = << >>
      /\ toPublish' = {} /\ touched' = {} /\ pc' = "idle"
      /\ site' = [g \in Group |-> None]
  BY DEF Stop, Forget
<1>2. TypeOK'
  BY <1>1 DEF TInv, TypeOK
<1> QED BY <1>1, <1>2 DEF TInv, IdleInv

\* A token of a Kubernetes site belongs to its slot.
LEMMA KubeTokensType ==
    ASSUME TypeOK, NEW s \in Slots(zones), NEW d \in Data, NEW x \in KubeTokens(s, d)
    PROVE  /\ x[1] = s /\ x[2] \in TokenRecord /\ x \in Slots(zones) \X TokenRecord
           /\ PathOf(x[2]) = SlotPath(zones, s)
           /\ x[2].siteZone = zones[s[1]].name /\ x[2].data = d
<1> DEFINE z == zones[s[1]]
           t == z.reach[s[2]]
<1>1. z.name \in Zone /\ t \in Zone
  BY SlotType DEF TypeOK
<1>2. PICK g \in Ready(site) : x = <<s, KubeToken(MySite, z.name, t, <<g>>, site[g], d)>>
  BY DEF KubeTokens
<1>3. g \in Group /\ site[g] \in Ends
  BY DEF Ready, TypeOK
<1> HIDE DEF z, t
<1>4. KubeToken(MySite, z.name, t, <<g>>, site[g], d) \in TokenRecord
  BY <1>1, <1>3 DEF KubeToken, Token, TokenRecord
<1>5. PathOf(KubeToken(MySite, z.name, t, <<g>>, site[g], d)) = PathTo(MySite, z.name, t)
  BY DEF KubeToken, Token, PathOf
<1>6. /\ KubeToken(MySite, z.name, t, <<g>>, site[g], d).siteZone = z.name
      /\ KubeToken(MySite, z.name, t, <<g>>, site[g], d).data = d
  BY DEF KubeToken, Token
<1> QED BY <1>2, <1>4, <1>5, <1>6 DEF SlotPath, z, t

\* So does one of a System site.
LEMMA SystemTokenType ==
    ASSUME TypeOK, NEW s \in Slots(zones), NEW h \in Host, NEW d \in Data
    PROVE  LET t == SystemToken(MySite, zones[s[1]].name, zones[s[1]].reach[s[2]], h, d)
           IN  t \in TokenRecord /\ PathOf(t) = SlotPath(zones, s)
<1> DEFINE z == zones[s[1]].name
           u == zones[s[1]].reach[s[2]]
<1>1. z \in Zone /\ u \in Zone
  BY SlotType DEF TypeOK
<1>2. PathTo(MySite, z, u) = SlotPath(zones, s)
  BY DEF SlotPath
<1> HIDE DEF z, u
<1>3. SystemToken(MySite, z, u, h, d) \in TokenRecord
  BY <1>1 DEF SystemToken, Token, TokenRecord
<1>4. PathOf(SystemToken(MySite, z, u, h, d)) = PathTo(MySite, z, u)
  BY DEF SystemToken, Token, PathOf
<1> QED BY <1>2, <1>3, <1>4 DEF z, u

\* The zone at hand in the loops of Generate.
LEMMA ThisZoneType ==
    ASSUME TypeOK, todo # {}
    PROVE  /\ FirstOf(todo) \in todo /\ FirstOf(todo) \in Slots(zones)
           /\ ThisZone \in Nat /\ zones[ThisZone] \in ZoneRecord /\ zones[ThisZone].name \in Zone
           /\ \A s \in todo : Before(FirstOf(todo), s)
           /\ ThisZoneSlots \subseteq todo
<1>1. todo \subseteq Nat \X Nat
  BY SlotType DEF TypeOK
<1>2. FirstOf(todo) \in todo /\ \A s \in todo : Before(FirstOf(todo), s)
  BY <1>1, FirstSlot
<1>3. FirstOf(todo) \in Slots(zones)
  BY <1>2 DEF TypeOK
<1>4. /\ FirstOf(todo)[1] \in Nat /\ zones[FirstOf(todo)[1]] \in ZoneRecord
      /\ zones[FirstOf(todo)[1]].name \in Zone
  BY <1>3, SlotType DEF TypeOK
<1> QED BY <1>2, <1>3, <1>4 DEF ThisZone, ThisZoneSlots

LEMMA GenerateTypes ==
    ASSUME TInv, Begin \/ GetSite \/ CreateCertificate \/ GetSecret \/ GetSecretGivesUp
    PROVE  TInv'
<1>a. TypeOK /\ faults \in 0..MaxFaults
  BY DEF TInv, TypeOK
<1>1. CASE Begin
  <2>1. todo' = {} /\ generated' = {} /\ toPublish' = {} /\ published' = << >>
    BY <1>1 DEF Begin, TInv, IdleInv
  <2>2. zones' \in Configs /\ pc' = "site" /\ UNCHANGED <<world, vault, site, env, faults>>
    BY <1>a, <1>1 DEF Begin, TypeOK
  <2>3. TypeOK'
    BY <1>a, <2>1, <2>2 DEF TypeOK, world, env
  <2> QED BY <2>2, <2>3 DEF TInv, IdleInv
<1>2. CASE GetSite
  <2>1. /\ pc' \in {"certificate", "file", "fetch"} /\ site' = endpoints
        /\ todo' = Slots(zones')
        /\ UNCHANGED <<world, vault, zones, generated, published, toPublish, env, faults>>
    BY <1>2 DEF GetSite
  <2>2. TypeOK'
    BY <1>a, <2>1 DEF TypeOK, world, env
  <2> QED BY <2>1, <2>2 DEF TInv, IdleInv
<1>3. CASE CreateCertificate
  <2>1. CASE Stop /\ Fault /\ UNCHANGED certs
    <3> QED BY <1>a, <1>3, <2>1, FaultBound, StopTypes DEF CreateCertificate
  <2>2. CASE /\ certs' = certs \cup {zones[ThisZone].name} /\ pc' = "secret"
             /\ UNCHANGED <<local, todo, touched, faults>>
    <3>1. certs' \subseteq Zone
      BY <1>a, <1>3, <2>2, ThisZoneType DEF CreateCertificate, TypeOK
    <3>2. TypeOK'
      BY <1>a, <1>3, <2>2, <3>1 DEF CreateCertificate, TypeOK, local
    <3> QED BY <2>2, <3>2 DEF TInv, IdleInv
  <2> QED BY <1>3, <2>1, <2>2 DEF CreateCertificate
<1>4. CASE GetSecret
  <2> DEFINE d == secrets[zones[ThisZone].name]
             new == UNION {KubeTokens(s, d) : s \in ThisZoneSlots}
  <2>1. /\ d # None /\ generated' = generated \cup new /\ todo' = todo \ ThisZoneSlots
        /\ pc' = "certificate"
        /\ UNCHANGED <<world, vault, zones, site, published, toPublish, env, faults>>
    BY <1>4 DEF GetSecret
  <2>2. ASSUME NEW x \in new
        PROVE  x \in Slots(zones) \X TokenRecord /\ PathOf(x[2]) = SlotPath(zones, x[1])
    <3>1. PICK s \in ThisZoneSlots : x \in KubeTokens(s, d)
      OBVIOUS
    <3>2. s \in todo /\ s \in Slots(zones) /\ todo # {}
      BY <1>a DEF ThisZoneSlots, TypeOK
    <3>3. d \in Data
      BY <1>a, <2>1, <3>2, ThisZoneType DEF TypeOK
    <3> HIDE DEF d
    <3> QED BY <1>a, <3>1, <3>2, <3>3, KubeTokensType
  <2> HIDE DEF d, new
  <2>3. TypeOK'
    BY <1>a, <2>1, <2>2 DEF TypeOK, world, env
  <2> QED BY <2>1, <2>3 DEF TInv, IdleInv
<1>5. CASE GetSecretGivesUp
  <2>1. faults' \in 0..MaxFaults
    BY <1>a, <1>5, FaultBound DEF GetSecretGivesUp
  <2> QED BY <1>5, <2>1, StopTypes DEF GetSecretGivesUp, world
<1> QED BY <1>1, <1>2, <1>3, <1>4, <1>5

LEMMA LoadTypes ==
    ASSUME TInv, LoadTokenForHost \/ LoadTokenFails \/ Generated \/ GetSiteFails
    PROVE  TInv'
<1>a. TypeOK /\ faults \in 0..MaxFaults
  BY DEF TInv, TypeOK
<1>1. CASE LoadTokenForHost
  <2> DEFINE s == FirstOf(todo)
             z == zones[s[1]]
             h == FirstFile(FilesFor(z.host))
             t == SystemToken(MySite, z.name, z.reach[s[2]], h, files[h])
  <2>1. /\ FilesFor(z.host) # {} /\ generated' = generated \cup {<<s, t>>}
        /\ todo' = todo \ {s} /\ pc' = "file"
        /\ UNCHANGED <<world, vault, pc, zones, site, published, toPublish, env, faults>>
    BY <1>1 DEF LoadTokenForHost
  <2>2. s \in Slots(zones)
    BY <1>a, <1>1, ThisZoneType DEF LoadTokenForHost
  <2>3. h \in Host /\ files[h] \in Data
    <3>1. h \in FilesFor(z.host)
      BY <2>1, FirstFileWillDo
    <3> QED BY <1>a, <3>1 DEF FilesFor, TypeOK
  <2>4. t \in TokenRecord /\ PathOf(t) = SlotPath(zones, s)
    <3> HIDE DEF h, s
    <3> QED BY <1>a, <2>2, <2>3, SystemTokenType
  <2> HIDE DEF s, z, h, t
  <2>5. TypeOK'
    BY <1>a, <2>1, <2>2, <2>4 DEF TypeOK, world, env
  <2> QED BY <2>1, <2>5 DEF TInv, IdleInv
<1>2. CASE LoadTokenFails
  <2>1. faults' \in 0..MaxFaults
    BY <1>a, <1>2, FaultBound DEF LoadTokenFails
  <2> QED BY <1>2, <2>1, StopTypes DEF LoadTokenFails, world
<1>3. CASE Generated
  <2>1. TypeOK'
    BY <1>a, <1>3 DEF Generated, TypeOK, world, local, env
  <2> QED BY <1>3, <2>1 DEF Generated, TInv, IdleInv
<1>4. CASE GetSiteFails
  <2>1. faults' \in 0..MaxFaults
    BY <1>a, <1>4, FaultBound DEF GetSiteFails
  <2>2. CASE Stop
    BY <1>4, <2>1, <2>2, StopTypes DEF GetSiteFails, world
  <2>3. CASE pc' = "fetch" /\ todo' = Slots(zones) /\ UNCHANGED <<local, touched>>
    <3>1. TypeOK'
      BY <1>a, <1>4, <2>1, <2>3 DEF GetSiteFails, TypeOK, world, local
    <3> QED BY <2>3, <3>1 DEF TInv, IdleInv
  <2> QED BY <1>4, <2>2, <2>3 DEF GetSiteFails
<1> QED BY <1>1, <1>2, <1>3, <1>4

LEMMA PutTypes ==
    ASSUME TInv, \/ GetPublishedToken \/ Compare \/ PublishTokenFails \/ End \/ Crash
                 \/ \E x \in toPublish : PublishToken(x)
    PROVE  TInv'
<1>a. TypeOK /\ faults \in 0..MaxFaults
  BY DEF TInv, TypeOK
<1>1. CASE GetPublishedToken
  <2> DEFINE s == FirstOf(todo)
             t == vault[SlotPath(zones, s)]
  <2>1. /\ pc' = "fetch" /\ todo' = todo \ {s}
        /\ published' = published \/ (t # None /\ published' = Append(published, t))
        /\ UNCHANGED <<world, vault, pc, zones, site, generated, toPublish, env>>
    BY <1>1 DEF GetPublishedToken
  <2>2. faults' \in 0..MaxFaults
    BY <1>a, <1>1, FaultBound DEF GetPublishedToken
  <2>3. SlotPath(zones, s) \in Path
    BY <1>a, <1>1, ThisZoneType, SlotType DEF GetPublishedToken, TypeOK
  <2>4. t # None => t \in TokenRecord
    BY <1>a, <2>3 DEF TypeOK
  <2> HIDE DEF t, s
  <2>5. published' \in Seq(TokenRecord)
    <3>1. published \in Seq(TokenRecord)
      BY <1>a DEF TypeOK
    <3> QED BY <2>1, <2>4, <3>1, AppendProperties
  <2>6. TypeOK'
    BY <1>a, <2>1, <2>2, <2>5 DEF TypeOK, world, env
  <2> QED BY <2>1, <2>6 DEF TInv, IdleInv
<1>2. CASE Compare
  <2>1. TypeOK'
    BY <1>a, <1>2 DEF Compare, TypeOK, world, env
  <2> QED BY <1>2, <2>1 DEF Compare, TInv, IdleInv
<1>3. CASE PublishTokenFails \/ Crash
  <2>1. faults' \in 0..MaxFaults
    BY <1>a, <1>3, FaultBound DEF PublishTokenFails, Crash
  <2> QED BY <1>3, <2>1, StopTypes DEF PublishTokenFails, Crash, world
<1>4. CASE End
  BY <1>a, <1>4, StopTypes DEF End, world
<1>5. ASSUME NEW x \in toPublish, PublishToken(x)
      PROVE  TInv'
  <2>1. x[2] \in TokenRecord
    BY <1>a DEF TypeOK
  <2>2. vault' \in [Path -> TokenRecord \cup {None}]
    BY <1>a, <1>5, <2>1 DEF PublishToken, TypeOK
  <2>3. TypeOK'
    BY <1>a, <1>5, <2>2 DEF PublishToken, TypeOK, world, env
  <2> QED BY <1>5, <2>3 DEF PublishToken, TInv, IdleInv
<1> QED BY <1>1, <1>2, <1>3, <1>4, <1>5

\* A certificate is issued at age 0 and only gets older.
LEMMA IssueAges ==
    ASSUME TypeOK, NEW z \in Zone, Issue(z)
    PROVE  /\ secrets'[z] \in Data
           /\ secrets[z] # None => secrets[z] < secrets'[z]
           /\ \A y \in Zone \ {z} : secrets'[y] = secrets[y]
           /\ secrets' \in [Zone -> Data \cup {None}]
<1> DEFINE d == IF secrets[z] = None THEN 0 ELSE secrets[z] + 1
<1>1. secrets \in [Zone -> Data \cup {None}]
  BY DEF TypeOK
<1>2. secrets' = [secrets EXCEPT ![z] = d] /\ secrets'[z] <= MaxData
  BY DEF Issue
<1>3. secrets'[z] = d
  BY <1>1, <1>2
<1>4. d \in Nat /\ (secrets[z] # None => secrets[z] < d)
  BY <1>1, BoundAssumption DEF Data
<1>5. d \in Data
  BY <1>2, <1>3, <1>4, BoundAssumption DEF Data
<1> HIDE DEF d
<1> QED BY <1>1, <1>2, <1>3, <1>4, <1>5

LEMMA OthersTypes ==
    ASSUME TInv, Others
    PROVE  TInv'
<1>a. TypeOK
  BY DEF TInv
<1>b. UNCHANGED <<pc, zones, site, generated, published, toPublish, todo>>
  BY DEF Others, Issue, SetEndpoints, SetFile, Reconfigure, Withdraw, local
<1>1. ASSUME NEW z \in Zone, Issue(z)
      PROVE  TypeOK'
  <2>1. secrets' \in [Zone -> Data \cup {None}]
    BY <1>a, <1>1, IssueAges DEF TypeOK
  <2> QED BY <1>a, <1>b, <1>1, <2>1 DEF Issue, TypeOK, env
<1>2. ASSUME NEW g \in Group, NEW e \in Ends \cup {None}, SetEndpoints(g, e)
      PROVE  TypeOK'
  BY <1>a, <1>b, <1>2, ChangeBound DEF SetEndpoints, TypeOK
<1>3. ASSUME NEW h \in Host, NEW d \in Data \cup {None}, SetFile(h, d)
      PROVE  TypeOK'
  BY <1>a, <1>b, <1>3, ChangeBound DEF SetFile, TypeOK
<1>4. ASSUME NEW c \in Configs, Reconfigure(c)
      PROVE  TypeOK'
  BY <1>a, <1>b, <1>4, ChangeBound DEF Reconfigure, TypeOK
<1>5. ASSUME NEW p \in Path, Withdraw(p)
      PROVE  TypeOK'
  BY <1>a, <1>b, <1>5, ChangeBound DEF Withdraw, TypeOK, world
<1>6. TypeOK'
  BY <1>1, <1>2, <1>3, <1>4, <1>5 DEF Others
<1> QED BY <1>b, <1>6 DEF TInv, IdleInv

LEMMA StepTypes == TInv /\ [Next]_vars => TInv'
<1> SUFFICES ASSUME TInv, [Next]_vars PROVE TInv'
  OBVIOUS
<1>1. CASE UNCHANGED vars
  BY <1>1 DEF TInv, TypeOK, IdleInv, vars, world, local, env
<1> QED
  BY <1>1, GenerateTypes, LoadTypes, PutTypes, OthersTypes DEF Next, Pass, Mishap

LEMMA InitTypes == Init => TInv
BY BoundAssumption DEF Init, TInv, TypeOK, IdleInv

\* The variables of a publishing pass keep their types, a token generated lies
\* where its slot says, and only such tokens are put (vanform.go:60-126).
THEOREM TypeCorrect == Spec => []TypeOK
<1>1. TInv => TypeOK
  BY DEF TInv
<1> QED BY <1>1, InitTypes, StepTypes, PTL DEF Spec

------------------------------------------------------------------------------
(* On Kubernetes a certificate in Vault is never replaced by an older one.   *)

\* The certificate of a token is one its zone has been issued.
Issued(t) == secrets[t.siteZone] # None /\ t.data <= secrets[t.siteZone]

IssuedInv ==
    /\ \A p \in Path : vault[p] # None => Issued(vault[p])
    /\ \A x \in generated : Issued(x[2])

\* A token lies at its own path.
PathInv == \A p \in Path : vault[p] # None => PathOf(vault[p]) = p

\* Of the tokens of one zone (a configuration may name it twice) the later ones are
\* not the older ones.
OrderInv ==
    \A x, y \in generated :
        Before(x[1], y[1]) /\ x[2].siteZone = y[2].siteZone => x[2].data <= y[2].data

\* Generate goes through the zones in order, and only it makes tokens.
LoopInv ==
    /\ pc \in {"certificate", "secret"} => \A x \in generated, s \in todo : x[1][1] < s[1]
    /\ pc = "site" => generated = {} /\ toPublish = {}
    /\ pc # "file"

\* What is to be put is not older than what it will replace.
FreshInv ==
    \A x \in generated :
        (x \in toPublish \/ pc # "put") /\ vault[PathOf(x[2])] # None =>
            vault[PathOf(x[2])].data <= x[2].data

KInv == PathInv /\ IssuedInv /\ OrderInv /\ LoopInv /\ FreshInv

\* The key of a token tells its zone: the site's name, joined to it, can be cut off.
LEMMA PathTellsZone ==
    ASSUME NEW t \in TokenRecord, NEW u \in TokenRecord, PathOf(t) = PathOf(u)
    PROVE  t.siteZone = u.siteZone
<1>1. /\ t.siteZone \in Seq(STRING) /\ u.siteZone \in Seq(STRING) /\ MySite \in Seq(STRING)
      /\ t.site = MySite /\ u.site = MySite
  BY NameAssumption DEF TokenRecord
<1>2. t.siteZone \o MySite = u.siteZone \o MySite
  BY <1>1 DEF PathOf, PathTo, LinkKey
<1>3. \A s, w, v \in Seq(STRING) : s \o v = w \o v => s = w
  BY ConcatSimplifications
<1> QED BY <1>1, <1>2, <1>3

LEMMA GeneratedType ==
    ASSUME TypeOK, NEW x \in generated
    PROVE  /\ x[2] \in TokenRecord /\ PathOf(x[2]) \in Path /\ x[2].data \in Nat
           /\ x[1] \in Slots(zones) /\ x[1] \in Nat \X Nat
<1>1. x[1] \in Slots(zones) /\ x[2] \in TokenRecord /\ PathOf(x[2]) = SlotPath(zones, x[1])
  BY DEF TypeOK
<1>2. PathOf(x[2]) \in Path /\ x[1] \in Nat \X Nat
  BY <1>1, SlotType DEF TypeOK
<1>3. x[2].data \in Nat
  BY <1>1, BoundAssumption DEF TokenRecord, Data
<1> QED BY <1>1, <1>2, <1>3

\* Without tokens in hand nothing can go wrong.
LEMMA NothingInHand ==
    ASSUME KInv, UNCHANGED <<vault, secrets>>, generated' = {}, toPublish' = {}, pc' # "file"
    PROVE  KInv'
<1>1. PathInv' /\ IssuedInv'
  BY DEF KInv, PathInv, IssuedInv, Issued
<1>2. OrderInv' /\ LoopInv' /\ FreshInv'
  BY DEF OrderInv, LoopInv, FreshInv
<1> QED BY <1>1, <1>2 DEF KInv

\* Steps that neither make nor put a token.
LEMMA TokensAlone ==
    ASSUME KInv, UNCHANGED <<vault, secrets, generated>>,
           \/ pc' = pc /\ todo' = todo /\ toPublish' = toPublish
           \/ {pc, pc'} \subseteq {"certificate", "secret"} /\ todo' = todo
           \/ pc \in {"certificate", "fetch"} /\ pc' = "fetch"
           \/ pc = "fetch" /\ pc' = "put"
    PROVE  KInv'
<1>1. PathInv' /\ IssuedInv' /\ OrderInv'
  BY DEF KInv, PathInv, IssuedInv, Issued, OrderInv
<1>2. LoopInv'
  BY DEF KInv, LoopInv
<1>3. FreshInv'
  BY DEF KInv, FreshInv
<1> QED BY <1>1, <1>2, <1>3 DEF KInv

LEMMA GetSecretKeepsAges ==
    ASSUME TInv, KInv, GetSecret
    PROVE  KInv'
<1> DEFINE z == zones[ThisZone].name
           d == secrets[z]
           new == UNION {KubeTokens(s, d) : s \in ThisZoneSlots}
<1>a. /\ pc = "secret" /\ pc' = "certificate" /\ d # None
      /\ generated' = generated \cup new /\ todo' = todo \ ThisZoneSlots
      /\ UNCHANGED <<vault, secrets, zones, toPublish>>
  BY DEF GetSecret, world
<1>b. TypeOK
  BY DEF TInv
<1>c. ASSUME NEW s \in ThisZoneSlots
      PROVE  /\ s \in todo /\ s \in Slots(zones) /\ s[1] = ThisZone /\ todo # {}
             /\ d \in Data /\ d \in Nat
  <2>1. s \in todo /\ s[1] = ThisZone /\ s \in Slots(zones)
    BY <1>b DEF ThisZoneSlots, TypeOK
  <2>2. z \in Zone
    BY <1>b, <2>1, ThisZoneType
  <2>3. d \in Data
    BY <1>a, <1>b, <2>2 DEF TypeOK
  <2> QED BY <2>1, <2>3, BoundAssumption DEF Data
<1>d. ASSUME NEW x \in new
      PROVE  /\ x[1] \in todo /\ x[1][1] = ThisZone /\ x[2].siteZone = z /\ x[2].data = d
             /\ x[2] \in TokenRecord /\ PathOf(x[2]) \in Path /\ d \in Nat /\ todo # {}
  <2>1. PICK s \in ThisZoneSlots : x \in KubeTokens(s, d)
    OBVIOUS
  <2>2. s \in todo /\ s \in Slots(zones) /\ s[1] = ThisZone /\ d \in Data /\ d \in Nat
    BY <1>c
  <2>3. SlotPath(zones, s) \in Path
    BY <1>b, <2>2, SlotType DEF TypeOK
  <2> HIDE DEF d
  <2>4. /\ x[1] = s /\ x[2] \in TokenRecord /\ PathOf(x[2]) = SlotPath(zones, s)
        /\ x[2].siteZone = zones[s[1]].name /\ x[2].data = d
    BY <1>b, <2>1, <2>2, KubeTokensType
  <2> QED BY <2>2, <2>3, <2>4
<1> HIDE DEF new
<1>1. PathInv'
  BY <1>a DEF KInv, PathInv
<1>2. IssuedInv'
  <2>1. \A x \in new : Issued(x[2])
    BY <1>a, <1>d DEF Issued
  <2> QED BY <1>a, <2>1 DEF KInv, IssuedInv, Issued
<1>3. OrderInv'
  <2> SUFFICES ASSUME NEW x \in generated', NEW y \in generated',
                      Before(x[1], y[1]), x[2].siteZone = y[2].siteZone
               PROVE  x[2].data <= y[2].data
    BY DEF OrderInv
  <2>1. CASE x \in generated /\ y \in generated
    BY <2>1 DEF KInv, OrderInv
  <2>2. CASE x \in new /\ y \in new
    BY <1>d, <2>2
  <2>3. CASE x \in generated /\ y \in new
    BY <1>d, <2>3 DEF KInv, IssuedInv, Issued
  <2>4. CASE x \in new /\ y \in generated
    <3>1. y[1][1] < x[1][1] /\ y[1][1] \in Nat /\ x[1][1] \in Nat
      BY <1>a, <1>b, <1>d, <2>4, GeneratedType, ThisZoneType DEF KInv, LoopInv
    <3> QED BY <3>1 DEF Before
  <2> QED BY <1>a, <2>1, <2>2, <2>3, <2>4
<1>4. LoopInv'
  <2> SUFFICES ASSUME NEW x \in generated', NEW s \in todo'
               PROVE  x[1][1] < s[1]
    BY <1>a DEF LoopInv
  <2>1. CASE x \in generated
    BY <1>a, <2>1 DEF KInv, LoopInv
  <2>2. CASE x \in new
    <3>1. s \in todo /\ s[1] # ThisZone
      BY <1>a DEF ThisZoneSlots
    <3>2. s[1] \in Nat /\ ThisZone \in Nat /\ Before(FirstOf(todo), s)
      BY <1>b, <3>1, ThisZoneType, SlotType DEF TypeOK
    <3> QED BY <1>d, <2>2, <3>1, <3>2 DEF Before, ThisZone
  <2> QED BY <1>a, <2>1, <2>2
<1>5. FreshInv'
  <2> SUFFICES ASSUME NEW x \in generated', vault[PathOf(x[2])] # None
               PROVE  vault[PathOf(x[2])].data <= x[2].data
    BY <1>a DEF FreshInv
  <2>1. CASE x \in generated
    BY <1>a, <2>1 DEF KInv, FreshInv
  <2>2. CASE x \in new
    <3> DEFINE t == vault[PathOf(x[2])]
    <3>1. PathOf(x[2]) \in Path /\ x[2] \in TokenRecord
      BY <1>d, <2>2
    <3>2. t \in TokenRecord /\ PathOf(t) = PathOf(x[2]) /\ Issued(t)
      BY <1>b, <3>1 DEF KInv, PathInv, IssuedInv, TypeOK
    <3>3. t.siteZone = x[2].siteZone
      BY <3>1, <3>2, PathTellsZone
    <3> QED BY <1>d, <2>2, <3>2, <3>3 DEF Issued
  <2> QED BY <1>a, <2>1, <2>2
<1> QED BY <1>1, <1>2, <1>3, <1>4, <1>5 DEF KInv

\* What is put is not older than what it replaces, nor than what is to replace it.
LEMMA PublishKeepsAges ==
    ASSUME TInv, KInv, NEW x \in toPublish, PublishToken(x)
    PROVE  /\ KInv'
           /\ \A p \in Path : vault[p] # None => vault[p].data <= vault'[p].data
<1> DEFINE q == PathOf(x[2])
<1>a. TypeOK /\ toPublish \subseteq generated
  BY DEF TInv, TypeOK
<1>b. x \in generated /\ x[2] \in TokenRecord /\ q \in Path /\ x[2].data \in Nat
  BY <1>a, GeneratedType
<1>c. /\ pc = "put" /\ pc' = "put" /\ toPublish' = toPublish \ {x}
      /\ vault' = [vault EXCEPT ![q] = x[2]]
      /\ UNCHANGED <<secrets, generated>>
  BY DEF PublishToken, world
<1>d. vault'[q] = x[2] /\ \A p \in Path \ {q} : vault'[p] = vault[p]
  BY <1>a, <1>b, <1>c DEF TypeOK
<1>1. PathInv'
  BY <1>d DEF KInv, PathInv
<1>2. IssuedInv'
  BY <1>b, <1>c, <1>d DEF KInv, IssuedInv, Issued
<1>3. OrderInv' /\ LoopInv'
  BY <1>c DEF KInv, OrderInv, LoopInv
<1>4. FreshInv'
  <2> SUFFICES ASSUME NEW y \in toPublish, y # x, vault'[PathOf(y[2])] # None
               PROVE  vault'[PathOf(y[2])].data <= y[2].data
    BY <1>c DEF FreshInv
  <2>1. y \in generated /\ y[2] \in TokenRecord /\ PathOf(y[2]) \in Path
    BY <1>a, GeneratedType
  <2>2. CASE PathOf(y[2]) = q
    <3>1. x[2].siteZone = y[2].siteZone
      BY <1>b, <2>1, <2>2, PathTellsZone
    <3> DEFINE slots == {w[1] : w \in toPublish}
    <3>2. slots \subseteq Nat \X Nat /\ slots # {} /\ y[1] \in slots
      BY <1>a, GeneratedType
    <3>3. x[1] = FirstOf(slots)
      BY DEF PublishToken, NextToPut
    <3> HIDE DEF slots
    <3>4. Before(x[1], y[1])
      BY <3>2, <3>3, FirstSlot
    <3> QED BY <1>b, <1>d, <2>1, <2>2, <3>1, <3>4 DEF KInv, OrderInv
  <2>3. CASE PathOf(y[2]) # q
    BY <1>d, <2>1, <2>3 DEF KInv, FreshInv
  <2> QED BY <2>2, <2>3
<1>5. ASSUME NEW p \in Path, vault[p] # None
      PROVE  vault[p].data <= vault'[p].data
  <2>1. vault[p].data \in Nat
    BY <1>a, <1>5, BoundAssumption DEF TypeOK, TokenRecord, Data
  <2>2. CASE p = q
    BY <1>b, <1>d, <1>5, <2>2 DEF KInv, FreshInv
  <2>3. CASE p # q
    BY <1>d, <2>1, <2>3
  <2> QED BY <2>2, <2>3
<1> QED BY <1>1, <1>2, <1>3, <1>4, <1>5 DEF KInv

\* A newer certificate makes the tokens of the old one no newer.
LEMMA IssueKeepsAges ==
    ASSUME TInv, KInv, NEW z \in Zone, Issue(z)
    PROVE  KInv'
<1>a. TypeOK
  BY DEF TInv
<1>b. UNCHANGED <<vault, pc, todo, generated, toPublish>>
  BY DEF Issue, local
<1>c. ASSUME NEW t \in TokenRecord, Issued(t)
      PROVE  Issued(t)'
  <2>1. t.siteZone \in Zone /\ t.data \in Nat
    BY BoundAssumption DEF TokenRecord, Data
  <2>2. secrets[t.siteZone] \in Nat /\ secrets[t.siteZone] # None
    BY <1>a, <1>c, <2>1, BoundAssumption DEF Issued, TypeOK, Data
  <2>3. CASE t.siteZone # z
    BY <1>a, <1>c, <2>1, <2>3, IssueAges DEF Issued
  <2>4. CASE t.siteZone = z
    <3>1. secrets'[z] \in Nat /\ secrets'[z] # None /\ secrets[z] < secrets'[z]
      BY <1>a, <2>2, <2>4, IssueAges, BoundAssumption, NoneAssumption DEF Data
    <3> QED BY <1>c, <2>1, <2>2, <2>4, <3>1 DEF Issued
  <2> QED BY <2>3, <2>4
<1>1. IssuedInv'
  <2>1. ASSUME NEW p \in Path, vault[p] # None
        PROVE  Issued(vault[p])'
    <3>1. vault[p] \in TokenRecord /\ Issued(vault[p])
      BY <1>a, <2>1 DEF TypeOK, KInv, IssuedInv
    <3>2. PICK t \in TokenRecord : t = vault[p] /\ Issued(t)
      BY <3>1
    <3> QED BY <1>b, <1>c, <3>2 DEF Issued
  <2>2. ASSUME NEW x \in generated
        PROVE  Issued(x[2])'
    BY <1>a, <1>c, GeneratedType DEF KInv, IssuedInv
  <2> QED BY <1>b, <2>1, <2>2 DEF IssuedInv
<1>2. PathInv' /\ OrderInv' /\ LoopInv' /\ FreshInv'
  BY <1>b DEF KInv, PathInv, OrderInv, LoopInv, FreshInv
<1> QED BY <1>1, <1>2 DEF KInv

LEMMA WithdrawKeepsAges ==
    ASSUME TInv, KInv, NEW q \in Path, Withdraw(q)
    PROVE  KInv'
<1>a. UNCHANGED <<secrets, pc, todo, generated, toPublish>>
  BY DEF Withdraw, world, local
<1>b. \A p \in Path : vault'[p] = vault[p] \/ vault'[p] = None
  BY DEF Withdraw, TInv, TypeOK
<1>c. \A x \in generated : PathOf(x[2]) \in Path
  BY GeneratedType DEF TInv
<1>1. PathInv' /\ IssuedInv'
  BY <1>a, <1>b DEF KInv, PathInv, IssuedInv, Issued
<1>2. OrderInv' /\ LoopInv'
  BY <1>a DEF KInv, OrderInv, LoopInv
<1>3. FreshInv'
  BY <1>a, <1>b, <1>c DEF KInv, FreshInv
<1> QED BY <1>1, <1>2, <1>3 DEF KInv

LEMMA NextKeepsAges ==
    ASSUME TInv, platform = "kube", KInv, [Next]_vars
    PROVE  KInv'
<1>1. CASE Begin
  BY <1>1, NothingInHand DEF Begin, TInv, IdleInv, world
<1>2. CASE GetSite
  BY <1>2, NothingInHand DEF GetSite, KInv, LoopInv, world
<1>3. CASE CreateCertificate
  <2>1. CASE Stop
    BY <1>3, <2>1, NothingInHand DEF CreateCertificate, Stop, Forget
  <2>2. CASE pc' = "secret" /\ UNCHANGED <<local, todo>>
    BY <1>3, <2>2, TokensAlone DEF CreateCertificate, local
  <2> QED BY <1>3, <2>1, <2>2 DEF CreateCertificate
<1>4. CASE GetSecret
  BY <1>4, GetSecretKeepsAges
<1>5. CASE GetSecretGivesUp \/ LoadTokenFails \/ PublishTokenFails \/ End \/ Crash
  BY <1>5, NothingInHand
  DEF GetSecretGivesUp, LoadTokenFails, PublishTokenFails, End, Crash, Stop, Forget, world
<1>6. CASE LoadTokenForHost
  BY <1>6 DEF LoadTokenForHost, KInv, LoopInv
<1>7. CASE Generated
  BY <1>7, TokensAlone DEF Generated, KInv, LoopInv, world, local
<1>8. CASE GetPublishedToken \/ Compare
  BY <1>8, TokensAlone DEF GetPublishedToken, Compare, world
<1>9. CASE \E x \in toPublish : PublishToken(x)
  BY <1>9, PublishKeepsAges
<1>10. CASE GetSiteFails
  BY <1>10, NothingInHand DEF GetSiteFails, Stop, Forget, KInv, LoopInv, world, local
<1>11. CASE \E z \in Zone : Issue(z)
  BY <1>11, IssueKeepsAges
<1>12. CASE \E p \in Path : Withdraw(p)
  BY <1>12, WithdrawKeepsAges
<1>13. CASE \/ \E g \in Group, e \in Ends \cup {None} : SetEndpoints(g, e)
            \/ \E h \in Host, d \in Data \cup {None} : SetFile(h, d)
            \/ \E c \in Configs : Reconfigure(c)
  BY <1>13, TokensAlone DEF SetEndpoints, SetFile, Reconfigure, local
<1>14. CASE UNCHANGED vars
  BY <1>14, TokensAlone DEF vars, world, local
<1> QED
  BY <1>1, <1>2, <1>3, <1>4, <1>5, <1>6, <1>7, <1>8, <1>9, <1>10, <1>11, <1>12, <1>13, <1>14
  DEF Next, Pass, Mishap, Others

\* A site never moves to another platform.
LEMMA SamePlatform == [Next]_vars => platform' = platform
BY DEF Next, Pass, Mishap, Others, Begin, GetSite, CreateCertificate, GetSecret,
       GetSecretGivesUp, LoadTokenForHost, LoadTokenFails, Generated, GetPublishedToken,
       Compare, PublishToken, End, GetSiteFails, PublishTokenFails, Crash, Issue,
       SetEndpoints, SetFile, Reconfigure, Withdraw, vars, world

\* Only PublishToken and Withdraw change Vault.
LEMMA VaultSteps ==
    ASSUME [Next]_vars, vault' # vault
    PROVE  (\E x \in toPublish : PublishToken(x)) \/ \E p \in Path : Withdraw(p)
BY DEF Next, Pass, Mishap, Others, Begin, GetSite, CreateCertificate, GetSecret,
       GetSecretGivesUp, LoadTokenForHost, LoadTokenFails, Generated, GetPublishedToken,
       Compare, End, GetSiteFails, PublishTokenFails, Crash, Issue,
       SetEndpoints, SetFile, Reconfigure, vars

AgeInv == TInv /\ (platform = "kube" => KInv)

\* On Kubernetes no pass replaces a certificate in Vault by an older one
\* (kube/token.go:97, vanform.go:103-124), whatever is issued while it runs, and
\* though a configuration may name a zone more than once.
THEOREM NoCertificateIsDowngraded == Spec => NoDowngrade
<1>1. Init => AgeInv
  BY InitTypes
  DEF Init, AgeInv, KInv, PathInv, IssuedInv, OrderInv, LoopInv, FreshInv
<1>2. AgeInv /\ [Next]_vars => AgeInv'
  BY StepTypes, NextKeepsAges, SamePlatform DEF AgeInv
<1>3. ASSUME AgeInv, [Next]_vars
      PROVE  [platform = "kube" =>
                \A p \in Path : vault[p] # None /\ vault'[p] # None
                    => vault[p].data <= vault'[p].data]_vault
  <2> SUFFICES ASSUME vault' # vault, platform = "kube",
                      NEW p \in Path, vault[p] # None, vault'[p] # None
               PROVE  vault[p].data <= vault'[p].data
    OBVIOUS
  <2>a. TInv /\ KInv
    BY <1>3 DEF AgeInv
  <2>1. ASSUME NEW x \in toPublish, PublishToken(x)
        PROVE  vault[p].data <= vault'[p].data
    BY <2>a, <2>1, PublishKeepsAges
  <2>2. ASSUME NEW q \in Path, Withdraw(q)
        PROVE  vault[p].data <= vault'[p].data
    <3>1. vault'[p] = vault[p]
      BY <2>a, <2>2 DEF Withdraw, TInv, TypeOK
    <3>2. vault[p].data \in Nat
      BY <2>a, BoundAssumption DEF TInv, TypeOK, TokenRecord, Data
    <3> QED BY <3>1, <3>2
  <2> QED BY <1>3, <2>1, <2>2, VaultSteps
<1> QED BY <1>1, <1>2, <1>3, PTL DEF Spec, NoDowngrade

------------------------------------------------------------------------------
(* A pass that comes to its end has published what it generated, provided no *)
(* two tokens share a path: the site has one endpoint group, and no zone is  *)
(* named, or made reachable from another, twice.                             *)

OneGroup == "kube" \in Platforms => \A g, h \in Group : g = h

DistinctPaths ==
    \A c \in Configs : \A s, t \in Slots(c) : SlotPath(c, s) = SlotPath(c, t) => s = t

\* Links are named after zone, site and group.
LinkNamed(t) ==
    IF platform = "kube"
    THEN \E g \in Group : t.link = KubeLinkName(t.siteZone, MySite, <<g>>)
    ELSE t.link = CertName(t.siteZone, MySite)

LinkInv ==
    /\ \A p \in Path : vault[p] # None => LinkNamed(vault[p])
    /\ \A i \in DOMAIN published : LinkNamed(published[i])
    /\ \A x \in generated : LinkNamed(x[2])

\* A slot has one token, once the loop has come past it.
SingleInv ==
    /\ \A x, y \in generated : x[1] = y[1] => x = y
    /\ pc \in {"certificate", "secret", "file"} => \A x \in generated : x[1] \notin todo
    /\ pc = "site" => generated = {}
    /\ pc \in {"site", "certificate", "secret", "file"} => published = << >>

\* A token read in Vault is there still, unless it was withdrawn.
ReadInv ==
    pc = "fetch" =>
        \A i \in DOMAIN published :
            PathOf(published[i]) \in touched \/ vault[PathOf(published[i])] = published[i]

\* A token that is not to be put any more is there.
PutInv ==
    pc = "put" =>
        \A x \in generated :
            x \in toPublish \/ PathOf(x[2]) \in touched \/ vault[PathOf(x[2])] = x[2]

\* Each platform has its own way to make tokens.
PlatformInv ==
    /\ pc \in {"certificate", "secret"} => platform = "kube"
    /\ pc = "file" => platform # "kube"

QInv == PlatformInv /\ PathInv /\ LinkInv /\ SingleInv /\ ReadInv /\ PutInv

\* Token.Equals ignores the Link's name; with one group that does not matter.
LEMMA EqualsIsSame ==
    ASSUME OneGroup, TypeOK, NEW t \in TokenRecord, NEW u \in TokenRecord,
           LinkNamed(t), LinkNamed(u), Equals(t, u)
    PROVE  t = u
<1>1. /\ t.site = u.site /\ t.siteZone = u.siteZone /\ t.targetZone = u.targetZone
      /\ t.ends = u.ends /\ t.secret = u.secret /\ t.data = u.data
  BY DEF Equals, SameLabels, SameSpec
<1>2. t.link = u.link
  <2>1. CASE platform = "kube"
    <3>1. PICK g \in Group : t.link = KubeLinkName(t.siteZone, MySite, <<g>>)
      BY <2>1 DEF LinkNamed
    <3>2. PICK h \in Group : u.link = KubeLinkName(u.siteZone, MySite, <<h>>)
      BY <2>1 DEF LinkNamed
    <3>3. g = h
      BY <2>1 DEF OneGroup, TypeOK
    <3> QED BY <1>1, <3>1, <3>2, <3>3
  <2>2. CASE platform # "kube"
    BY <1>1, <2>2 DEF LinkNamed
  <2> QED BY <2>1, <2>2
<1> QED BY <1>1, <1>2 DEF TokenRecord

\* Tokens of different slots have different paths.
LEMMA DifferentPaths ==
    ASSUME DistinctPaths, TypeOK, SingleInv, NEW x \in generated, NEW y \in generated, x # y
    PROVE  PathOf(x[2]) # PathOf(y[2])
<1>1. x[1] \in Slots(zones) /\ y[1] \in Slots(zones) /\ x[1] # y[1]
  BY GeneratedType DEF SingleInv
<1>2. PathOf(x[2]) = SlotPath(zones, x[1]) /\ PathOf(y[2]) = SlotPath(zones, y[1])
  BY DEF TypeOK
<1>3. zones \in Configs
  <2>1. Slots(<< >>) = {}
    BY DEF Slots
  <2> QED BY <1>1, <2>1 DEF TypeOK
<1> QED BY <1>1, <1>2, <1>3 DEF DistinctPaths

LEMMA BeginKeepsPublished ==
    ASSUME QInv, UNCHANGED <<platform, vault>>, generated' = {}, published' = << >>,
           PlatformInv'
    PROVE  QInv'
<1>1. PathInv' /\ LinkInv'
  BY DEF QInv, PathInv, LinkInv, LinkNamed
<1>2. SingleInv' /\ ReadInv' /\ PutInv'
  BY DEF SingleInv, ReadInv, PutInv
<1> QED BY <1>1, <1>2 DEF QInv

\* Steps that neither make, read nor put a token.
LEMMA PassAlone ==
    ASSUME QInv, UNCHANGED <<platform, vault, generated, published, toPublish, touched>>,
           \/ pc' = pc /\ todo' = todo
           \/ {pc, pc'} \subseteq {"certificate", "secret"} /\ todo' = todo
           \/ pc \in {"certificate", "file"} /\ pc' = "fetch"
    PROVE  QInv'
<1>1. PathInv' /\ LinkInv'
  BY DEF QInv, PathInv, LinkInv, LinkNamed
<1>2. SingleInv'
  BY DEF QInv, SingleInv
<1>3. ReadInv'
  BY DEF QInv, SingleInv, ReadInv
<1>4. PutInv'
  BY DEF QInv, PutInv
<1>5. PlatformInv'
  BY DEF QInv, PlatformInv
<1> QED BY <1>1, <1>2, <1>3, <1>4, <1>5 DEF QInv

\* New tokens, one for each of some slots that the loop leaves behind.
LEMMA GenerateKeepsPublished ==
    ASSUME QInv, NEW new, generated' = generated \cup new,
           (pc = "secret" /\ pc' = "certificate") \/ (pc = "file" /\ pc' = "file"),
           UNCHANGED <<platform, vault, published, toPublish, touched>>,
           todo' \subseteq todo,
           \A x \in new : x[1] \in todo \ todo' /\ LinkNamed(x[2]),
           \A x, y \in new : x[1] = y[1] => x = y
    PROVE  QInv'
<1>1. PathInv'
  BY DEF QInv, PathInv
<1>2. LinkInv'
  BY DEF QInv, LinkInv, LinkNamed
<1>3. SingleInv'
  BY DEF QInv, SingleInv
<1>4. ReadInv' /\ PutInv' /\ PlatformInv'
  BY DEF QInv, ReadInv, PutInv, PlatformInv
<1> QED BY <1>1, <1>2, <1>3, <1>4 DEF QInv

LEMMA GetSecretKeepsPublished ==
    ASSUME OneGroup, TInv, QInv, GetSecret
    PROVE  QInv'
<1> DEFINE d == secrets[zones[ThisZone].name]
           new == UNION {KubeTokens(s, d) : s \in ThisZoneSlots}
<1>a. TypeOK
  BY DEF TInv
<1>b. /\ pc = "secret" /\ pc' = "certificate"
      /\ generated' = generated \cup new /\ todo' = todo \ ThisZoneSlots
      /\ UNCHANGED <<platform, vault, published, toPublish, touched>>
  BY DEF GetSecret, world, env
<1>c. platform = "kube" /\ \A g, h \in Group : g = h
  BY <1>a, <1>b DEF OneGroup, TypeOK, QInv, PlatformInv
<1>1. ASSUME NEW x \in new
      PROVE  \E s \in ThisZoneSlots, g \in Ready(site) :
                x = <<s, KubeToken(MySite, zones[s[1]].name, zones[s[1]].reach[s[2]],
                                   <<g>>, site[g], d)>>
  BY DEF KubeTokens
<1> HIDE DEF d, new
<1>2. ASSUME NEW x \in new
      PROVE  x[1] \in todo \ todo' /\ LinkNamed(x[2])
  <2>1. PICK s \in ThisZoneSlots, g \in Ready(site) :
           x = <<s, KubeToken(MySite, zones[s[1]].name, zones[s[1]].reach[s[2]],
                              <<g>>, site[g], d)>>
    BY <1>1
  <2>2. s \in todo /\ s \notin todo' /\ g \in Group
    BY <1>b DEF ThisZoneSlots, Ready
  <2>3. /\ x[2].link = KubeLinkName(zones[s[1]].name, MySite, <<g>>)
        /\ x[2].siteZone = zones[s[1]].name
    BY <2>1 DEF KubeToken, Token
  <2> QED BY <1>c, <2>1, <2>2, <2>3 DEF LinkNamed
<1>3. ASSUME NEW x \in new, NEW y \in new, x[1] = y[1]
      PROVE  x = y
  <2>1. PICK s \in ThisZoneSlots, g \in Ready(site) :
           x = <<s, KubeToken(MySite, zones[s[1]].name, zones[s[1]].reach[s[2]],
                              <<g>>, site[g], d)>>
    BY <1>1
  <2>2. PICK u \in ThisZoneSlots, h \in Ready(site) :
           y = <<u, KubeToken(MySite, zones[u[1]].name, zones[u[1]].reach[u[2]],
                              <<h>>, site[h], d)>>
    BY <1>1
  <2>3. s = u /\ g = h
    BY <1>c, <1>3, <2>1, <2>2 DEF Ready
  <2> QED BY <2>1, <2>2, <2>3
<1> QED BY <1>b, <1>2, <1>3, GenerateKeepsPublished

LEMMA LoadTokenKeepsPublished ==
    ASSUME TInv, QInv, LoadTokenForHost
    PROVE  QInv'
<1> DEFINE s == FirstOf(todo)
           z == zones[s[1]]
           h == FirstFile(FilesFor(z.host))
           t == SystemToken(MySite, z.name, z.reach[s[2]], h, files[h])
           new == {<<s, t>>}
<1>1. /\ pc = "file" /\ pc' = "file"
      /\ generated' = generated \cup new /\ todo' = todo \ {s}
      /\ UNCHANGED <<platform, vault, published, toPublish, touched>>
  BY DEF LoadTokenForHost, world, env
<1>2. s \in todo
  BY ThisZoneType DEF TInv, LoadTokenForHost
<1>3. t.link = CertName(t.siteZone, MySite)
  BY DEF SystemToken, Token
<1>4. LinkNamed(t)
  BY <1>1, <1>3 DEF LinkNamed, QInv, PlatformInv
<1> HIDE DEF s, t
<1>5. \A x \in new : x[1] \in todo \ todo' /\ LinkNamed(x[2])
  BY <1>1, <1>2, <1>4
<1>6. \A x, y \in new : x[1] = y[1] => x = y
  OBVIOUS
<1>7. todo' \subseteq todo
  BY <1>1
<1> HIDE DEF new
<1> QED BY <1>1, <1>5, <1>6, <1>7, GenerateKeepsPublished

\* What is read is what Vault holds at the slot's path.
LEMMA ReadKeepsPublished ==
    ASSUME TInv, QInv, GetPublishedToken
    PROVE  QInv'
<1> DEFINE q == SlotPath(zones, FirstOf(todo))
<1>a. TypeOK
  BY DEF TInv
<1>b. published \in Seq(TokenRecord)
  BY <1>a DEF TypeOK
<1>c. q \in Path
  BY <1>a, ThisZoneType, SlotType DEF GetPublishedToken, TypeOK
<1>1. /\ pc = "fetch" /\ pc' = "fetch"
      /\ published' = published \/ (vault[q] # None /\ published' = Append(published, vault[q]))
      /\ UNCHANGED <<platform, vault, generated, toPublish, touched>>
  BY DEF GetPublishedToken, world, env
<1> HIDE DEF q
<1>2. \A i \in DOMAIN published' :
         \/ i \in DOMAIN published /\ published'[i] = published[i]
         \/ published'[i] = vault[q] /\ vault[q] # None
  <2>1. CASE published' = published
    BY <2>1
  <2>2. CASE vault[q] # None /\ published' = Append(published, vault[q])
    <3>1. vault[q] \in TokenRecord
      BY <1>a, <1>c, <2>2 DEF TypeOK
    <3> QED BY <1>b, <2>2, <3>1, AppendProperties
  <2> QED BY <1>1, <2>1, <2>2
<1>3. vault[q] # None => PathOf(vault[q]) = q /\ LinkNamed(vault[q])
  BY <1>c DEF QInv, PathInv, LinkInv
<1>4. PathInv'
  BY <1>1 DEF QInv, PathInv
<1>5. LinkInv'
  BY <1>1, <1>2, <1>3 DEF QInv, LinkInv, LinkNamed
<1>6. ReadInv'
  BY <1>1, <1>2, <1>3 DEF QInv, ReadInv
<1>7. SingleInv' /\ PutInv' /\ PlatformInv'
  BY <1>1 DEF QInv, SingleInv, PutInv, PlatformInv
<1> QED BY <1>4, <1>5, <1>6, <1>7 DEF QInv

\* A token is left out only if Vault holds it.
LEMMA CompareKeepsPublished ==
    ASSUME OneGroup, TInv, QInv, Compare
    PROVE  QInv'
<1>a. TypeOK
  BY DEF TInv
<1>1. /\ pc = "fetch" /\ pc' = "put"
      /\ toPublish' = {x \in generated : ~AlreadyPublished(x[2])}
      /\ UNCHANGED <<platform, vault, generated, published, touched>>
  BY DEF Compare, world, env
<1>2. ASSUME NEW x \in generated, AlreadyPublished(x[2])
      PROVE  PathOf(x[2]) \in touched \/ vault[PathOf(x[2])] = x[2]
  <2>1. PICK i \in DOMAIN published : Equals(published[i], x[2])
    BY <1>2 DEF AlreadyPublished, FirstFor
  <2>2. published[i] \in TokenRecord /\ x[2] \in TokenRecord
    BY <1>a, GeneratedType DEF TypeOK
  <2>3. LinkNamed(published[i]) /\ LinkNamed(x[2])
    BY DEF QInv, LinkInv
  <2>4. published[i] = x[2]
    BY <1>a, <2>1, <2>2, <2>3, EqualsIsSame
  <2> QED BY <1>1, <2>4 DEF QInv, ReadInv
<1>3. PutInv'
  BY <1>1, <1>2 DEF PutInv
<1>4. PathInv' /\ LinkInv'
  BY <1>1 DEF QInv, PathInv, LinkInv, LinkNamed
<1>5. SingleInv' /\ ReadInv' /\ PlatformInv'
  BY <1>1 DEF QInv, SingleInv, ReadInv, PlatformInv
<1> QED BY <1>3, <1>4, <1>5 DEF QInv

\* A token that is put replaces none of the others of the pass.
LEMMA PutKeepsPublished ==
    ASSUME DistinctPaths, TInv, QInv, NEW x \in toPublish, PublishToken(x)
    PROVE  QInv'
<1>a. TypeOK
  BY DEF TInv
<1>b. x \in generated /\ x[2] \in TokenRecord /\ PathOf(x[2]) \in Path
  BY <1>a, GeneratedType DEF TypeOK
<1>1. /\ pc = "put" /\ pc' = "put" /\ toPublish' = toPublish \ {x}
      /\ vault' = [vault EXCEPT ![PathOf(x[2])] = x[2]]
      /\ UNCHANGED <<platform, generated, published, touched>>
  BY DEF PublishToken, world, env
<1>2. /\ vault'[PathOf(x[2])] = x[2]
      /\ \A p \in Path \ {PathOf(x[2])} : vault'[p] = vault[p]
  BY <1>a, <1>b, <1>1 DEF TypeOK
<1>3. PathInv'
  BY <1>2 DEF QInv, PathInv
<1>4. LinkInv'
  BY <1>b, <1>1, <1>2 DEF QInv, LinkInv, LinkNamed
<1>5. PutInv'
  <2> SUFFICES ASSUME NEW y \in generated, y \notin toPublish', PathOf(y[2]) \notin touched
               PROVE  vault'[PathOf(y[2])] = y[2]
    BY <1>1 DEF PutInv
  <2>1. CASE y = x
    BY <1>2, <2>1
  <2>2. CASE y # x
    <3>1. PathOf(y[2]) # PathOf(x[2])
      BY <1>a, <1>b, <2>2, DifferentPaths DEF QInv
    <3>2. PathOf(y[2]) \in Path
      BY <1>a, GeneratedType
    <3>3. vault[PathOf(y[2])] = y[2]
      BY <1>1, <2>2 DEF QInv, PutInv
    <3> QED BY <1>2, <3>1, <3>2, <3>3
  <2> QED BY <2>1, <2>2
<1>6. SingleInv' /\ ReadInv' /\ PlatformInv'
  BY <1>1 DEF QInv, SingleInv, ReadInv, PlatformInv
<1> QED BY <1>3, <1>4, <1>5, <1>6 DEF QInv

\* The paths of tokens withdrawn during the pass are set apart.
LEMMA WithdrawKeepsPublished ==
    ASSUME TInv, QInv, NEW q \in Path, Withdraw(q)
    PROVE  QInv'
<1>a. TypeOK
  BY DEF TInv
<1>1. /\ UNCHANGED <<platform, pc, generated, published, toPublish, todo>>
      /\ vault' = [vault EXCEPT ![q] = None]
      /\ pc # "idle" => touched' = touched \cup {q}
  BY DEF Withdraw, world, local
<1>2. vault'[q] = None /\ \A p \in Path \ {q} : vault'[p] = vault[p]
  BY <1>a, <1>1 DEF TypeOK
<1>3. /\ \A i \in DOMAIN published : PathOf(published[i]) \in Path
      /\ \A x \in generated : PathOf(x[2]) \in Path
  <2>1. \A t \in TokenRecord : PathOf(t) \in Path
    BY DEF TokenRecord, PathOf, Path
  <2> QED BY <1>a, <2>1, GeneratedType DEF TypeOK
<1>4. PathInv' /\ LinkInv'
  BY <1>1, <1>2 DEF QInv, PathInv, LinkInv, LinkNamed
<1>5. ReadInv'
  BY <1>1, <1>2, <1>3 DEF QInv, ReadInv
<1>6. PutInv'
  BY <1>1, <1>2, <1>3 DEF QInv, PutInv
<1>7. SingleInv' /\ PlatformInv'
  BY <1>1 DEF QInv, SingleInv, PlatformInv
<1> QED BY <1>4, <1>5, <1>6, <1>7 DEF QInv

\* A pass that ends, whether well or not, forgets its tokens.
LEMMA StopKeepsPublished ==
    ASSUME QInv, Stop, UNCHANGED <<platform, vault>>
    PROVE  QInv'
<1>1. pc' = "idle" /\ generated' = {} /\ published' = << >>
  BY DEF Stop, Forget
<1> QED BY <1>1, BeginKeepsPublished DEF PlatformInv

LEMMA NextKeepsPublished ==
    ASSUME OneGroup, DistinctPaths, TInv, QInv, [Next]_vars
    PROVE  QInv'
<1>a. UNCHANGED platform
  BY SamePlatform
<1>1. CASE Begin
  <2>1. /\ pc' = "site" /\ generated' = {} /\ published' = << >>
        /\ UNCHANGED <<platform, vault>>
    BY <1>a, <1>1 DEF Begin, TInv, IdleInv
  <2> QED BY <2>1, BeginKeepsPublished DEF PlatformInv
<1>2. CASE GetSite
  <2>1. /\ generated' = {} /\ published' = << >> /\ UNCHANGED <<platform, vault>>
    BY <1>a, <1>2 DEF GetSite, QInv, SingleInv
  <2>2. PlatformInv'
    BY <1>a, <1>2 DEF GetSite, PlatformInv
  <2> QED BY <2>1, <2>2, BeginKeepsPublished
<1>3. CASE CreateCertificate
  <2>1. CASE Stop
    BY <1>a, <1>3, <2>1, StopKeepsPublished DEF CreateCertificate
  <2>2. CASE pc' = "secret" /\ UNCHANGED <<local, todo, touched, faults>>
    BY <1>a, <1>3, <2>2, PassAlone DEF CreateCertificate, local
  <2> QED BY <1>3, <2>1, <2>2 DEF CreateCertificate
<1>4. CASE GetSecret
  BY <1>4, GetSecretKeepsPublished
<1>5. CASE GetSecretGivesUp \/ LoadTokenFails \/ PublishTokenFails \/ End \/ Crash
  BY <1>a, <1>5, StopKeepsPublished
  DEF GetSecretGivesUp, LoadTokenFails, PublishTokenFails, End, Crash
<1>6. CASE LoadTokenForHost
  BY <1>6, LoadTokenKeepsPublished
<1>7. CASE Generated
  BY <1>a, <1>7, PassAlone DEF Generated, local, env
<1>8. CASE GetPublishedToken
  BY <1>8, ReadKeepsPublished
<1>9. CASE Compare
  BY <1>9, CompareKeepsPublished
<1>10. CASE \E x \in toPublish : PublishToken(x)
  BY <1>10, PutKeepsPublished
<1>11. CASE GetSiteFails
  <2>1. CASE Stop
    BY <1>a, <1>11, <2>1, StopKeepsPublished DEF GetSiteFails
  <2>2. CASE pc' = "fetch" /\ UNCHANGED local
    <3>1. generated' = {} /\ published' = << >> /\ UNCHANGED vault
      BY <1>11, <2>2 DEF GetSiteFails, local, QInv, SingleInv
    <3> QED BY <1>a, <2>2, <3>1, BeginKeepsPublished DEF PlatformInv
  <2> QED BY <1>11, <2>1, <2>2 DEF GetSiteFails
<1>12. CASE \E p \in Path : Withdraw(p)
  BY <1>12, WithdrawKeepsPublished
<1>13. CASE \/ \E z \in Zone : Issue(z)
            \/ \E g \in Group, e \in Ends \cup {None} : SetEndpoints(g, e)
            \/ \E h \in Host, d \in Data \cup {None} : SetFile(h, d)
            \/ \E c \in Configs : Reconfigure(c)
  BY <1>a, <1>13, PassAlone DEF Issue, SetEndpoints, SetFile, Reconfigure, local, env
<1>14. CASE UNCHANGED vars
  BY <1>14, PassAlone DEF vars, world, local, env
<1> QED
  BY <1>1, <1>2, <1>3, <1>4, <1>5, <1>6, <1>7, <1>8, <1>9, <1>10, <1>11, <1>12, <1>13, <1>14
  DEF Next, Pass, Mishap, Others

\* A pass that ends without an error has published every token it generated, unless
\* it was withdrawn meanwhile (vanform.go:84-124), though it cannot read some of those
\* in Vault and tokens that it leaves out are only Equals to what it has read.  Both
\* assumptions are needed: with two groups the tokens of a zone share one path, as
\* those of a zone named twice do, and the last one put stays.
THEOREM EndedPassHasPublished ==
    ASSUME OneGroup, DistinctPaths
    PROVE  Spec => []PassPublishes
<1>1. Init => TInv /\ QInv
  BY InitTypes
  DEF Init, QInv, PlatformInv, PathInv, LinkInv, SingleInv, ReadInv, PutInv
<1>2. (TInv /\ QInv) /\ [Next]_vars => (TInv /\ QInv)'
  BY StepTypes, NextKeepsPublished
<1>3. TInv /\ QInv => PassPublishes
  BY DEF QInv, PutInv, PassPublishes
<1> QED BY <1>1, <1>2, <1>3, PTL DEF Spec

=============================================================================
