------------------------------ MODULE VanProofs ------------------------------
(***************************************************************************)
(* Proofs about the sites of a VAN at work together, for any sites, zones, *)
(* placements and configurations and any bounds: the types, that every     *)
(* step is one that Mesh allows, and that links are cut for cause only.    *)
(***************************************************************************)
EXTENDS Van, TLAPS

------------------------------------------------------------------------------
(* The inductive invariant. *)

\* What TypeOK says, with what keeps it: a site has zones to look up only once it
\* has generated a token, and is never offered a token of its own.
TInv ==
    /\ TypeOK
    /\ \A s \in Site :
        /\ todo[s] # {} => token[s] # 0
        /\ offer[s][s] = 0

\* Every site in zone z is to be linked to q, or once was.
Known(q, z) == \A s \in Site : s # q /\ Place[s] = z => <<q, s>> \in ever

\* Nothing is on its way to a zone that the publisher never wanted.
EverInv ==
    /\ \A q \in Site, z \in Zone :
        z \in config[q] \cup zones[q] \cup todo[q] \cup puts[q] \/ vault[<<q, z>>] # 0
            => Known(q, z)
    /\ \A q, s \in Site : q # s /\ offer[s][q] # 0 => <<q, s>> \in ever

\* The token a site is publishing, or else the one it would publish.
Newest(q) == IF token[q] = 0 THEN cert[q] ELSE token[q]

\* No token of q that is about is newer.
AgeInv ==
    \A q \in Site :
        /\ token[q] <= cert[q]
        /\ \A z \in Zone : vault[<<q, z>>] <= Newest(q)
        /\ \A s \in Site : q # s =>
            offer[s][q] <= Newest(q) /\ last[<<q, s>>] <= Newest(q)

\* From a link to the offer it is compared with, and on to Vault, tokens get no
\* older: unless there is none, and in Vault that takes an operator.
OrderInv ==
    \A q, s \in Site : q # s =>
        /\ links[<<q, s>>] \in {0, last[<<q, s>>]}
        /\ offer[s][q] # 0 => last[<<q, s>>] <= offer[s][q]
        /\ vault[<<q, Place[s]>>] # 0 \/ <<q, Place[s]>> \notin withdrawn =>
            /\ last[<<q, s>>] <= vault[<<q, Place[s]>>]
            /\ offer[s][q] <= vault[<<q, Place[s]>>]

\* The pass of s is past the fetching of q's token.
Seen(s, q) == pc[s] = "apply" \/ (pc[s] = "fetch" /\ q \notin gets[s])

\* What deleteList has left differs from the offer; and with a List that worked, the
\* offer is no older than the link.
PlanInv ==
    \A q, s \in Site : q # s =>
        /\ q \in dels[s] => links[<<q, s>>] # offer[s][q]
        /\ Seen(s, q) /\ ~blind[s] /\ <<q, Place[s]>> \notin withdrawn =>
            last[<<q, s>>] <= offer[s][q]

IInv == TInv /\ EverInv /\ AgeInv /\ OrderInv /\ PlanInv

------------------------------------------------------------------------------
(* The types. *)

LEMMA InitTypes == Init => TInv
BY BoundAssumption DEF Init, TInv, TypeOK, Nothing, Age, WantedBy, local, Pair

LEMMA FaultBound ==
    ASSUME faults \in 0..MaxFaults, Fault
    PROVE  faults' \in 0..MaxFaults
BY BoundAssumption DEF Fault

\* A pass that ends, wherever it ends, leaves nothing of itself behind.
LEMMA StopPreservesTypes ==
    ASSUME TInv, NEW s \in Site, Stop(s), faults' \in 0..MaxFaults
    PROVE  TInv'
<1>1. Nothing \in [Site -> Age] /\ 0 \in Age
  BY BoundAssumption DEF Nothing, Age
<1> QED
  BY <1>1 DEF TInv, TypeOK, Stop, Forget, World, Nothing

LEMMA PublishingPreservesTypes ==
    ASSUME TInv, NEW s \in Site,
           Begin(s) \/ LoadConfig(s) \/ Login(s) \/ Publishing(s)
    PROVE  TInv'
<1> USE DEF TInv, World, local
<1>1. CASE Begin(s)
  BY <1>1 DEF Begin, Goes, TypeOK
<1>2. CASE LoadConfig(s)
  BY <1>2 DEF LoadConfig, Goes, TypeOK
<1>3. CASE Login(s)
  BY <1>3 DEF Login, Goes, TypeOK
<1>4. CASE CreateCertificate(s)
  BY <1>4 DEF CreateCertificate, Goes, TypeOK
<1>5. CASE GetSecret(s)
  BY <1>5 DEF GetSecret, Goes, TypeOK
<1>6. CASE GetSecretGivesUp(s)
  BY <1>6, StopPreservesTypes DEF GetSecretGivesUp, TypeOK
<1>7. ASSUME NEW z \in Zone, GetPublishedToken(s, z)
      PROVE  TInv'
  <2>1. faults' \in 0..MaxFaults
    BY <1>7, FaultBound DEF GetPublishedToken, TypeOK
  <2>2. puts' = puts \/ puts' = [puts EXCEPT ![s] = @ \cup {z}]
    BY <1>7 DEF GetPublishedToken
  <2>3. puts' \in [Site -> SUBSET Zone]
    <3>1. puts \in [Site -> SUBSET Zone] /\ puts[s] \cup {z} \in SUBSET Zone
      BY DEF TypeOK
    <3> QED BY <2>2, <3>1
  <2>4. \A r \in Site : puts'[r] # {} => token[r] # 0
    BY <1>7, <2>2 DEF GetPublishedToken, TypeOK
  <2> QED BY <1>7, <2>1, <2>3, <2>4 DEF GetPublishedToken, TypeOK
<1>8. ASSUME NEW z \in Zone, PublishToken(s, z)
      PROVE  TInv'
  BY <1>8 DEF PublishToken, TypeOK
<1> QED
  BY <1>1, <1>2, <1>3, <1>4, <1>5, <1>6, <1>7, <1>8 DEF Publishing

LEMMA ConsumingPreservesTypes ==
    ASSUME TInv, NEW s \in Site, Consuming(s)
    PROVE  TInv'
<1> USE DEF TInv, World
<1>1. CASE List(s)
  BY <1>1 DEF List, Goes, TypeOK
<1>2. ASSUME NEW q \in Site, GetToken(s, q)
      PROVE  TInv'
  <2>1. vault[<<q, Place[s]>>] \in Age
    BY PlaceAssumption DEF TypeOK
  <2>2. /\ offer' \in [Site -> [Site -> Age]]
        /\ \A r \in Site : r # s => offer'[r] = offer[r]
        /\ \A r \in Site : offer'[r][r] = 0
    BY <1>2, <2>1 DEF GetToken, TypeOK
  <2>3. adds[s] = {} /\ pc[s] = "fetch"
    BY <1>2 DEF GetToken, TypeOK
  <2> QED BY <1>2, <2>2, <2>3 DEF GetToken, TypeOK
<1>3. CASE Plan(s)
  BY <1>3 DEF Plan, Goes, Linked, TypeOK
<1>4. ASSUME NEW q \in Site, Delete(s, q)
      PROVE  TInv'
  <2>1. faults' \in 0..MaxFaults
    BY <1>4, FaultBound DEF Delete, TypeOK
  <2>2. links' \in [Pair -> Age]
    <3>1. links' = [links EXCEPT ![<<q, s>>] = 0] \/ links' = links
      BY <1>4 DEF Delete
    <3>2. 0 \in Age
      BY BoundAssumption DEF Age
    <3> QED BY <3>1, <3>2 DEF TypeOK
  <2> QED BY <1>4, <2>1, <2>2 DEF Delete, TypeOK
<1>5. ASSUME NEW q \in Site, Save(s, q)
      PROVE  TInv'
  <2>1. faults' \in 0..MaxFaults
    BY <1>5, FaultBound DEF Save, TypeOK
  <2>2. links' \in [Pair -> Age] /\ last' \in [Pair -> Age]
    <3>1. offer[s][q] \in Age
      BY DEF TypeOK
    <3>2. /\ links' = [links EXCEPT ![<<q, s>>] = offer[s][q]] \/ links' = links
          /\ last' = [last EXCEPT ![<<q, s>>] = offer[s][q]] \/ last' = last
      BY <1>5 DEF Save
    <3> QED BY <3>1, <3>2 DEF TypeOK
  <2> QED BY <1>5, <2>1, <2>2 DEF Save, TypeOK
<1>6. CASE End(s)
  BY <1>6, StopPreservesTypes DEF End, TypeOK
<1> QED
  BY <1>1, <1>2, <1>3, <1>4, <1>5, <1>6 DEF Consuming

LEMMA MishapPreservesTypes ==
    ASSUME TInv, NEW s \in Site, Mishap(s)
    PROVE  TInv'
<1>1. faults' \in 0..MaxFaults
  BY FaultBound
  DEF Mishap, LoadConfigFails, LoginFails, PublishTokenFails, ListFails, GetTokenFails,
      Crash, TInv, TypeOK
<1>2. CASE ListFails(s)
  BY <1>1, <1>2 DEF ListFails, Goes, World, TInv, TypeOK
<1> QED
  BY <1>1, <1>2, StopPreservesTypes
  DEF Mishap, LoadConfigFails, LoginFails, PublishTokenFails, GetTokenFails, Crash

LEMMA OthersPreserveTypes ==
    ASSUME TInv, Others
    PROVE  TInv'
<1> USE DEF TInv, local, history
<1>1. ASSUME NEW s \in Site, Issue(s)
      PROVE  TInv'
  BY <1>1, BoundAssumption DEF Issue, TypeOK, Age
<1>2. ASSUME NEW s \in Site, NEW c \in Configs[s], Reconfigure(s, c)
      PROVE  TInv'
  <2>1. c \in SUBSET Zone
    BY ConfigsAssumption
  <2>2. WantedBy(config') \subseteq Pair
    BY DEF WantedBy
  <2>3. changes' \in 0..MaxChanges
    BY <1>2, BoundAssumption DEF Reconfigure, Change, TypeOK
  <2> QED BY <1>2, <2>1, <2>2, <2>3 DEF Reconfigure, TypeOK
<1>3. ASSUME NEW t \in Site \X Zone, Withdraw(t)
      PROVE  TInv'
  BY <1>3, BoundAssumption DEF Withdraw, Change, Age, TypeOK
<1> QED
  BY <1>1, <1>2, <1>3 DEF Others

LEMMA StepPreservesTypes == TInv /\ [Next]_vars => TInv'
<1>1. ASSUME TInv, UNCHANGED vars
      PROVE  TInv'
  BY <1>1 DEF TInv, TypeOK, vars, local, history
<1> QED
  BY <1>1, PublishingPreservesTypes, ConsumingPreservesTypes, MishapPreservesTypes,
     OthersPreserveTypes
  DEF Next, Pass

------------------------------------------------------------------------------
(* What keeps Mesh's promise. *)

\* Which pairs a configuration wants, without the tuples.
LEMMA WantedPair ==
    ASSUME NEW c, NEW q \in Site, NEW s \in Site
    PROVE  <<q, s>> \in WantedBy(c) <=> s # q /\ Place[s] \in c[q]
BY DEF WantedBy, Pair

\* Ages are numbers, and every site is in a zone.
LEMMA Numbers ==
    ASSUME TypeOK
    PROVE  /\ \A s \in Site : /\ Place[s] \in Zone
                              /\ cert[s] \in Nat /\ token[s] \in Nat
           /\ \A q \in Site, z \in Zone : vault[<<q, z>>] \in Nat
           /\ \A q, s \in Site : /\ offer[s][q] \in Nat
                                 /\ q # s => /\ last[<<q, s>>] \in Nat
                                             /\ links[<<q, s>>] \in Nat
<1>1. Age \subseteq Nat
  BY BoundAssumption DEF Age
<1>2. ASSUME NEW q \in Site, NEW s \in Site, q # s
      PROVE  <<q, s>> \in Pair
  BY <1>2 DEF Pair
<1> QED BY <1>1, <1>2, PlaceAssumption DEF TypeOK

LEMMA InitSafe == Init => EverInv /\ AgeInv /\ OrderInv /\ PlanInv
<1> SUFFICES ASSUME Init PROVE EverInv /\ AgeInv /\ OrderInv /\ PlanInv
  OBVIOUS
<1>1. EverInv
  <2>1. ASSUME NEW q \in Site, NEW s \in Site, s # q, Place[s] \in config[q]
        PROVE  <<q, s>> \in ever
    BY <2>1, WantedPair DEF Init
  <2> QED BY <2>1 DEF Init, EverInv, Known, Nothing
<1>2. AgeInv
  <2>1. ASSUME NEW q \in Site
        PROVE  token[q] = 0 /\ cert[q] = 0 /\ Newest(q) = 0
    BY DEF Init, Newest
  <2>2. ASSUME NEW q \in Site, NEW z \in Zone
        PROVE  vault[<<q, z>>] = 0
    BY DEF Init
  <2>3. ASSUME NEW q \in Site, NEW s \in Site, q # s
        PROVE  offer[s][q] = 0 /\ last[<<q, s>>] = 0
    BY <2>3 DEF Init, Pair, Nothing
  <2> SUFFICES ASSUME NEW q \in Site
               PROVE  /\ token[q] <= cert[q]
                      /\ \A z \in Zone : vault[<<q, z>>] <= Newest(q)
                      /\ \A s \in Site : q # s =>
                          offer[s][q] <= Newest(q) /\ last[<<q, s>>] <= Newest(q)
    BY DEF AgeInv
  <2> QED BY <2>1, <2>2, <2>3
<1>3. OrderInv
  BY PlaceAssumption DEF Init, OrderInv, Pair, Nothing
<1>4. PlanInv
  BY DEF Init, PlanInv, Seen
<1> QED BY <1>1, <1>2, <1>3, <1>4

LEMMA StopPreserves ==
    ASSUME IInv, NEW s \in Site, Stop(s)
    PROVE  EverInv' /\ AgeInv' /\ OrderInv' /\ PlanInv'
<1>a. TypeOK /\ EverInv /\ AgeInv /\ OrderInv /\ PlanInv
  BY DEF IInv, TInv
<1>0. /\ \A q \in Site : offer'[s][q] = 0
      /\ \A r \in Site : r # s => offer'[r] = offer[r]
      /\ token'[s] = 0
      /\ \A r \in Site : r # s => token'[r] = token[r]
      /\ UNCHANGED <<config, cert, vault, ever, last, links, withdrawn>>
  BY <1>a DEF TypeOK, Nothing, Stop, Forget, World
<1>1. EverInv'
  <2>1. ASSUME NEW q \in Site
        PROVE  /\ zones'[q] \subseteq zones[q]
               /\ todo'[q] \subseteq todo[q]
               /\ puts'[q] \subseteq puts[q]
    BY <1>a DEF TypeOK, Stop, Forget
  <2> QED BY <1>a, <1>0, <2>1 DEF EverInv, Known
<1>2. AgeInv'
  <2>1. ASSUME NEW q \in Site
        PROVE  token'[q] <= cert'[q] /\ Newest(q) <= Newest(q)'
    <3>1. token[q] \in Nat /\ cert[q] \in Nat /\ token[q] <= cert[q]
      BY <1>a, Numbers DEF AgeInv
    <3>2. cert'[q] = cert[q] /\ token'[q] \in {0, token[q]}
      BY <1>0
    <3> QED BY <3>1, <3>2 DEF Newest
  <2>2. ASSUME NEW q \in Site, NEW z \in Zone
        PROVE  vault'[<<q, z>>] <= Newest(q)'
    BY <1>0, <2>1, <1>a, Numbers DEF AgeInv, Newest
  <2>3. ASSUME NEW q \in Site, NEW r \in Site, q # r
        PROVE  offer'[r][q] <= Newest(q)' /\ last'[<<q, r>>] <= Newest(q)'
    BY <1>0, <2>1, <2>3, <1>a, Numbers DEF AgeInv, Newest
  <2> QED BY <2>1, <2>2, <2>3 DEF AgeInv
<1>3. OrderInv'
  <2>1. ASSUME NEW q \in Site, NEW r \in Site, q # r
        PROVE  offer'[r][q] = 0 \/ offer'[r][q] = offer[r][q]
    BY <1>0
  <2> QED BY <1>0, <2>1, <1>a, Numbers DEF OrderInv
<1>4. PlanInv'
  BY <1>0, <1>a, Numbers DEF PlanInv, Seen, TypeOK, Stop, Forget
<1> QED BY <1>1, <1>2, <1>3, <1>4

\* A step that leaves tokens where they are, and may only renew what is published.
LEMMA TokensStay ==
    ASSUME IInv, UNCHANGED <<vault, offer, last, links, withdrawn>>,
           \A q \in Site : token'[q] <= cert'[q] /\ Newest(q) <= Newest(q)',
           \A q \in Site : cert'[q] \in Nat /\ token'[q] \in Nat
    PROVE  AgeInv' /\ OrderInv'
<1>a. TypeOK /\ AgeInv /\ OrderInv
  BY DEF IInv, TInv
<1>1. AgeInv'
  <2>1. ASSUME NEW q \in Site
        PROVE  Newest(q) \in Nat /\ Newest(q)' \in Nat
    BY <1>a, Numbers DEF Newest
  <2>2. ASSUME NEW q \in Site, NEW z \in Zone
        PROVE  vault'[<<q, z>>] <= Newest(q)'
    BY <1>a, <2>1, Numbers DEF AgeInv
  <2>3. ASSUME NEW q \in Site, NEW r \in Site, q # r
        PROVE  offer'[r][q] <= Newest(q)' /\ last'[<<q, r>>] <= Newest(q)'
    BY <1>a, <2>1, <2>3, Numbers DEF AgeInv
  <2> QED BY <2>2, <2>3 DEF AgeInv
<1>2. OrderInv'
  BY <1>a DEF OrderInv
<1> QED BY <1>1, <1>2

\* A step after which no pass is further on, or plans to delete more.
LEMMA PlansStay ==
    ASSUME IInv, UNCHANGED <<offer, last, links, withdrawn>>,
           \A s \in Site : dels'[s] \subseteq dels[s],
           \A s, q \in Site :
               q # s /\ Seen(s, q)' /\ ~blind'[s] => Seen(s, q) /\ ~blind[s]
    PROVE  PlanInv'
BY DEF IInv, PlanInv

\* A pass up to the token it publishes.
LEMMA GeneratingPreserves ==
    ASSUME IInv, NEW s \in Site,
           \/ Begin(s) \/ LoadConfig(s) \/ Login(s)
           \/ CreateCertificate(s) \/ GetSecret(s)
    PROVE  EverInv' /\ AgeInv' /\ OrderInv' /\ PlanInv'
<1>a. TypeOK /\ EverInv /\ AgeInv
  BY DEF IInv, TInv
<1>b. /\ UNCHANGED <<config, cert, vault, ever, links, last, withdrawn, puts, offer, dels, gets,
                     blind>>
      /\ \A r \in Site : pc'[r] # pc[r] => pc'[r] \in {"config", "login", "generate",
                                                   "secret", "get"}
  BY <1>a DEF Begin, LoadConfig, Login, CreateCertificate, GetSecret, Goes, World, local,
              TypeOK
<1>c. \A q \in Site : token'[q] = token[q] \/ (token'[q] = cert[q] /\ cert[q] # 0)
  BY <1>a DEF Begin, LoadConfig, Login, CreateCertificate, GetSecret, local, TypeOK
<1>d. \A q \in Site : /\ zones'[q] \subseteq zones[q] \cup config[q]
                     /\ todo'[q] \subseteq todo[q] \cup zones[q]
  BY <1>a DEF Begin, LoadConfig, Login, CreateCertificate, GetSecret, local, TypeOK
<1>1. EverInv'
  BY <1>a, <1>b, <1>d DEF EverInv, Known
<1>2. AgeInv' /\ OrderInv'
  <2>1. ASSUME NEW q \in Site
        PROVE  /\ token'[q] <= cert'[q] /\ Newest(q) <= Newest(q)'
               /\ cert'[q] \in Nat /\ token'[q] \in Nat
    <3>1. cert[q] \in Nat /\ token[q] \in Nat /\ token[q] <= cert[q]
      BY <1>a, Numbers DEF AgeInv
    <3> QED BY <1>b, <1>c, <3>1 DEF Newest
  <2> QED BY <1>b, <2>1, TokensStay
<1>3. PlanInv'
  BY <1>b, PlansStay DEF Seen
<1> QED BY <1>1, <1>2, <1>3

LEMMA GetPublishedTokenPreserves ==
    ASSUME IInv, NEW s \in Site, NEW z \in Zone, GetPublishedToken(s, z)
    PROVE  EverInv' /\ AgeInv' /\ OrderInv' /\ PlanInv'
<1>a. TypeOK /\ EverInv /\ AgeInv
  BY DEF IInv, TInv
<1>b. /\ UNCHANGED <<config, cert, token, vault, ever, links, last, withdrawn, zones, offer,
                     dels, gets, blind, pc>>
      /\ z \in todo[s]
      /\ todo'[s] \subseteq todo[s] /\ puts'[s] \subseteq puts[s] \cup {z}
      /\ \A r \in Site : r # s => todo'[r] = todo[r] /\ puts'[r] = puts[r]
  BY <1>a DEF GetPublishedToken, World, TypeOK
<1>1. EverInv'
  <2>1. ASSUME NEW q \in Site
        PROVE  todo'[q] \subseteq todo[q] /\ puts'[q] \subseteq puts[q] \cup todo[q]
    BY <1>b
  <2> QED BY <1>a, <1>b, <2>1 DEF EverInv, Known
<1>2. AgeInv' /\ OrderInv'
  <2>1. ASSUME NEW q \in Site
        PROVE  /\ token'[q] <= cert'[q] /\ Newest(q) <= Newest(q)'
               /\ cert'[q] \in Nat /\ token'[q] \in Nat
    BY <1>a, <1>b, Numbers DEF AgeInv, Newest
  <2> QED BY <1>b, <2>1, TokensStay
<1>3. PlanInv'
  BY <1>b, PlansStay DEF Seen
<1> QED BY <1>1, <1>2, <1>3

\* What is put is no older than anything of that site that is about.
LEMMA PublishTokenPreserves ==
    ASSUME IInv, NEW s \in Site, NEW z \in Zone, PublishToken(s, z)
    PROVE  EverInv' /\ AgeInv' /\ OrderInv' /\ PlanInv'
<1>a. TypeOK /\ EverInv /\ AgeInv /\ OrderInv
  BY DEF IInv, TInv
<1>b. /\ UNCHANGED <<config, cert, token, ever, links, last, withdrawn, zones, todo, offer,
                     dels, gets, blind, pc>>
      /\ z \in puts[s]
      /\ \A r \in Site : puts'[r] \subseteq puts[r]
      /\ vault'[<<s, z>>] = token[s]
      /\ \A t \in Site \X Zone : t # <<s, z>> => vault'[t] = vault[t]
  BY <1>a DEF PublishToken, World, TypeOK
<1>c. token[s] # 0 /\ Newest(s) = token[s]
  BY <1>a, <1>b DEF TypeOK, Newest
<1>d. ASSUME NEW q \in Site, NEW y \in Zone
      PROVE  \/ vault'[<<q, y>>] = vault[<<q, y>>]
             \/ q = s /\ y = z /\ vault'[<<q, y>>] = Newest(q)
  BY <1>b, <1>c
<1>1. EverInv'
  <2>1. ASSUME NEW q \in Site, NEW y \in Zone,
               \/ y \in config'[q] \cup zones'[q] \cup todo'[q] \cup puts'[q]
               \/ vault'[<<q, y>>] # 0
        PROVE  Known(q, y)
    BY <1>a, <1>b, <1>d, <2>1 DEF EverInv
  <2> QED BY <1>a, <1>b, <2>1 DEF EverInv, Known
<1>2. AgeInv'
  <2>1. ASSUME NEW q \in Site
        PROVE  Newest(q)' = Newest(q) /\ Newest(q) \in Nat
    BY <1>a, <1>b, Numbers DEF Newest
  <2>2. ASSUME NEW q \in Site, NEW y \in Zone
        PROVE  vault'[<<q, y>>] <= Newest(q)'
    BY <1>a, <1>d, <2>1 DEF AgeInv
  <2> QED BY <1>a, <1>b, <2>1, <2>2 DEF AgeInv
<1>3. OrderInv'
  <2>1. ASSUME NEW q \in Site, NEW r \in Site, q # r,
               vault'[<<q, Place[r]>>] # 0 \/ <<q, Place[r]>> \notin withdrawn'
        PROVE  /\ last[<<q, r>>] <= vault'[<<q, Place[r]>>]
               /\ offer[r][q] <= vault'[<<q, Place[r]>>]
    <3>1. Place[r] \in Zone
      BY PlaceAssumption
    <3>2. last[<<q, r>>] <= Newest(q) /\ offer[r][q] <= Newest(q)
      BY <1>a, <2>1 DEF AgeInv
    <3>3. CASE vault'[<<q, Place[r]>>] = Newest(q)
      BY <3>2, <3>3
    <3>4. CASE vault'[<<q, Place[r]>>] = vault[<<q, Place[r]>>]
      BY <1>a, <1>b, <2>1, <3>4 DEF OrderInv
    <3> QED BY <1>d, <3>1, <3>3, <3>4
  <2> QED BY <1>a, <1>b, <2>1 DEF OrderInv
<1>4. PlanInv'
  BY <1>b, PlansStay DEF Seen
<1> QED BY <1>1, <1>2, <1>3, <1>4

\* A List that works finds a token for every link, but for those withdrawn.
LEMMA ListPreserves ==
    ASSUME IInv, NEW s \in Site, List(s) \/ ListFails(s)
    PROVE  EverInv' /\ AgeInv' /\ OrderInv' /\ PlanInv'
<1>a. TypeOK /\ EverInv /\ AgeInv /\ OrderInv /\ PlanInv
  BY DEF IInv, TInv
<1>b. /\ UNCHANGED <<config, cert, token, vault, ever, links, last, withdrawn, zones, todo, puts,
                     offer, dels>>
      /\ \A r \in Site : r # s => gets'[r] = gets[r] /\ pc'[r] = pc[r] /\ blind'[r] = blind[r]
      /\ blind'[s] \/ gets'[s] = {q \in Site : vault[<<q, Place[s]>>] # 0}
  BY <1>a DEF List, ListFails, Goes, World, TypeOK
<1>c. pc'[s] = "fetch" /\ dels[s] = {}
  BY <1>a DEF List, ListFails, Goes, TypeOK
<1>1. EverInv'
  BY <1>a, <1>b DEF EverInv, Known
<1>2. AgeInv' /\ OrderInv'
  <2>1. ASSUME NEW q \in Site
        PROVE  /\ token'[q] <= cert'[q] /\ Newest(q) <= Newest(q)'
               /\ cert'[q] \in Nat /\ token'[q] \in Nat
    BY <1>a, <1>b, Numbers DEF AgeInv, Newest
  <2> QED BY <1>b, <2>1, TokensStay
<1>3. PlanInv'
  <2>1. ASSUME NEW q \in Site, q # s, q \notin gets'[s], ~blind'[s],
               <<q, Place[s]>> \notin withdrawn
        PROVE  last[<<q, s>>] <= offer[s][q]
    <3>1. vault[<<q, Place[s]>>] = 0
      BY <1>b, <2>1
    <3>2. last[<<q, s>>] <= 0
      BY <1>a, <2>1, <3>1 DEF OrderInv
    <3> QED BY <1>a, <2>1, <3>2, Numbers
  <2>2. ASSUME NEW q \in Site, NEW r \in Site, r # s
        PROVE  Seen(r, q)' = Seen(r, q)
    BY <1>b, <2>2 DEF Seen
  <2> QED BY <1>a, <1>b, <1>c, <2>1, <2>2 DEF PlanInv, Seen
<1> QED BY <1>1, <1>2, <1>3

LEMMA GetTokenPreserves ==
    ASSUME IInv, NEW s \in Site, NEW q \in Site, GetToken(s, q)
    PROVE  EverInv' /\ AgeInv' /\ OrderInv' /\ PlanInv'
<1>a. TypeOK /\ EverInv /\ AgeInv /\ OrderInv /\ PlanInv
  BY DEF IInv, TInv
<1>b. /\ UNCHANGED <<config, cert, token, vault, ever, links, last, withdrawn, zones, todo, puts,
                     dels, blind, pc>>
      /\ \A r \in Site : gets'[r] = IF r = s THEN gets[r] \ {q} ELSE gets[r]
      /\ dels[s] = {}
  BY <1>a DEF GetToken, World, TypeOK
<1>c. ASSUME NEW r \in Site, NEW p \in Site, p # r
      PROVE  \/ offer'[r][p] = offer[r][p]
             \/ r = s /\ p = q /\ offer'[r][p] = vault[<<p, Place[r]>>]
  BY <1>a, <1>c DEF GetToken, TypeOK
<1>d. q # s => offer'[s][q] = vault[<<q, Place[s]>>]
  BY <1>a DEF GetToken, TypeOK
<1>1. EverInv'
  <2>1. ASSUME NEW r \in Site, NEW p \in Site, p # r, offer'[r][p] # 0
        PROVE  <<p, r>> \in ever
    BY <1>a, <1>c, <2>1, Numbers DEF EverInv, Known
  <2> QED BY <1>a, <1>b, <2>1 DEF EverInv, Known
<1>2. AgeInv'
  <2>1. ASSUME NEW p \in Site
        PROVE  Newest(p)' = Newest(p)
    BY <1>b DEF Newest
  <2>2. ASSUME NEW r \in Site, NEW p \in Site, p # r
        PROVE  offer'[r][p] <= Newest(p)
    BY <1>a, <1>c, <2>2, Numbers DEF AgeInv
  <2> QED BY <1>a, <1>b, <2>1, <2>2 DEF AgeInv
<1>3. OrderInv'
  BY <1>a, <1>b, <1>c, Numbers DEF OrderInv
<1>4. PlanInv'
  <2>1. ASSUME NEW r \in Site, NEW p \in Site, p # r, Seen(r, p)', ~blind'[r],
               <<p, Place[r]>> \notin withdrawn
        PROVE  last[<<p, r>>] <= offer'[r][p]
    <3>1. CASE r = s /\ p = q
      BY <1>a, <1>d, <2>1, <3>1 DEF OrderInv
    <3>2. CASE ~(r = s /\ p = q)
      BY <1>a, <1>b, <1>c, <2>1, <3>2 DEF PlanInv, Seen
    <3> QED BY <3>1, <3>2
  <2>2. ASSUME NEW r \in Site, NEW p \in Site, p # r, p \in dels'[r]
        PROVE  links'[<<p, r>>] # offer'[r][p]
    BY <1>a, <1>b, <1>c, <2>2 DEF PlanInv
  <2> QED BY <1>b, <2>1, <2>2 DEF PlanInv
<1> QED BY <1>1, <1>2, <1>3, <1>4

LEMMA PlanPreserves ==
    ASSUME IInv, NEW s \in Site, Plan(s)
    PROVE  EverInv' /\ AgeInv' /\ OrderInv' /\ PlanInv'
<1>a. TypeOK /\ EverInv /\ AgeInv /\ OrderInv /\ PlanInv
  BY DEF IInv, TInv
<1>b. /\ UNCHANGED <<config, cert, token, vault, ever, links, last, withdrawn, zones, todo, puts,
                     offer, blind, gets>>
      /\ gets[s] = {} /\ pc[s] = "fetch"
      /\ \A r \in Site : r # s => pc'[r] = pc[r] /\ dels'[r] = dels[r]
      /\ dels'[s] = {q \in Linked(s) : links[<<q, s>>] # offer[s][q]}
  BY <1>a DEF Plan, Goes, World, TypeOK
<1>1. EverInv'
  BY <1>a, <1>b DEF EverInv, Known
<1>2. AgeInv' /\ OrderInv'
  <2>1. ASSUME NEW q \in Site
        PROVE  /\ token'[q] <= cert'[q] /\ Newest(q) <= Newest(q)'
               /\ cert'[q] \in Nat /\ token'[q] \in Nat
    BY <1>a, <1>b, Numbers DEF AgeInv, Newest
  <2> QED BY <1>b, <2>1, TokensStay
<1>3. PlanInv'
  BY <1>a, <1>b DEF PlanInv, Seen, Linked
<1> QED BY <1>1, <1>2, <1>3

\* The deletions still to come are of other links.
LEMMA DeletePreserves ==
    ASSUME IInv, NEW s \in Site, NEW q \in Site, Delete(s, q)
    PROVE  EverInv' /\ AgeInv' /\ OrderInv' /\ PlanInv'
<1>a. TypeOK /\ EverInv /\ AgeInv /\ OrderInv /\ PlanInv
  BY DEF IInv, TInv
<1>b. /\ UNCHANGED <<config, cert, token, vault, ever, last, withdrawn, zones, todo, puts,
                     offer, blind, gets, pc>>
      /\ \A r \in Site : dels'[r] = IF r = s THEN dels[r] \ {q} ELSE dels[r]
  BY <1>a DEF Delete, World, TypeOK
<1>c. ASSUME NEW p \in Site, NEW r \in Site, p # r
      PROVE  \/ links'[<<p, r>>] = links[<<p, r>>]
             \/ p = q /\ r = s /\ links'[<<p, r>>] = 0
  <2>1. <<p, r>> \in Pair
    BY <1>c DEF Pair
  <2>2. links' = [links EXCEPT ![<<q, s>>] = 0] \/ links' = links
    BY DEF Delete
  <2>3. links \in [Pair -> Age]
    BY <1>a DEF TypeOK
  <2> QED BY <2>1, <2>2, <2>3
<1>1. EverInv'
  BY <1>a, <1>b DEF EverInv, Known
<1>2. AgeInv'
  BY <1>a, <1>b DEF AgeInv, Newest
<1>3. OrderInv'
  BY <1>a, <1>b, <1>c DEF OrderInv
<1>4. PlanInv'
  <2>1. ASSUME NEW p \in Site, NEW r \in Site, p # r, p \in dels'[r]
        PROVE  links'[<<p, r>>] # offer'[r][p]
    <3>1. p \in dels[r] /\ ~(p = q /\ r = s)
      BY <1>b, <2>1
    <3> QED BY <1>a, <1>b, <1>c, <2>1, <3>1 DEF PlanInv
  <2> QED BY <1>a, <1>b, <2>1 DEF PlanInv, Seen
<1> QED BY <1>1, <1>2, <1>3, <1>4

\* A link made is as new as the offer, and the latest of its pair.
LEMMA SavePreserves ==
    ASSUME IInv, NEW s \in Site, NEW q \in Site, Save(s, q)
    PROVE  EverInv' /\ AgeInv' /\ OrderInv' /\ PlanInv'
<1>a. TypeOK /\ EverInv /\ AgeInv /\ OrderInv /\ PlanInv
  BY DEF IInv, TInv
<1>b. /\ UNCHANGED <<config, cert, token, vault, ever, withdrawn, zones, todo, puts,
                     offer, blind, gets, pc, dels>>
      /\ dels[s] = {} /\ offer[s][q] # 0
  BY <1>a DEF Save, World, TypeOK
<1>c. ASSUME NEW p \in Site, NEW r \in Site, p # r
      PROVE  \/ links'[<<p, r>>] = links[<<p, r>>] /\ last'[<<p, r>>] = last[<<p, r>>]
             \/ /\ p = q /\ r = s
                /\ links'[<<p, r>>] = offer[r][p] /\ last'[<<p, r>>] = offer[r][p]
  <2>1. <<p, r>> \in Pair
    BY <1>c DEF Pair
  <2>2. \/ /\ links' = [links EXCEPT ![<<q, s>>] = offer[s][q]]
           /\ last' = [last EXCEPT ![<<q, s>>] = offer[s][q]]
        \/ links' = links /\ last' = last
    BY DEF Save
  <2>3. links \in [Pair -> Age] /\ last \in [Pair -> Age]
    BY <1>a DEF TypeOK
  <2> QED BY <2>1, <2>2, <2>3
<1>1. EverInv'
  BY <1>a, <1>b DEF EverInv, Known
<1>2. AgeInv'
  <2>1. ASSUME NEW p \in Site
        PROVE  Newest(p)' = Newest(p)
    BY <1>b DEF Newest
  <2>2. ASSUME NEW p \in Site, NEW r \in Site, p # r
        PROVE  last'[<<p, r>>] <= Newest(p)
    BY <1>a, <1>c, <2>2 DEF AgeInv
  <2> QED BY <1>a, <1>b, <2>1, <2>2 DEF AgeInv
<1>3. OrderInv'
  BY <1>a, <1>b, <1>c, Numbers DEF OrderInv
<1>4. PlanInv'
  BY <1>a, <1>b, <1>c, Numbers DEF PlanInv, Seen
<1> QED BY <1>1, <1>2, <1>3, <1>4

LEMMA OthersPreserve ==
    ASSUME IInv, Others
    PROVE  EverInv' /\ AgeInv' /\ OrderInv' /\ PlanInv'
<1>a. TypeOK /\ EverInv /\ AgeInv /\ OrderInv /\ PlanInv
  BY DEF IInv, TInv
<1>1. ASSUME NEW s \in Site, Issue(s)
      PROVE  EverInv' /\ AgeInv' /\ OrderInv' /\ PlanInv'
  <2>1. /\ UNCHANGED <<config, vault, links, pc, local, history>>
        /\ \A q \in Site : cert'[q] \in Nat /\ cert'[q] >= cert[q]
    BY <1>1, <1>a, Numbers DEF Issue, TypeOK
  <2>2. EverInv'
    BY <1>a, <2>1 DEF EverInv, Known, local, history
  <2>3. ASSUME NEW q \in Site
        PROVE  /\ token'[q] <= cert'[q] /\ Newest(q) <= Newest(q)'
               /\ cert'[q] \in Nat /\ token'[q] \in Nat
    BY <1>a, <2>1, Numbers DEF AgeInv, Newest, local
  <2>4. AgeInv' /\ OrderInv'
    BY <2>1, <2>3, TokensStay DEF local, history
  <2>5. PlanInv'
    BY <2>1, PlansStay DEF Seen, local, history
  <2> QED BY <2>2, <2>4, <2>5
<1>2. ASSUME NEW s \in Site, NEW c \in Configs[s], Reconfigure(s, c)
      PROVE  EverInv' /\ AgeInv' /\ OrderInv' /\ PlanInv'
  <2>1. /\ UNCHANGED <<cert, vault, links, last, withdrawn, pc, local>>
        /\ ever' = ever \cup WantedBy(config')
    BY <1>2 DEF Reconfigure
  <2>2. EverInv'
    BY <1>a, <2>1, WantedPair DEF EverInv, Known, local
  <2>3. ASSUME NEW q \in Site
        PROVE  /\ token'[q] <= cert'[q] /\ Newest(q) <= Newest(q)'
               /\ cert'[q] \in Nat /\ token'[q] \in Nat
    BY <1>a, <2>1, Numbers DEF AgeInv, Newest, local
  <2>4. AgeInv' /\ OrderInv'
    BY <2>1, <2>3, TokensStay DEF local
  <2>5. PlanInv'
    BY <2>1, PlansStay DEF Seen, local
  <2> QED BY <2>2, <2>4, <2>5
<1>3. ASSUME NEW t \in Site \X Zone, Withdraw(t)
      PROVE  EverInv' /\ AgeInv' /\ OrderInv' /\ PlanInv'
  <2>1. /\ UNCHANGED <<config, cert, links, pc, local, ever, last>>
        /\ withdrawn' = withdrawn \cup {t}
        /\ \A u \in Site \X Zone : vault'[u] = IF u = t THEN 0 ELSE vault[u]
    BY <1>3, <1>a DEF Withdraw, TypeOK
  <2>2. EverInv'
    BY <1>a, <2>1 DEF EverInv, Known, local
  <2>3. AgeInv'
    <3>1. ASSUME NEW q \in Site
          PROVE  Newest(q)' = Newest(q) /\ Newest(q) \in Nat
      BY <1>a, <2>1, Numbers DEF Newest, local
    <3>2. ASSUME NEW q \in Site, NEW z \in Zone
          PROVE  vault'[<<q, z>>] <= Newest(q)'
      BY <1>a, <2>1, <3>1 DEF AgeInv
    <3> QED BY <1>a, <2>1, <3>1, <3>2 DEF AgeInv, local
  <2>4. OrderInv'
    BY <1>a, <2>1, PlaceAssumption DEF OrderInv, local
  <2>5. PlanInv'
    BY <1>a, <2>1 DEF PlanInv, Seen, local
  <2> QED BY <2>2, <2>3, <2>4, <2>5
<1> QED BY <1>1, <1>2, <1>3 DEF Others

LEMMA StepPreserves == IInv /\ [Next]_vars => IInv'
<1> SUFFICES ASSUME IInv, [Next]_vars PROVE IInv'
  OBVIOUS
<1>1. TInv'
  BY StepPreservesTypes DEF IInv
<1>2. ASSUME NEW s \in Site, Pass(s) \/ Mishap(s)
      PROVE  EverInv' /\ AgeInv' /\ OrderInv' /\ PlanInv'
  <2>1. CASE Stop(s)
    BY <2>1, StopPreserves
  <2>2. CASE Publishing(s)
    BY <2>1, <2>2, GeneratingPreserves, GetPublishedTokenPreserves, PublishTokenPreserves
    DEF Publishing, GetSecretGivesUp
  <2>3. CASE Consuming(s)
    BY <2>1, <2>3, ListPreserves, GetTokenPreserves, PlanPreserves, DeletePreserves,
       SavePreserves
    DEF Consuming, End
  <2>4. CASE Mishap(s)
    BY <2>1, <2>4, ListPreserves
    DEF Mishap, LoadConfigFails, LoginFails, PublishTokenFails, GetTokenFails, Crash
  <2> QED BY <1>2, <2>2, <2>3, <2>4, GeneratingPreserves DEF Pass
<1>3. CASE UNCHANGED vars
  <2>1. EverInv'
    BY <1>3 DEF IInv, EverInv, Known, vars, local, history
  <2>2. AgeInv'
    BY <1>3 DEF IInv, AgeInv, Newest, vars, local, history
  <2>3. OrderInv'
    BY <1>3 DEF IInv, OrderInv, vars, local, history
  <2>4. PlanInv'
    BY <1>3 DEF IInv, PlanInv, Seen, vars, local, history
  <2> QED BY <1>1, <2>1, <2>2, <2>3, <2>4 DEF IInv
<1> QED BY <1>1, <1>2, <1>3, OthersPreserve DEF Next, IInv

LEMMA Invariance == Spec => []IInv
<1>1. Init => IInv
  BY InitTypes, InitSafe DEF IInv
<1> QED BY <1>1, StepPreserves, PTL DEF Spec

------------------------------------------------------------------------------
(* The theorems. *)

\* The variables of all sites keep their types: whatever interleaves, a site puts
\* only a token it has generated in the same pass, and creates only a link it was
\* offered, of another site (vanform.go:60-200).
THEOREM TypeCorrect == Spec => []TypeOK
<1>1. IInv => TypeOK
  BY DEF IInv, TInv
<1> QED BY <1>1, Invariance, PTL

\* A step of a site is one that Mesh allows, or none that Mesh can see.
LEMMA StepMaps == IInv /\ [Next]_vars => [M!Next]_(M!vars)
<1> SUFFICES ASSUME IInv, [Next]_vars PROVE [M!Next]_(M!vars)
  OBVIOUS
<1>a. TypeOK /\ EverInv /\ AgeInv /\ OrderInv
  BY DEF IInv, TInv
<1>b. M!Pair = Pair
  BY DEF M!Pair, Pair
<1>1. CASE UNCHANGED <<cert, config, ever, links, last>>
  BY <1>1 DEF M!vars, WantedBy
<1>2. ASSUME NEW s \in Site, NEW q \in Site, Delete(s, q)
      PROVE  [M!Next]_(M!vars)
  <2>1. q \in Site /\ UNCHANGED <<cert, config, ever, last>>
    BY <1>2 DEF Delete, World
  <2>2. CASE links' = [links EXCEPT ![<<q, s>>] = 0]
    <3>1. CASE q # s
      <4>1. <<q, s>> \in Pair
        BY <3>1 DEF Pair
      <4>2. M!Disconnect(<<q, s>>)
        BY <2>1, <2>2 DEF M!Disconnect, WantedBy
      <4> QED BY <1>b, <4>1, <4>2 DEF M!Next
    <3>2. CASE q = s
      <4>1. <<q, s>> \notin Pair
        BY <3>2 DEF Pair
      <4>2. links' = links
        BY <1>a, <2>2, <4>1 DEF TypeOK
      <4> QED BY <1>1, <2>1, <4>2
    <3> QED BY <3>1, <3>2
  <2> QED BY <1>1, <1>2, <2>1, <2>2 DEF Delete
<1>3. ASSUME NEW s \in Site, NEW q \in Site, Save(s, q)
      PROVE  [M!Next]_(M!vars)
  <2> DEFINE p == <<q, s>>
  <2>1. q # s /\ offer[s][q] # 0 /\ UNCHANGED <<cert, config, ever>>
    BY <1>a, <1>3 DEF Save, TypeOK, World
  <2>2. p \in Pair /\ p \in ever /\ p[1] = q
    BY <1>a, <2>1 DEF Pair, EverInv
  <2>3. CASE /\ links[p] = 0
             /\ links' = [links EXCEPT ![p] = offer[s][q]]
             /\ last' = [last EXCEPT ![p] = offer[s][q]]
    <3>1. offer[s][q] \in 1..cert[q]
      <4>1. cert[q] \in Nat /\ token[q] <= cert[q] /\ token[q] \in Nat
        BY <1>a, Numbers DEF AgeInv
      <4>2. offer[s][q] \in Nat \ {0} /\ offer[s][q] <= Newest(q)
        BY <1>a, <2>1, Numbers DEF AgeInv
      <4> QED BY <4>1, <4>2 DEF Newest
    <3>2. last[p] <= offer[s][q]
      BY <1>a, <2>1 DEF OrderInv
    <3>3. M!Connect(p)
      BY <2>1, <2>2, <2>3, <3>1, <3>2 DEF M!Connect, WantedBy
    <3> QED BY <1>b, <2>2, <3>3 DEF M!Next
  <2>4. CASE UNCHANGED <<links, last>>
    BY <1>1, <2>1, <2>4
  <2> QED BY <1>3, <2>3, <2>4 DEF Save
<1>4. ASSUME NEW s \in Site, Issue(s)
      PROVE  [M!Next]_(M!vars)
  BY <1>4 DEF Issue, history, M!Next, M!Renew, WantedBy
<1>5. ASSUME NEW s \in Site, NEW c \in Configs[s], Reconfigure(s, c)
      PROVE  [M!Next]_(M!vars)
  <2>1. WantedBy(config)' \in SUBSET M!Pair
    BY <1>b DEF WantedBy
  <2>2. M!Rearrange
    BY <1>5, <2>1 DEF Reconfigure, M!Rearrange, WantedBy
  <2> QED BY <2>2 DEF M!Next
<1>6. ASSUME NEW t \in Site \X Zone, Withdraw(t)
      PROVE  [M!Next]_(M!vars)
  BY <1>1, <1>6 DEF Withdraw
<1>7. ASSUME NEW s \in Site, Pass(s) \/ Mishap(s)
      PROVE  \/ UNCHANGED <<cert, config, ever, links, last>>
             \/ \E q \in Site : Delete(s, q) \/ Save(s, q)
  BY <1>7
  DEF Pass, Begin, LoadConfig, Login, Publishing, CreateCertificate, GetSecret,
      GetSecretGivesUp, GetPublishedToken, PublishToken, Consuming, List, GetToken, Plan, End,
      Mishap, LoadConfigFails, LoginFails, PublishTokenFails, ListFails, GetTokenFails, Crash,
      Stop, World
<1>8. CASE UNCHANGED vars
  BY <1>1, <1>8 DEF vars, history
<1> QED
  BY <1>1, <1>2, <1>3, <1>4, <1>5, <1>6, <1>7, <1>8 DEF Next, Others

\* The sites keep the safety half of what Mesh promises: links are made only for
\* pairs whose publisher wanted them, with certificates it has issued, and never
\* go back to an older one (vanform.go:25-200).
THEOREM SitesKeepMesh == Spec => MeshKept
<1>1. Init => M!Init
  BY DEF Init, M!Init, M!Pair, Pair, WantedBy
<1> QED
  BY <1>1, Invariance, StepMaps, PTL DEF Spec, MeshKept, M!Safety

\* A link that is up to date is cut only after a List that failed or a withdrawal
\* (vanform.go:148-166, vault.go:75-79).
LEMMA StepCutsForCause ==
    ASSUME IInv, [Next]_vars, NEW p \in Pair,
           links[p] = cert[p[1]], links[p] # 0, links'[p] = 0
    PROVE  blind[p[2]] \/ <<p[1], Place[p[2]]>> \in withdrawn
<1>a. TypeOK /\ AgeInv /\ OrderInv /\ PlanInv
  BY DEF IInv, TInv
<1>b. PICK q \in Site, s \in Site : p = <<q, s>> /\ q # s
  BY DEF Pair
<1>1. q \in dels[s]
  <2>1. ASSUME NEW r \in Site, NEW o \in Site, Delete(r, o)
        PROVE  r = s /\ o = q
    <3>1. links' = [links EXCEPT ![<<o, r>>] = 0] \/ links' = links
      BY <2>1 DEF Delete
    <3>2. links'[p] # links[p] /\ links \in [Pair -> Age]
      BY <1>a DEF TypeOK
    <3> QED BY <1>b, <3>1, <3>2
  <2>2. ASSUME NEW r \in Site, NEW o \in Site, Save(r, o)
        PROVE  FALSE
    <3>1. offer[r][o] # 0
      BY <1>a, <2>2 DEF Save, TypeOK
    <3>2. links' = [links EXCEPT ![<<o, r>>] = offer[r][o]] \/ links' = links
      BY <2>2 DEF Save
    <3>3. links'[p] = 0 /\ links[p] # 0 /\ links \in [Pair -> Age]
      BY <1>a DEF TypeOK
    <3> QED BY <3>1, <3>2, <3>3
  <2>3. ASSUME NEW r \in Site, Pass(r) \/ Mishap(r)
        PROVE  UNCHANGED links \/ \E o \in Site : Delete(r, o) \/ Save(r, o)
    BY <2>3
    DEF Pass, Begin, LoadConfig, Login, Publishing, CreateCertificate, GetSecret,
        GetSecretGivesUp, GetPublishedToken, PublishToken, Consuming, List, GetToken, Plan,
        End, Mishap, LoadConfigFails, LoginFails, PublishTokenFails, ListFails,
        GetTokenFails, Crash, Stop
  <2>4. Others => UNCHANGED links
    BY DEF Others, Issue, Reconfigure, Withdraw
  <2>5. PICK r \in Site, o \in Site : Delete(r, o)
    BY <2>2, <2>3, <2>4 DEF Next, vars
  <2> QED BY <2>1, <2>5 DEF Delete
<1>2. pc[s] = "apply" /\ links[p] # offer[s][q]
  BY <1>a, <1>b, <1>1 DEF TypeOK, PlanInv
<1>3. links[p] = last[p] /\ offer[s][q] <= cert[q]
  <2>1. links[p] = last[p]
    BY <1>a, <1>b DEF OrderInv
  <2>2. cert[q] \in Nat /\ token[q] <= cert[q] /\ token[q] \in Nat
    BY <1>a, Numbers DEF AgeInv
  <2>3. offer[s][q] \in Nat /\ offer[s][q] <= Newest(q)
    BY <1>a, <1>b, Numbers DEF AgeInv
  <2> QED BY <2>1, <2>2, <2>3 DEF Newest
<1>4. CASE ~blind[s] /\ <<q, Place[s]>> \notin withdrawn
  <2>1. last[p] <= offer[s][q]
    BY <1>a, <1>b, <1>2, <1>4 DEF PlanInv, Seen
  <2> QED BY <1>a, <1>b, <1>2, <1>3, <2>1, Numbers
<1> QED BY <1>b, <1>4

\* Neither the passes of other sites nor failures elsewhere in the pass cut a link
\* that is up to date (vault.go:75-79, vanform.go:148-166).
THEOREM LinksAreSteadfast == Spec => Steadfast
<1>1. IInv /\ [Next]_vars =>
        [\A p \in Pair :
            links[p] = cert[p[1]] /\ links[p] # 0 /\ links'[p] = 0
                => blind[p[2]] \/ <<p[1], Place[p[2]]>> \in withdrawn]_vars
  BY StepCutsForCause
<1> QED BY <1>1, Invariance, PTL DEF Spec, Steadfast

=============================================================================
