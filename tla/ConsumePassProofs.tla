-------------------------- MODULE ConsumePassProofs --------------------------
(***************************************************************************)
(* More proofs about the consuming pass: that what it deletes and saves is *)
(* called for by Vault, whatever others change meanwhile and whatever      *)
(* fails; and that without failures it leaves no Secret behind.            *)
(***************************************************************************)
EXTENDS ConsumeProofs

------------------------------------------------------------------------------
(* The inductive invariant of PassSound. *)

\* The zones the pass has come past.
Listed(z) == \E i \in 1..(next - 1) : zones[i].name = z

\* A pass begins with nothing.
BeforeInv ==
    pc \in {"idle", "load", "panicked"} => next = 1 /\ gets = {} /\ available = << >>

\* It gets only keys of its zones.
GetsInv == \A p \in gets : HasZone(zones, p[1])

\* Every token it has collected is still on offer, or was touched.
AvailableInv == \A i \in DOMAIN available : SaveDue(available[i])

\* An offer in a zone it has come past is collected, or will be, or the List failed,
\* or somebody has touched it since.
CoverInv ==
    \A p \in OffersOf(zones) : Listed(p[1]) =>
        \/ p \in gets
        \/ p[1] \in failed
        \/ vault[p].link \in touched
        \/ \E i \in DOMAIN available : available[i] = vault[p]

DelsInv == \A e \in dels : DeleteDue(e) \/ Unlisted(e)

PInv == BeforeInv /\ GetsInv /\ AvailableInv /\ CoverInv /\ DelsInv

------------------------------------------------------------------------------
(* Steps of the pass. *)

\* With the pass end its obligations.
LEMMA StopEndsPass ==
    ASSUME NEW at \in {"idle", "panicked"}, Stop(at)
    PROVE  PInv'
<1> USE DEF Stop, Forget
<1>1. BeforeInv' /\ GetsInv' /\ AvailableInv' /\ DelsInv'
  BY DEF BeforeInv, GetsInv, AvailableInv, DelsInv
<1>2. CoverInv'
  BY DEF CoverInv, Listed
<1> QED BY <1>1, <1>2 DEF PInv

\* Calls to the platform, and Load, change nothing the pass knows of Vault.
LEMMA PlatformKeepsPass ==
    ASSUME PInv, dels' \subseteq dels,
           UNCHANGED <<zones, next, gets, available, failed, vault, touched>>,
           \/ pc' \notin {"idle", "load", "panicked"}
           \/ pc' = pc
    PROVE  PInv'
<1>1. BeforeInv' /\ GetsInv'
  BY DEF PInv, BeforeInv, GetsInv
<1>2. AvailableInv'
  BY DEF PInv, AvailableInv, SaveDue, OffersOf, Holds
<1>3. CoverInv'
  BY DEF PInv, CoverInv, Listed, OffersOf, Holds
<1>4. DelsInv'
  BY DEF PInv, DelsInv, DeleteDue, Unlisted, OffersOf, Holds
<1> QED BY <1>1, <1>2, <1>3, <1>4 DEF PInv

LEMMA BeginKeepsPass ==
    ASSUME TInv, PInv, Begin
    PROVE  PInv'
<1>1. pc = "idle" /\ pc' = "load" /\ next = 1 /\ gets = {} /\ available = << >> /\ dels = {}
  BY DEF TInv, PhaseInv, PInv, BeforeInv, Begin
<1>2. next' = 1 /\ gets' = {} /\ available' = << >> /\ dels' = {}
  BY <1>1 DEF Begin, lists
<1>3. BeforeInv' /\ GetsInv' /\ AvailableInv' /\ DelsInv'
  BY <1>2 DEF BeforeInv, GetsInv, AvailableInv, DelsInv
<1>4. CoverInv'
  BY <1>2 DEF CoverInv, Listed
<1> QED BY <1>3, <1>4 DEF PInv

\* While it fetches, the pass has planned nothing.
LEMMA FetchingPlansNothing ==
    ASSUME TInv, pc = "fetch"
    PROVE  dels = {}
BY DEF TInv, PhaseInv

LEMMA ZonesAreSequence ==
    ASSUME NEW zs \in Configs \cup {<< >>}
    PROVE  zs \in Seq(ZoneRecord)
<1>1. CASE zs \in Configs
  BY <1>1, ConfigsAssumption
<1>2. CASE zs = << >>
  BY <1>2
<1> QED BY <1>1, <1>2

\* A List finds every offer of its zone, and comes past no other.
LEMMA ListKeepsPass ==
    ASSUME TInv, PInv, List
    PROVE  PInv'
<1>a. /\ pc = "fetch" /\ pc' = "fetch" /\ gets = {} /\ next <= Len(zones) /\ next' = next + 1
      /\ gets' = {p \in Path : p[1] = zones[next].name /\ vault[p] # Absent}
      /\ UNCHANGED <<zones, available, failed, vault, touched, dels>>
  BY DEF List, Listing, lists, env
<1>b. next \in Nat /\ Len(zones) \in Nat /\ next >= 1
  BY ZonesLength DEF TInv, TypeOK
<1>c. OffersOf(zones)' = OffersOf(zones)
  BY <1>a DEF OffersOf, Holds
<1>1. BeforeInv'
  BY <1>a DEF BeforeInv
<1>2. GetsInv'
  <2>1. next \in DOMAIN zones
    <3>1. zones \in Seq(ZoneRecord)
      BY ZonesAreSequence DEF TInv, TypeOK
    <3> QED BY <1>a, <1>b, <3>1
  <2> QED BY <1>a, <2>1 DEF GetsInv, HasZone
<1>3. AvailableInv'
  BY <1>a, <1>c DEF PInv, AvailableInv, SaveDue
<1>4. CoverInv'
  <2> SUFFICES ASSUME NEW p \in OffersOf(zones), Listed(p[1])', p \notin gets'
               PROVE  \/ p[1] \in failed
                      \/ vault[p].link \in touched
                      \/ \E i \in DOMAIN available : available[i] = vault[p]
    BY <1>a, <1>c DEF CoverInv
  <2>1. PICK i \in 1..next : zones[i].name = p[1]
    BY <1>a, <1>b DEF Listed
  <2>2. p \in Path /\ vault[p] # Absent
    BY AbsentAssumption DEF OffersOf, Holds
  <2>3. i # next
    BY <1>a, <2>1, <2>2
  <2>4. Listed(p[1])
    BY <1>b, <2>1, <2>3 DEF Listed
  <2> QED BY <1>a, <2>4 DEF PInv, CoverInv
<1>5. DelsInv'
  BY <1>a, FetchingPlansNothing DEF DelsInv
<1> QED BY <1>1, <1>2, <1>3, <1>4, <1>5 DEF PInv

\* A List that fails is remembered.
LEMMA ListFailsKeepsPass ==
    ASSUME TInv, PInv, ListFails
    PROVE  PInv'
<1>a. /\ pc = "fetch" /\ pc' = "fetch" /\ gets = {} /\ next' = next + 1
      /\ failed' = failed \cup {zones[next].name}
      /\ UNCHANGED <<zones, gets, available, vault, touched, dels>>
  BY DEF ListFails, Listing, lists, env
<1>b. next \in Nat /\ next >= 1
  BY ZonesLength DEF TInv, TypeOK
<1>c. OffersOf(zones)' = OffersOf(zones)
  BY <1>a DEF OffersOf, Holds
<1>1. BeforeInv' /\ GetsInv'
  BY <1>a DEF BeforeInv, GetsInv
<1>2. AvailableInv'
  BY <1>a, <1>c DEF PInv, AvailableInv, SaveDue
<1>3. CoverInv'
  <2> SUFFICES ASSUME NEW p \in OffersOf(zones), Listed(p[1])', p[1] \notin failed'
               PROVE  \/ vault[p].link \in touched
                      \/ \E i \in DOMAIN available : available[i] = vault[p]
    BY <1>a, <1>c DEF CoverInv
  <2>1. PICK i \in 1..next : zones[i].name = p[1]
    BY <1>a, <1>b DEF Listed
  <2>2. i # next /\ p[1] \notin failed
    BY <1>a, <2>1
  <2>3. Listed(p[1])
    BY <1>b, <2>1, <2>2 DEF Listed
  <2> QED BY <1>a, <2>2, <2>3 DEF PInv, CoverInv
<1>4. DelsInv'
  BY <1>a, FetchingPlansNothing DEF DelsInv
<1> QED BY <1>1, <1>2, <1>3, <1>4 DEF PInv

\* There is a first among the keys of a List.
LEMMA FirstIsOne ==
    ASSUME NEW paths, paths \subseteq Path, paths # {}
    PROVE  First(paths) \in paths
<1>1. \A p \in paths : KeyRank[p] \in Nat
  BY KeyRankAssumption
<1>2. \E p \in paths : \A q \in paths : KeyRank[p] <= KeyRank[q]
  BY <1>1, LowestRank
<1> QED BY <1>2 DEF First

\* A Get collects the offer of its key, and nothing else.
LEMMA GetTokenKeepsPass ==
    ASSUME TInv, PInv, GetToken
    PROVE  PInv'
<1> DEFINE q == First(gets)
<1>a. /\ pc = "fetch" /\ pc' = "fetch" /\ gets # {} /\ gets' = gets \ {q}
      /\ available' = IF Holds(q) /\ vault[q].site # MySite
                      THEN Append(available, vault[q]) ELSE available
      /\ UNCHANGED <<zones, next, failed, vault, touched, dels>>
  BY DEF GetToken, lists, env
<1>b. q \in gets /\ q \in Path
  BY <1>a, FirstIsOne DEF TInv, TypeOK
<1> HIDE DEF q
<1>c. OffersOf(zones)' = OffersOf(zones) /\ available \in Seq(Tokens)
  BY <1>a DEF OffersOf, Holds, TInv, TypeOK
<1>d. HasZone(zones, q[1])
  BY <1>b DEF PInv, GetsInv
<1>e. /\ DOMAIN available \subseteq DOMAIN available'
      /\ \A i \in DOMAIN available : available'[i] = available[i]
      /\ \A i \in DOMAIN available' \ DOMAIN available :
            available'[i] = vault[q] /\ q \in OffersOf(zones)
      /\ q \in OffersOf(zones) => \E i \in DOMAIN available' : available'[i] = vault[q]
  <2>1. CASE q \in OffersOf(zones)
    <3>1. available' = Append(available, vault[q]) /\ vault[q] \in Tokens
      BY <1>a, <2>1 DEF OffersOf, Holds
    <3>2. /\ Len(available) \in Nat /\ DOMAIN available = 1..Len(available)
          /\ DOMAIN available' = 1..(Len(available) + 1)
          /\ available'[Len(available) + 1] = vault[q]
          /\ \A i \in 1..Len(available) : available'[i] = available[i]
      BY <1>c, <3>1
    <3> QED BY <2>1, <3>2
  <2>2. CASE q \notin OffersOf(zones)
    <3>1. available' = available
      BY <1>a, <1>b, <1>d, <2>2 DEF OffersOf
    <3> QED BY <2>2, <3>1
  <2> QED BY <2>1, <2>2
<1>1. BeforeInv' /\ GetsInv'
  BY <1>a DEF BeforeInv, PInv, GetsInv
<1>2. AvailableInv'
  <2> SUFFICES ASSUME NEW i \in DOMAIN available'
               PROVE  SaveDue(available'[i])
    BY <1>a, <1>c DEF AvailableInv, SaveDue
  <2>1. CASE i \in DOMAIN available
    BY <1>e, <2>1 DEF PInv, AvailableInv
  <2>2. CASE i \notin DOMAIN available
    BY <1>e, <2>2 DEF SaveDue
  <2> QED BY <2>1, <2>2
<1>3. CoverInv'
  BY <1>a, <1>c, <1>e DEF PInv, CoverInv, Listed
<1>4. DelsInv'
  BY <1>a, FetchingPlansNothing DEF DelsInv
<1> QED BY <1>1, <1>2, <1>3, <1>4 DEF PInv

\* When all zones are past, what the comparison deletes is due to Vault, or to a
\* List that failed.
LEMMA PlanKeepsPass ==
    ASSUME TInv, PInv, Plan
    PROVE  PInv'
<1>a. /\ pc' = "delete" /\ gets = {} /\ next > Len(zones)
      /\ dels' = DeleteList
      /\ UNCHANGED <<zones, next, gets, available, failed, vault, touched>>
  BY DEF Plan, Compared, fetched, env
<1>b. next \in Nat /\ Len(zones) \in Nat /\ zones \in Seq(ZoneRecord)
  BY ZonesLength, ZonesAreSequence DEF TInv, TypeOK
<1>c. OffersOf(zones)' = OffersOf(zones)
  BY <1>a DEF OffersOf, Holds
<1>1. ASSUME NEW e \in DeleteList
      PROVE  DeleteDue(e) \/ Unlisted(e)
  <2>1. CASE ~HasZone(zones, e.targetZone)
    BY <2>1 DEF DeleteDue
  <2>2. CASE Named(e.link) = {}
    <3> SUFFICES ASSUME NEW p \in OffersOf(zones), vault[p].link = e.link
                 PROVE  e.link \in touched \/ p[1] \in failed
      BY DEF DeleteDue, Unlisted
    <3>1. PICK i \in DOMAIN zones : zones[i].name = p[1]
      BY DEF OffersOf, HasZone
    <3>2. i \in 1..(next - 1)
      BY <1>a, <1>b, <3>1
    <3>3. Listed(p[1])
      BY <3>1, <3>2 DEF Listed
    <3>4. ~\E j \in DOMAIN available : available[j] = vault[p]
      BY <2>2 DEF Named
    <3> QED BY <1>a, <3>3, <3>4 DEF PInv, CoverInv
  <2>3. CASE Scoped(e) /\ ~Equals(e, available[ByName(e.link)])
    <3>1. ByName(e.link) \in Named(e.link)
      BY <2>3, ByNameIsNamed DEF TInv, TypeOK, Scoped
    <3>2. /\ ByName(e.link) \in DOMAIN available
          /\ available[ByName(e.link)].link = e.link
      BY <3>1 DEF Named
    <3>3. SaveDue(available[ByName(e.link)])
      BY <3>2 DEF PInv, AvailableInv
    <3> QED BY <2>3, <3>2, <3>3 DEF SaveDue, DeleteDue
  <2> QED BY <2>1, <2>2, <2>3 DEF DeleteList, Changed, Scoped
<1>2. DelsInv'
  BY <1>1, <1>a, <1>c DEF DelsInv, DeleteDue, Unlisted
<1>3. BeforeInv' /\ GetsInv'
  BY <1>a DEF BeforeInv, PInv, GetsInv
<1>4. AvailableInv' /\ CoverInv'
  BY <1>a, <1>c DEF PInv, AvailableInv, CoverInv, SaveDue, Listed
<1> QED BY <1>2, <1>3, <1>4 DEF PInv

------------------------------------------------------------------------------
(* What the others do to Vault meanwhile. *)

VaultChange ==
    \/ \E t \in Tokens : Publish(t)
    \/ \E p \in Path : Withdraw(p) \/ Destroy(p)

\* A change under a pass is at one path, and touches the link names of the tokens
\* that were and are there.
LEMMA ChangeTouches ==
    ASSUME TInv, VaultChange, pc # "idle"
    PROVE  /\ touched \subseteq touched'
           /\ \E q \in Path :
                 /\ \A p \in Path \ {q} : vault'[p] = vault[p]
                 /\ vault[q] \in Tokens => vault[q].link \in touched'
                 /\ vault'[q] \in Tokens => vault'[q].link \in touched'
<1>a. vault \in [Path -> Tokens \cup {Absent, Deleted}]
  BY DEF TInv, TypeOK
<1>1. ASSUME NEW t \in Tokens, Publish(t)
      PROVE  /\ touched' = touched \cup LinksAt(PathOf(t)) \cup {t.link}
             /\ vault' = [vault EXCEPT ![PathOf(t)] = t]
             /\ PathOf(t) \in Path
  BY <1>1 DEF Publish, Touch, Put, Path
<1>2. ASSUME NEW p \in Path, Withdraw(p) \/ Destroy(p)
      PROVE  /\ touched' = touched \cup LinksAt(p)
             /\ \E v \in {Absent, Deleted} : vault' = [vault EXCEPT ![p] = v]
  <2>1. CASE Withdraw(p)
    BY <2>1 DEF Withdraw, Touch, Put
  <2>2. CASE Destroy(p)
    <3>1. LinksAt(p) = {}
      BY <2>2, AbsentAssumption DEF Destroy, LinksAt, Holds
    <3> QED BY <2>2, <3>1 DEF Destroy, Touch, Put
  <2> QED BY <1>2, <2>1, <2>2
<1>3. CASE \E t \in Tokens : Publish(t)
  <2>1. PICK t \in Tokens : Publish(t)
    BY <1>3
  <2>2. \A p \in Path \ {PathOf(t)} : vault'[p] = vault[p]
    BY <1>a, <1>1, <2>1
  <2>3. vault'[PathOf(t)] = t
    BY <1>a, <1>1, <2>1
  <2>4. vault[PathOf(t)] \in Tokens => vault[PathOf(t)].link \in touched'
    BY <1>1, <2>1 DEF LinksAt, Holds
  <2>5. t.link \in touched'
    BY <1>1, <2>1
  <2> QED BY <1>1, <2>1, <2>2, <2>3, <2>4, <2>5
<1>4. CASE \E p \in Path : Withdraw(p) \/ Destroy(p)
  <2>1. PICK q \in Path : Withdraw(q) \/ Destroy(q)
    BY <1>4
  <2>2. PICK v \in {Absent, Deleted} : vault' = [vault EXCEPT ![q] = v]
    BY <1>2, <2>1
  <2>3. vault'[q] \notin Tokens /\ \A p \in Path \ {q} : vault'[p] = vault[p]
    BY <1>a, <2>2, AbsentAssumption
  <2>4. vault[q] \in Tokens => vault[q].link \in touched'
    BY <1>2, <2>1 DEF LinksAt, Holds
  <2> QED BY <1>2, <2>1, <2>3, <2>4
<1> QED BY <1>3, <1>4 DEF VaultChange

\* So under a name that is not touched the offers are the same.
LEMMA OffersStay ==
    ASSUME TInv, VaultChange, pc # "idle", zones' = zones, NEW p
    PROVE  /\ (p \in OffersOf(zones) /\ vault[p].link \notin touched')
                 => (p \in OffersOf(zones)' /\ vault'[p] = vault[p])
           /\ (p \in OffersOf(zones)' /\ vault'[p].link \notin touched')
                 => (p \in OffersOf(zones) /\ vault'[p] = vault[p])
<1>1. PICK q \in Path :
          /\ \A r \in Path \ {q} : vault'[r] = vault[r]
          /\ vault[q] \in Tokens => vault[q].link \in touched'
          /\ vault'[q] \in Tokens => vault'[q].link \in touched'
  BY ChangeTouches
<1> QED BY <1>1 DEF OffersOf, Holds

LEMMA VaultChangeKeepsPass ==
    ASSUME TInv, PInv, VaultChange
    PROVE  PInv'
<1>a. UNCHANGED <<pc, zones, next, gets, available, failed, dels>>
  BY DEF VaultChange, Publish, Withdraw, Destroy, Put, fetched, lists
<1>1. BeforeInv' /\ GetsInv'
  BY <1>a DEF PInv, BeforeInv, GetsInv
<1>2. CASE pc = "idle"
  <2>1. next' = 1 /\ available' = << >> /\ dels' = {}
    BY <1>a, <1>2 DEF PInv, BeforeInv, TInv, PhaseInv
  <2>2. AvailableInv' /\ DelsInv'
    BY <2>1 DEF AvailableInv, DelsInv
  <2>3. CoverInv'
    BY <2>1 DEF CoverInv, Listed
  <2> QED BY <1>1, <2>2, <2>3 DEF PInv
<1>3. CASE pc # "idle"
  <2>a. touched \subseteq touched'
    BY <1>3, ChangeTouches
  <2>1. AvailableInv'
    <3> SUFFICES ASSUME NEW i \in DOMAIN available, available[i].link \notin touched'
                 PROVE  \E p \in OffersOf(zones)' : vault'[p] = available[i]
      BY <1>a DEF AvailableInv, SaveDue
    <3>1. PICK p \in OffersOf(zones) : vault[p] = available[i]
      BY <2>a DEF PInv, AvailableInv, SaveDue
    <3> QED BY <1>3, <1>a, <3>1, OffersStay
  <2>2. CoverInv'
    <3> SUFFICES ASSUME NEW p \in OffersOf(zones)', Listed(p[1]), p \notin gets,
                        p[1] \notin failed, vault'[p].link \notin touched'
                 PROVE  \E i \in DOMAIN available : available[i] = vault'[p]
      BY <1>a DEF CoverInv, Listed
    <3>1. p \in OffersOf(zones) /\ vault'[p] = vault[p]
      BY <1>3, <1>a, OffersStay
    <3> QED BY <2>a, <3>1 DEF PInv, CoverInv
  <2>3. DelsInv'
    <3> SUFFICES ASSUME NEW e \in dels, e.link \notin touched'
                 PROVE  DeleteDue(e)' \/ Unlisted(e)'
      BY <1>a DEF DelsInv, DeleteDue
    <3>0. DeleteDue(e) \/ Unlisted(e)
      BY DEF PInv, DelsInv
    <3>1. CASE ~HasZone(zones, e.targetZone)
      BY <1>a, <3>1 DEF DeleteDue
    <3>2. CASE \A p \in OffersOf(zones) : vault[p].link # e.link
      <4>1. \A p \in OffersOf(zones)' : vault'[p].link # e.link
        BY <1>3, <1>a, <3>2, OffersStay
      <4> QED BY <4>1 DEF DeleteDue
    <3>3. CASE \E p \in OffersOf(zones) : vault[p].link = e.link /\ ~Equals(e, vault[p])
      <4>1. PICK p \in OffersOf(zones) : vault[p].link = e.link /\ ~Equals(e, vault[p])
        BY <3>3
      <4>2. p \in OffersOf(zones)' /\ vault'[p] = vault[p]
        BY <1>3, <1>a, <4>1, OffersStay
      <4> QED BY <4>1, <4>2 DEF DeleteDue
    <3>4. CASE Unlisted(e)
      <4>1. PICK p \in OffersOf(zones) : vault[p].link = e.link /\ p[1] \in failed
        BY <3>4 DEF Unlisted
      <4>2. p \in OffersOf(zones)' /\ vault'[p] = vault[p]
        BY <1>3, <1>a, <4>1, OffersStay
      <4> QED BY <1>a, <4>1, <4>2 DEF Unlisted
    <3>5. e.link \notin touched
      BY <2>a
    <3> QED BY <3>0, <3>1, <3>2, <3>3, <3>4, <3>5 DEF DeleteDue
  <2> QED BY <1>1, <2>1, <2>2, <2>3 DEF PInv
<1> QED BY <1>2, <1>3

LEMMA NextKeepsPass == TInv /\ PInv /\ [Next]_vars => PInv'
<1> SUFFICES ASSUME TInv, PInv, [Next]_vars PROVE PInv'
  OBVIOUS
<1>1. CASE Begin
  BY <1>1, BeginKeepsPass
<1>2. CASE Load
  BY <1>2, PlatformKeepsPass DEF Load, lists, env
<1>3. CASE LoadFails \/ GetFails \/ PlanPanics \/ End \/ Crash \/ Restart
  BY <1>3, StopEndsPass DEF LoadFails, GetFails, PlanPanics, End, Crash, Restart
<1>4. CASE List \/ ListFails \/ GetToken \/ Plan
  BY <1>4, ListKeepsPass, ListFailsKeepsPass, GetTokenKeepsPass, PlanKeepsPass
<1>5. CASE Delete
  <2>1. ASSUME NEW e \in dels, KubeDelete(e) \/ KubeDeleteFails(e) \/ SystemDelete(e)
        PROVE  PInv'
    BY <2>1, PlatformKeepsPass
    DEF KubeDelete, KubeDeleteFails, SystemDelete, Deleting, fetched, env
  <2>2. CASE KubeDeleteSecret \/ SystemDeleteSecret
    BY <2>2, PlatformKeepsPass DEF KubeDeleteSecret, SystemDeleteSecret, fetched, lists, env
  <2>3. ASSUME NEW e \in dels, SystemDeletePanics(e)
        PROVE  PInv'
    BY <2>3, StopEndsPass DEF SystemDeletePanics
  <2> QED BY <1>5, <2>1, <2>2, <2>3 DEF Delete
<1>6. CASE Save \/ \E i \in DOMAIN available : SaveFails(i)
  <2>1. ASSUME NEW i \in DOMAIN available, SaveFirst(i) \/ SaveFails(i)
        PROVE  PInv'
    BY <2>1, PlatformKeepsPass DEF SaveFirst, SaveFails, Saving, fetched, env
  <2>2. CASE SaveSecond
    BY <2>2, PlatformKeepsPass DEF SaveSecond, fetched, lists, env
  <2> QED BY <1>6, <2>1, <2>2 DEF Save
<1>7. CASE VaultChange
  BY <1>7, VaultChangeKeepsPass
<1>8. ASSUME NEW c \in Configs, Reconfigure(c)
      PROVE  PInv'
  BY <1>8, PlatformKeepsPass DEF Reconfigure, fetched, lists
<1>9. CASE UNCHANGED vars
  BY <1>9, PlatformKeepsPass DEF vars
<1> QED
  BY <1>1, <1>2, <1>3, <1>4, <1>5, <1>6, <1>7, <1>8, <1>9
  DEF Next, Pass, Fetch, Mishap, Others, VaultChange

LEMMA InitPass == Init => PInv
<1> SUFFICES ASSUME Init PROVE PInv
  OBVIOUS
<1>1. BeforeInv /\ GetsInv /\ AvailableInv /\ DelsInv
  BY DEF Init, BeforeInv, GetsInv, AvailableInv, DelsInv
<1>2. CoverInv
  BY DEF Init, CoverInv, Listed
<1> QED BY <1>1, <1>2 DEF PInv

\* A pass deletes only the links Vault no longer has the token of, in the zones it
\* could list, and saves only tokens another site offers (vault.go:75-104,
\* vanform.go:126-180), unless somebody published or withdrew a token of that
\* name while it was at work.
THEOREM PassesAreSound == Spec => []PassSound
<1>1. TInv /\ PInv /\ [Next]_vars => (TInv /\ PInv)'
  BY StepPreservesTypes, NextKeepsPass
<1>2. Init => TInv /\ PInv
  BY InitInv, InitPass DEF IInv
<1>3. TInv /\ PInv => PassSound
  BY DEF TInv, TypeOK, PInv, DelsInv, AvailableInv, PassSound
<1> QED
  BY <1>1, <1>2, <1>3, PTL DEF Spec

------------------------------------------------------------------------------
(* No Secret is left behind on Kubernetes, where a Link's name says which    *)
(* Secret it uses: both are made of the publisher's site and zone.           *)

LinkFixesSecret == \A t, u \in Tokens : t.link = u.link => t.secret = u.secret

\* Some token has this link name and this Secret.
Known(link, secret) == \E t \in Tokens : t.link = link /\ t.secret = secret

\* What the site has it took from tokens.
KnownInv ==
    /\ \A n \in Name : links[n] # None => links[n].link = n /\ Known(n, links[n].secret)
    /\ \A e \in existing : Known(e.link, e.secret)

Used(s) == \E n \in Name : links[n] # None /\ links[n].secret = s

\* Before the first failure a Secret without a Link is the one a Delete or a Save is
\* busy with.
UsedInv ==
    faults = 0 =>
        \A s \in Name : secrets[s] # None =>
            Used(s) \/ (pc \in {"deleteSecret", "save"} /\ cur.secret = s)

OInv == KnownInv /\ UsedInv

\* A step that leaves the namespace alone keeps both, if it does not leave a Delete
\* or a Save half done, unless it fails.
LEMMA NamespaceAlone ==
    ASSUME OInv, UNCHANGED store, existing' \in {existing, {}},
           faults' = 0 => /\ faults = 0
                          /\ \/ pc \notin {"deleteSecret", "save"}
                             \/ pc' = pc /\ cur' = cur
    PROVE  OInv'
<1>1. KnownInv'
  BY DEF OInv, KnownInv, store
<1>2. UsedInv'
  BY DEF OInv, UsedInv, Used, store
<1> QED BY <1>1, <1>2 DEF OInv

LEMMA LoadKeepsUsed ==
    ASSUME Platform = "kube", TInv, OInv, Load
    PROVE  OInv'
<1>1. existing' = K!Loaded /\ UNCHANGED store /\ pc = "load" /\ faults' = faults
  BY DEF Load, Loaded
<1>2. \A e \in K!Loaded : Known(e.link, e.secret)
  BY DEF OInv, KnownInv, K!Loaded, K!Present, K!TokenOf, K!Token
<1>3. KnownInv'
  BY <1>1, <1>2 DEF OInv, KnownInv, Known, store
<1>4. UsedInv'
  BY <1>1 DEF OInv, UsedInv, Used, store
<1> QED BY <1>3, <1>4 DEF OInv

\* Delete leaves the Secret to its other users, or is about to delete it.
LEMMA DeleteKeepsUsed ==
    ASSUME LinkFixesSecret, TInv, OInv, NEW e \in dels, KubeDelete(e)
    PROVE  OInv'
<1>a. /\ e \in existing /\ e \in LoadedRecord /\ e.link \in Name
      /\ links' = [links EXCEPT ![e.link] = None] /\ links \in [Name -> LinkRecord \cup {None}]
      /\ secrets' = secrets /\ existing' = existing /\ faults' = faults
      /\ links[e.link] # None /\ pc = "delete"
  BY DEF TInv, TypeOK, LoadedRecord, KubeDelete, Deleting, K!DeleteLink, fetched
<1>b. links'[e.link] = None /\ \A n \in Name \ {e.link} : links'[n] = links[n]
  BY <1>a
<1>1. KnownInv'
  BY <1>a, <1>b DEF OInv, KnownInv, Known
<1>2. links[e.link].secret = e.secret
  BY <1>a DEF OInv, KnownInv, Known, LinkFixesSecret
<1>3. ASSUME NEW s \in Name, Used(s), s # e.secret
      PROVE  Used(s)'
  BY <1>b, <1>2, <1>3 DEF Used
<1>4. ASSUME K!SharedSecret(e)
      PROVE  Used(e.secret)'
  <2>1. PICK u \in K!Loaded : u.secret = e.secret /\ u.link # e.link
    BY <1>4 DEF K!SharedSecret
  <2>2. PICK n \in Name : /\ links[n] # None
                          /\ u = K!TokenOf(links[n], secrets[links[n].secret])
    BY DEF K!Loaded, K!Present
  <2>3. u.link = n /\ links[n].secret = e.secret
    BY <2>1, <2>2 DEF OInv, KnownInv, K!TokenOf, K!Token
  <2> QED BY <1>b, <2>1, <2>2, <2>3 DEF Used
<1>5. ~K!SharedSecret(e) => pc' = "deleteSecret" /\ cur' = e
  BY DEF KubeDelete
<1>6. UsedInv'
  <2> SUFFICES ASSUME faults = 0, NEW s \in Name, secrets[s] # None
               PROVE  Used(s)' \/ (pc' = "deleteSecret" /\ cur'.secret = s)
    BY <1>a DEF UsedInv
  <2>1. Used(s)
    BY <1>a DEF OInv, UsedInv
  <2> QED BY <1>3, <1>4, <1>5, <2>1
<1> QED BY <1>1, <1>6 DEF OInv

LEMMA DeleteSecretKeepsUsed ==
    ASSUME TInv, OInv, KubeDeleteSecret
    PROVE  OInv'
<1>1. CASE faults' # 0
  BY <1>1 DEF OInv, KnownInv, Known, UsedInv, KubeDeleteSecret, K!DeleteSecret, store, fetched
<1>2. CASE faults' = 0
  <2>1. /\ links' = links /\ existing' = existing /\ faults' = faults /\ pc = "deleteSecret"
        /\ secrets' = [secrets EXCEPT ![cur.secret] = None]
        /\ secrets \in [Name -> Data \cup {None}]
    BY <1>2, BoundAssumption
    DEF KubeDeleteSecret, K!DeleteSecret, Fault, fetched, TInv, TypeOK
  <2>2. \A s \in Name : secrets'[s] # None => secrets[s] # None /\ s # cur.secret
    BY <2>1
  <2>3. UsedInv'
    BY <2>1, <2>2 DEF OInv, UsedInv, Used
  <2>4. KnownInv'
    BY <2>1 DEF OInv, KnownInv, Known
  <2> QED BY <2>3, <2>4 DEF OInv
<1> QED BY <1>1, <1>2

LEMMA SaveFirstKeepsUsed ==
    ASSUME Platform = "kube", TInv, OInv, NEW i \in DOMAIN available, SaveFirst(i)
    PROVE  OInv'
<1> DEFINE t == available[i]
<1>1. /\ links' = links /\ existing' = existing /\ faults' = faults /\ pc = "delete"
      /\ pc' = "save" /\ cur' = t
      /\ secrets' = [secrets EXCEPT ![t.secret] = IF @ = None THEN t.data ELSE @]
      /\ secrets \in [Name -> Data \cup {None}]
  BY DEF SaveFirst, Saving, K!CreateSecret, fetched, TInv, TypeOK
<1> HIDE DEF t
<1>2. \A s \in Name : secrets'[s] # None => secrets[s] # None \/ s = t.secret
  BY <1>1
<1>3. UsedInv'
  BY <1>1, <1>2 DEF OInv, UsedInv, Used
<1>4. KnownInv'
  BY <1>1 DEF OInv, KnownInv, Known
<1> QED BY <1>3, <1>4 DEF OInv

\* A Link that is there already uses the Secret too.
LEMMA SaveSecondKeepsUsed ==
    ASSUME Platform = "kube", LinkFixesSecret, TInv, OInv, SaveSecond
    PROVE  OInv'
<1>a. /\ cur \in Tokens /\ cur.link \in Name /\ pc = "save" /\ existing' = existing
      /\ links \in [Name -> LinkRecord \cup {None}]
      /\ K!LinkOf(cur).link = cur.link /\ K!LinkOf(cur).secret = cur.secret
      /\ K!LinkOf(cur) # None
  BY TokensAssumption, NoneAssumption, TokensAreLoaded, LinkOfToken
  DEF SaveSecond, fetched, TInv, TypeOK, PhaseInv, TokenRecord, K!LinkOf, LinkOf
<1>1. CASE K!CreateLink(cur) /\ UNCHANGED faults
  <2>1. /\ secrets' = secrets
        /\ links' = [links EXCEPT ![cur.link] = IF @ = None THEN K!LinkOf(cur) ELSE @]
    BY <1>1 DEF K!CreateLink
  <2>2. /\ \A n \in Name : links[n] # None => links'[n] = links[n]
        /\ \A n \in Name : links[n] = None /\ links'[n] # None =>
              n = cur.link /\ links'[n] = K!LinkOf(cur)
        /\ links[cur.link] = None => links'[cur.link] = K!LinkOf(cur)
    BY <1>a, <2>1
  <2>3. KnownInv'
    <3>1. Known(cur.link, cur.secret)
      BY <1>a DEF Known
    <3> QED BY <1>a, <2>2, <3>1 DEF OInv, KnownInv, Known
  <2>4. \E n \in Name : links'[n] # None /\ links'[n].secret = cur.secret
    <3>1. CASE links[cur.link] = None
      BY <1>a, <2>2, <3>1
    <3>2. CASE links[cur.link] # None
      <4>1. links[cur.link].secret = cur.secret
        BY <1>a, <3>2 DEF OInv, KnownInv, Known, LinkFixesSecret
      <4> QED BY <1>a, <2>2, <3>2, <4>1
    <3> QED BY <3>1, <3>2
  <2>5. ASSUME NEW s \in Name, Used(s)
        PROVE  Used(s)'
    BY <2>2, <2>5 DEF Used
  <2>6. UsedInv'
    <3> SUFFICES ASSUME faults = 0, NEW s \in Name, secrets[s] # None
                 PROVE  Used(s)'
      BY <1>1, <2>1 DEF UsedInv
    <3>1. Used(s) \/ cur.secret = s
      BY DEF OInv, UsedInv
    <3> QED BY <2>4, <2>5, <3>1 DEF Used
  <2> QED BY <2>3, <2>6 DEF OInv
<1>2. CASE Fault /\ UNCHANGED store
  <2>1. faults' # 0
    BY <1>2 DEF Fault, TInv, TypeOK
  <2> QED BY <1>a, <1>2, <2>1, NamespaceAlone
<1> QED BY <1>1, <1>2 DEF SaveSecond

LEMMA NextKeepsUsed ==
    ASSUME Platform = "kube", LinkFixesSecret, TInv, OInv, [Next]_vars
    PROVE  OInv'
<1>a. ASSUME Fault
      PROVE  faults' # 0
  BY <1>a DEF Fault, TInv, TypeOK
<1>1. CASE Load
  BY <1>1, LoadKeepsUsed
<1>2. CASE Begin \/ List \/ GetToken \/ Plan
  BY <1>2, NamespaceAlone
  DEF Begin, List, Listing, GetToken, Plan, Compared, fetched
<1>3. CASE LoadFails \/ GetFails \/ PlanPanics \/ End \/ Restart
  BY <1>3, <1>a, NamespaceAlone
  DEF LoadFails, GetFails, PlanPanics, Compared, End, Restart, Stop, Forget
<1>4. CASE ListFails \/ (\E i \in DOMAIN available : SaveFails(i))
  BY <1>4, <1>a, NamespaceAlone DEF ListFails, SaveFails, fetched
<1>5. CASE Crash
  BY <1>5, <1>a, NamespaceAlone DEF Crash, Stop, Forget
<1>6. CASE Delete
  <2>1. ASSUME NEW e \in dels, KubeDeleteFails(e)
        PROVE  OInv'
    BY <2>1, <1>a, NamespaceAlone DEF KubeDeleteFails, Deleting, fetched
  <2> QED
    BY <1>6, <2>1, DeleteKeepsUsed, DeleteSecretKeepsUsed
    DEF Delete, SystemDelete, SystemDeletePanics
<1>7. CASE Save
  BY <1>7, SaveFirstKeepsUsed, SaveSecondKeepsUsed DEF Save
<1>8. CASE Others
  BY <1>8, NamespaceAlone
  DEF Others, Publish, Withdraw, Destroy, Put, Reconfigure, fetched
<1>9. CASE UNCHANGED vars
  BY <1>9, NamespaceAlone DEF vars, store
<1> QED
  BY <1>1, <1>2, <1>3, <1>4, <1>5, <1>6, <1>7, <1>8, <1>9
  DEF Next, Pass, Fetch, Mishap

\* As long as nothing fails, a site on Kubernetes has between passes no Secret that
\* no Link names (kube/token.go:154-186), provided link names tell Secrets apart as
\* those of Generate do (kube/token.go:117, 134).
THEOREM NoSecretIsLeft ==
    ASSUME Platform = "kube", LinkFixesSecret
    PROVE  Spec => []NoOrphanSecret
<1>1. Init => TInv /\ OInv
  BY InitInv DEF IInv, Init, OInv, KnownInv, UsedInv
<1>2. TInv /\ OInv /\ [Next]_vars => (TInv /\ OInv)'
  BY StepPreservesTypes, NextKeepsUsed
<1>3. TInv /\ OInv => NoOrphanSecret
  BY DEF OInv, UsedInv, Used, NoOrphanSecret
<1> QED
  BY <1>1, <1>2, <1>3, PTL DEF Spec

=============================================================================
