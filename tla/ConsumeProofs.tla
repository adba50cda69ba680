---------------------------- MODULE ConsumeProofs ----------------------------
(***************************************************************************)
(* Proofs about the consuming pass, for any set of sites, zones and tokens *)
(* and any bound on faults and changes: the types, and that a Link of the  *)
(* VAN on Kubernetes always has its Secret.                                *)
(***************************************************************************)
EXTENDS Consume, CommonLemmas, TLAPS

------------------------------------------------------------------------------
(* Lemmas about the operators. *)

\* byName returns a token of the name asked for, when there is one
\* (vanform.go:129-136).
LEMMA ByNameIsNamed ==
    ASSUME available \in Seq(Tokens), NEW n, Named(n) # {}
    PROVE  ByName(n) \in Named(n)
<1>1. Named(n) \subseteq Nat
  BY DEF Named
<1>2. \E i \in Named(n) : \A j \in Named(n) : i <= j
  BY <1>1, SmallestNat
<1> QED BY <1>2 DEF ByName

\* The link part of a token is what the platform stores of it, and the token
\* loaded from it is one again (kube/token.go:50-56, system/token.go:57-63).
LEMMA LinkOfToken ==
    ASSUME NEW t \in LoadedRecord
    PROVE  /\ LinkOf(t) \in LinkRecord
           /\ LinkOf(t).link = t.link
           /\ LinkOf(t).secret = t.secret
BY DEF LoadedRecord, LinkRecord, LinkOf

\* Every token of Vault is one Load could return (kube/token.go:50-56).
LEMMA TokensAreLoaded == Tokens \subseteq LoadedRecord
BY TokensAssumption DEF TokenRecord, LoadedRecord

\* Load returns well-formed tokens (kube/token.go:41-57, system/token.go:52-64).
LEMMA LoadedType ==
    ASSUME links \in [Name -> LinkRecord \cup {None}],
           secrets \in [Name -> Data \cup {None}]
    PROVE  Loaded \subseteq LoadedRecord
<1>1. ASSUME NEW n \in Name, links[n] # None
      PROVE  TokenOf(links[n], secrets[links[n].secret]) \in LoadedRecord
  <2>1. links[n] \in LinkRecord
    BY <1>1
  <2>2. secrets[links[n].secret] \in Data \cup {None}
    BY <2>1 DEF LinkRecord
  <2> QED BY <2>1, <2>2 DEF TokenOf, Token, LinkRecord, LoadedRecord
<1> QED BY <1>1 DEF Loaded, K!Loaded, K!Present, S!Loaded, K!TokenOf, S!TokenOf,
                    TokenOf, K!Token, S!Token, Token

------------------------------------------------------------------------------
(* The inductive invariant. *)

\* Outside the delete and save phases the lists are empty, so what a pass
\* loads or collects cannot invalidate an entry of theirs.
PhaseInv ==
    /\ pc \in {"idle", "panicked"} => next = 1
    /\ pc \in {"idle", "load", "fetch", "panicked"} => dels = {}
    /\ pc = "save" => cur \in Tokens

\* A Link is stored under its own name.
LinksNamed == \A n \in Name : links[n] # None => links[n].link = n

\* Between the two calls of Delete the Secret has no user left, and between
\* the two calls of Save it is there already.
MidCallInv ==
    /\ pc = "deleteSecret" =>
         \A n \in Name : links[n] # None => links[n].secret # cur.secret
    /\ pc = "save" => secrets[cur.secret] # None

TInv == TypeOK /\ PhaseInv

KInv == LinksNamed /\ SecretsIntact /\ MidCallInv

IInv == TInv /\ (Platform = "kube" => KInv)

LEMMA InitInv == Init => IInv
<1> SUFFICES ASSUME Init PROVE IInv
  OBVIOUS
<1>1. TypeOK
  BY BoundAssumption DEF Init, TypeOK
<1> QED
  BY <1>1 DEF Init, IInv, TInv, KInv, PhaseInv, LinksNamed, SecretsIntact,
              MidCallInv

\* The zone lists are sequences, so an index may be compared with their length.
LEMMA ZonesLength ==
    ASSUME NEW zs \in Configs \cup {<< >>}
    PROVE  Len(zs) \in Nat
<1>1. Configs \subseteq Seq(ZoneRecord)
  BY ConfigsAssumption
<1>2. CASE zs \in Configs
  BY <1>1, <1>2
<1>3. CASE zs = << >>
  BY <1>3
<1> QED BY <1>2, <1>3

------------------------------------------------------------------------------
(* Every step preserves the first half, on either platform. *)

\* Whatever ends a pass leaves its locals as they were before the first.
LEMMA StopPreservesTypes ==
    ASSUME TInv, NEW at \in {"idle", "panicked"}, Stop(at),
           UNCHANGED <<store, config, vault, changes>>,
           faults' \in 0..MaxFaults
    PROVE  TInv'
<1> USE DEF TInv, TypeOK, PhaseInv, Stop, Forget, store
<1> QED OBVIOUS

LEMMA FaultBound ==
    ASSUME faults \in 0..MaxFaults, Fault
    PROVE  faults' \in 0..MaxFaults
BY BoundAssumption DEF Fault

LEMMA FetchPreservesTypes ==
    ASSUME TInv, Fetch \/ ListFails
    PROVE  TInv'
<1> USE DEF TInv
<1>0. /\ faults \in 0..MaxFaults
      /\ Len(zones) \in Nat
      /\ Len(config) \in Nat
  BY ZonesLength DEF TypeOK
<1>1. CASE Begin
  BY <1>0, <1>1 DEF Begin, TypeOK, PhaseInv, store, lists, env
<1>2. CASE Load
  <2>1. Loaded \subseteq LoadedRecord
    BY LoadedType DEF TypeOK
  <2> QED
    BY <1>2, <2>1 DEF Load, TypeOK, PhaseInv, store, lists, env
<1>3. CASE LoadFails
  <2>1. faults' \in 0..MaxFaults
    BY <1>0, <1>3, FaultBound DEF LoadFails
  <2> QED BY <1>3, <2>1, StopPreservesTypes DEF LoadFails
<1>4. CASE List
  <2>1. /\ next' \in 1..(Len(zones') + 1)
        /\ gets' \subseteq Path
    BY <1>0, <1>4 DEF List, Listing, TypeOK
  <2> QED
    BY <1>4, <2>1 DEF List, Listing, TypeOK, PhaseInv, store, lists, env
<1>5. CASE GetToken
  <2>1. available' \in Seq(Tokens) /\ Len(available') >= Len(available)
    BY <1>5 DEF GetToken, Holds, TypeOK
  <2>2. DOMAIN available \subseteq DOMAIN available'
    BY <2>1 DEF TypeOK
  <2>3. gets' \subseteq Path
    BY <1>5 DEF GetToken, TypeOK
  <2> QED
    BY <1>5, <2>1, <2>2, <2>3
    DEF GetToken, TypeOK, PhaseInv, store, lists, env
<1>6. CASE GetFails
  <2>1. faults' \in 0..MaxFaults
    BY <1>0, <1>6, FaultBound DEF GetFails
  <2> QED BY <1>6, <2>1, StopPreservesTypes DEF GetFails
<1>7. CASE Plan
  <2>1. dels' \subseteq existing
    BY <1>7 DEF Plan, DeleteList, Changed
  <2>2. ASSUME NEW e \in existing, Scoped(e)
        PROVE  /\ ByName(e.link) \in DOMAIN available
               /\ available[ByName(e.link)].link = e.link
    <3>1. ByName(e.link) \in Named(e.link)
      BY <2>2, ByNameIsNamed DEF TypeOK, Scoped
    <3> QED BY <3>1 DEF Named
  <2>3. updates' \subseteq DOMAIN available
    BY <1>7, <2>2 DEF Plan, UpdateList, Changed
  <2>4. creates' \subseteq DOMAIN available
    BY <1>7 DEF Plan, CreateList
  <2>5. updates' \cap creates' = {}
    BY <1>7, <2>2 DEF Plan, UpdateList, Changed, CreateList
  <2> QED
    BY <1>7, <2>1, <2>3, <2>4, <2>5
    DEF Plan, Compared, TypeOK, PhaseInv, store, fetched, env
<1>8. CASE PlanPanics
  BY <1>0, <1>8, StopPreservesTypes DEF PlanPanics
<1>9. CASE ListFails
  <2>1. zones[next].name \in Zone
    <3>1. next \in 1..Len(zones)
      BY <1>0, <1>9 DEF ListFails, Listing, TypeOK
    <3>2. zones \in Seq(ZoneRecord)
      BY <3>1, ConfigsAssumption DEF TypeOK
    <3>3. zones[next] \in ZoneRecord
      BY <3>1, <3>2
    <3> QED BY <3>3 DEF ZoneRecord
  <2>2. next' \in 1..(Len(zones') + 1)
    BY <1>0, <1>9 DEF ListFails, Listing, TypeOK
  <2>3. faults' \in 0..MaxFaults
    BY <1>0, <1>9, FaultBound DEF ListFails
  <2> QED
    BY <1>9, <2>1, <2>2, <2>3
    DEF ListFails, Listing, TypeOK, PhaseInv, store, lists, env
<1> QED
  BY <1>1, <1>2, <1>3, <1>4, <1>5, <1>6, <1>7, <1>8, <1>9 DEF Fetch

\* A token a link is deleted for is one Load returned.
LEMMA DeletePreservesTypes ==
    ASSUME TInv, Delete
    PROVE  TInv'
<1> USE DEF TInv
<1>0. /\ faults \in 0..MaxFaults
      /\ None \notin LoadedRecord
  BY NoneAssumption DEF TypeOK
<1>a. ASSUME NEW e \in dels
      PROVE  e \in LoadedRecord /\ e.link \in Name /\ e.secret \in Name
  BY DEF TypeOK, LoadedRecord
<1>1. ASSUME NEW e \in dels, KubeDelete(e)
      PROVE  TInv'
  <2>1. links' \in [Name -> LinkRecord \cup {None}] /\ secrets' = secrets
    BY <1>1 DEF KubeDelete, K!DeleteLink, TypeOK
  <2> QED
    BY <1>0, <1>1, <1>a, <2>1
    DEF KubeDelete, Deleting, TypeOK, PhaseInv, fetched, env
<1>2. ASSUME NEW e \in dels, KubeDeleteFails(e)
      PROVE  TInv'
  <2>1. faults' \in 0..MaxFaults
    BY <1>0, <1>2, FaultBound DEF KubeDeleteFails
  <2> QED
    BY <1>2, <2>1
    DEF KubeDeleteFails, Deleting, TypeOK, PhaseInv, fetched, env, store
<1>3. ASSUME NEW e \in dels, SystemDelete(e)
      PROVE  TInv'
  <2>1. faults' \in 0..MaxFaults
    BY <1>0, <1>3, FaultBound DEF SystemDelete
  <2>2. links' \in [Name -> LinkRecord \cup {None}] /\ secrets' = secrets
    BY <1>3 DEF SystemDelete, S!RemoveLink, TypeOK, store
  <2> QED
    BY <1>0, <1>3, <1>a, <2>1, <2>2
    DEF SystemDelete, Deleting, TypeOK, PhaseInv, fetched, env
<1>4. ASSUME NEW e \in dels, SystemDeletePanics(e)
      PROVE  TInv'
  BY <1>0, <1>4, StopPreservesTypes DEF SystemDeletePanics
<1>5. CASE KubeDeleteSecret
  <2>1. faults' \in 0..MaxFaults
    BY <1>0, <1>5, FaultBound DEF KubeDeleteSecret
  <2>2. secrets' \in [Name -> Data \cup {None}] /\ links' = links
    BY <1>5 DEF KubeDeleteSecret, K!DeleteSecret, TypeOK, store
  <2> QED
    BY <1>5, <2>1, <2>2 DEF KubeDeleteSecret, TypeOK, PhaseInv, fetched, env, lists
<1>6. CASE SystemDeleteSecret
  <2>1. faults' \in 0..MaxFaults
    BY <1>0, <1>6, FaultBound DEF SystemDeleteSecret
  <2>2. secrets' \in [Name -> Data \cup {None}] /\ links' = links
    BY <1>6 DEF SystemDeleteSecret, S!RemoveSecret, TypeOK, store
  <2> QED
    BY <1>6, <2>1, <2>2
    DEF SystemDeleteSecret, TypeOK, PhaseInv, fetched, env, lists
<1> QED
  BY <1>1, <1>2, <1>3, <1>4, <1>5, <1>6 DEF Delete

\* A token taken from the list of those available is a token of Vault.
LEMMA SavePreservesTypes ==
    ASSUME TInv, Save \/ (\E i \in DOMAIN available : SaveFails(i)) \/ End
    PROVE  TInv'
<1> USE DEF TInv
<1>0. /\ faults \in 0..MaxFaults
      /\ None \notin LoadedRecord
      /\ Tokens \subseteq LoadedRecord
  BY NoneAssumption, TokensAreLoaded DEF TypeOK
<1>a. ASSUME NEW t \in Tokens
      PROVE  /\ LinkOf(t) \in LinkRecord
             /\ t.data \in Data
  BY <1>0, LinkOfToken, TokensAssumption DEF TokenRecord
<1>1. ASSUME NEW i \in DOMAIN available, SaveFirst(i)
      PROVE  TInv'
  <2>1. available[i] \in Tokens
    BY DEF TypeOK
  <2>2. updates' \subseteq updates /\ creates' \subseteq creates
    BY <1>1 DEF SaveFirst, Saving
  <2>3. /\ links' \in [Name -> LinkRecord \cup {None}]
        /\ secrets' \in [Name -> Data \cup {None}]
    BY <1>1, <1>a, <2>1
    DEF SaveFirst, K!CreateSecret, S!WriteLink, S!LinkOf, LinkOf, TypeOK
  <2> QED
    BY <1>0, <1>1, <2>1, <2>2, <2>3
    DEF SaveFirst, Saving, TypeOK, PhaseInv, fetched, env
<1>2. ASSUME NEW i \in DOMAIN available, SaveFails(i)
      PROVE  TInv'
  <2>1. updates' \subseteq updates /\ creates' \subseteq creates
    BY <1>2 DEF SaveFails, Saving
  <2>2. faults' \in 0..MaxFaults
    BY <1>0, <1>2, FaultBound DEF SaveFails
  <2> QED
    BY <1>2, <2>1, <2>2
    DEF SaveFails, Saving, TypeOK, PhaseInv, fetched, env, store
<1>3. CASE SaveSecond
  <2>1. faults' \in 0..MaxFaults
    BY <1>0, <1>3, FaultBound DEF SaveSecond
  <2>2. cur \in Tokens
    BY <1>3 DEF SaveSecond, PhaseInv
  <2>3. /\ links' \in [Name -> LinkRecord \cup {None}]
        /\ secrets' \in [Name -> Data \cup {None}]
    BY <1>3, <1>a, <2>2
    DEF SaveSecond, K!CreateLink, S!WriteSecret, K!LinkOf, LinkOf, TypeOK, store
  <2> QED
    BY <1>3, <2>1, <2>3 DEF SaveSecond, TypeOK, PhaseInv, fetched, env, lists
<1>4. CASE End
  BY <1>0, <1>4, StopPreservesTypes DEF End
<1> QED
  BY <1>1, <1>2, <1>3, <1>4 DEF Save

\* The others change only Vault and the configuration.
LEMMA OthersPreserveTypes ==
    ASSUME TInv, Others
    PROVE  TInv'
<1> USE DEF TInv
<1>a. ASSUME Change
      PROVE  changes' \in 0..MaxChanges
  BY <1>a, BoundAssumption DEF Change, TypeOK
<1>b. ASSUME NEW names \in SUBSET Name, Touch(names)
      PROVE  touched' \subseteq Name
  BY <1>b DEF Touch, TypeOK
<1>c. ASSUME NEW p \in Path
      PROVE  LinksAt(p) \subseteq Name
  BY TokensAssumption DEF LinksAt, Holds, TokenRecord
<1>d. ASSUME NEW p \in Path, NEW v \in Tokens \cup {Absent, Deleted},
             Put(p, v), touched' \subseteq Name
      PROVE  TInv'
  <2>1. vault' \in [Path -> Tokens \cup {Absent, Deleted}]
    BY <1>d DEF Put, TypeOK
  <2>2. changes' \in 0..MaxChanges
    BY <1>a, <1>d DEF Put
  <2> QED
    BY <1>d, <2>1, <2>2 DEF Put, TypeOK, PhaseInv, store, fetched, lists
<1>1. ASSUME NEW t \in Tokens, Publish(t)
      PROVE  TInv'
  <2>1. PathOf(t) \in Path
    BY DEF Path
  <2>2. t.link \in Name
    BY TokensAssumption DEF TokenRecord
  <2> QED BY <1>1, <1>b, <1>c, <1>d, <2>1, <2>2 DEF Publish
<1>2. ASSUME NEW p \in Path, Withdraw(p) \/ Destroy(p)
      PROVE  TInv'
  BY <1>2, <1>b, <1>c, <1>d DEF Withdraw, Destroy
<1>3. ASSUME NEW c \in Configs, Reconfigure(c)
      PROVE  TInv'
  BY <1>3, <1>a DEF Reconfigure, TypeOK, PhaseInv, store, fetched, lists
<1> QED
  BY <1>1, <1>2, <1>3 DEF Others

LEMMA StepPreservesTypes == TInv /\ [Next]_vars => TInv'
<1> SUFFICES ASSUME TInv, [Next]_vars PROVE TInv'
  OBVIOUS
<1>1. CASE Crash
  <2>1. faults' \in 0..MaxFaults
    BY <1>1, FaultBound DEF Crash, TInv, TypeOK
  <2> QED BY <1>1, <2>1, StopPreservesTypes DEF Crash
<1>2. CASE Restart
  BY <1>2, StopPreservesTypes DEF Restart, TInv, TypeOK
<1>3. CASE UNCHANGED vars
  BY <1>3 DEF TInv, TypeOK, PhaseInv, vars
<1> QED
  BY <1>1, <1>2, <1>3, FetchPreservesTypes, DeletePreservesTypes,
     SavePreservesTypes, OthersPreserveTypes
  DEF Next, Pass, Mishap

------------------------------------------------------------------------------
(* On Kubernetes every step preserves the second half. *)

\* A step that leaves the namespace alone and is not in the middle of a call
\* afterwards, or was there already, has nothing to disturb.
LEMMA StoreUnchanged ==
    ASSUME KInv, UNCHANGED store,
           \/ pc' \notin {"deleteSecret", "save"}
           \/ pc' = pc /\ cur' = cur
    PROVE  KInv'
BY DEF KInv, LinksNamed, SecretsIntact, MidCallInv, store

\* The first call of Delete: if no other loaded token has the Secret, no other
\* stored Link names it.
LEMMA KubeDeletePreserves ==
    ASSUME TInv, KInv, NEW e \in dels, KubeDelete(e)
    PROVE  KInv'
<1> USE DEF KInv
<1>1. /\ e.link \in Name
      /\ secrets' = secrets
      /\ links' = [links EXCEPT ![e.link] = None]
      /\ links \in [Name -> LinkRecord \cup {None}]
  BY DEF TInv, TypeOK, LoadedRecord, KubeDelete, K!DeleteLink
<1>2. LinksNamed' /\ SecretsIntact'
  BY <1>1 DEF LinksNamed, SecretsIntact
<1>3. pc' # "save"
  BY DEF KubeDelete, Deleting
<1>4. ASSUME ~K!SharedSecret(e), cur' = e,
             NEW n \in Name, links'[n] # None
      PROVE  links'[n].secret # cur'.secret
  <2>1. n # e.link /\ links'[n] = links[n]
    BY <1>1, <1>4
  <2> DEFINE u == K!TokenOf(links[n], secrets[links[n].secret])
  <2>2. u \in K!Loaded
    BY <1>4, <2>1 DEF K!Loaded, K!Present
  <2>3. u.link = n /\ u.secret = links[n].secret
    BY <1>4, <2>1 DEF LinksNamed, K!TokenOf, K!Token
  <2> HIDE DEF u
  <2> QED BY <1>4, <2>1, <2>2, <2>3 DEF K!SharedSecret
<1>5. pc' = "deleteSecret" => ~K!SharedSecret(e) /\ cur' = e
  BY DEF KubeDelete, Deleting
<1> QED
  BY <1>2, <1>3, <1>4, <1>5 DEF MidCallInv

\* The second call of Delete, which only MidCallInv makes safe.
LEMMA KubeDeleteSecretPreserves ==
    ASSUME TInv, KInv, KubeDeleteSecret
    PROVE  KInv'
<1>1. CASE UNCHANGED store
  BY <1>1, StoreUnchanged DEF KubeDeleteSecret
<1>2. CASE K!DeleteSecret(cur)
  <2>1. /\ links' = links
        /\ secrets' = [secrets EXCEPT ![cur.secret] = None]
        /\ secrets \in [Name -> Data \cup {None}]
        /\ links \in [Name -> LinkRecord \cup {None}]
    BY <1>2 DEF K!DeleteSecret, TInv, TypeOK
  <2>2. ASSUME NEW n \in Name, links[n] # None
        PROVE  secrets'[links[n].secret] = secrets[links[n].secret]
    <3>1. links[n].secret # cur.secret
      BY <2>2 DEF KInv, MidCallInv, KubeDeleteSecret
    <3>2. links[n].secret \in Name
      BY <2>1, <2>2 DEF LinkRecord
    <3> QED BY <2>1, <3>1, <3>2
  <2>3. pc' = "delete"
    BY DEF KubeDeleteSecret
  <2> QED
    BY <2>1, <2>2, <2>3 DEF KInv, LinksNamed, SecretsIntact, MidCallInv
<1> QED
  BY <1>1, <1>2 DEF KubeDeleteSecret

\* The first call of Save puts the Secret there, if it was not.
LEMMA KubeSaveFirstPreserves ==
    ASSUME Platform = "kube", TInv, KInv,
           NEW i \in DOMAIN available, SaveFirst(i)
    PROVE  KInv'
<1> DEFINE t == available[i]
<1>1. t \in Tokens /\ t.secret \in Name /\ t.data \in Data
  BY TokensAssumption DEF TInv, TypeOK, TokenRecord
<1> HIDE DEF t
<1>2. /\ links' = links
      /\ secrets' = [secrets EXCEPT ![t.secret] = IF @ = None THEN t.data ELSE @]
      /\ secrets \in [Name -> Data \cup {None}]
      /\ links \in [Name -> LinkRecord \cup {None}]
      /\ pc' = "save"
      /\ cur' = t
  BY DEF SaveFirst, K!CreateSecret, TInv, TypeOK, t
<1>3. None \notin Data
  BY NoneAssumption
<1>4. secrets'[t.secret] # None
  BY <1>1, <1>2, <1>3
<1>5. ASSUME NEW s \in Name, secrets[s] # None
      PROVE  secrets'[s] # None
  BY <1>2, <1>3, <1>4, <1>5
<1>6. LinksNamed'
  BY <1>2 DEF KInv, LinksNamed
<1>7. SecretsIntact'
  <2>1. ASSUME NEW n \in Name, links[n] # None
        PROVE  links[n].secret \in Name
    BY <1>2, <2>1 DEF LinkRecord
  <2> QED BY <1>2, <1>5, <2>1 DEF KInv, SecretsIntact
<1> QED
  BY <1>2, <1>4, <1>6, <1>7 DEF KInv, MidCallInv

\* The second call of Save stores a Link whose Secret the first has seen to.
LEMMA KubeSaveSecondPreserves ==
    ASSUME Platform = "kube", TInv, KInv, SaveSecond
    PROVE  KInv'
<1>1. CASE UNCHANGED store
  BY <1>1, StoreUnchanged DEF SaveSecond
<1>2. CASE K!CreateLink(cur)
  <2>1. /\ cur \in LoadedRecord
        /\ secrets[cur.secret] # None
        /\ pc' = "delete"
    BY TokensAreLoaded DEF TInv, KInv, PhaseInv, MidCallInv, SaveSecond
  <2>2. /\ K!LinkOf(cur).link = cur.link
        /\ K!LinkOf(cur).secret = cur.secret
    BY DEF K!LinkOf
  <2>3. ASSUME NEW n \in Name, links'[n] # None
        PROVE  links'[n] = links[n] \/ (n = cur.link /\ links'[n] = K!LinkOf(cur))
    BY <1>2, <2>3 DEF K!CreateLink, TInv, TypeOK
  <2>4. secrets' = secrets
    BY <1>2 DEF K!CreateLink
  <2> QED
    BY <2>1, <2>2, <2>3, <2>4
    DEF KInv, LinksNamed, SecretsIntact, MidCallInv
<1> QED
  BY <1>1, <1>2 DEF SaveSecond

\* The other steps touch neither Links nor Secrets.
LEMMA StepPreservesKube ==
    Platform = "kube" /\ TInv /\ KInv /\ [Next]_vars => KInv'
<1> SUFFICES ASSUME Platform = "kube", TInv, KInv, [Next]_vars
             PROVE  KInv'
  OBVIOUS
<1>1. CASE Fetch
  BY <1>1, StoreUnchanged
  DEF Fetch, Begin, Load, LoadFails, List, GetToken, GetFails, Plan, PlanPanics,
      Stop, store
<1>2. CASE Delete
  <2>1. ASSUME NEW e \in dels, KubeDeleteFails(e)
        PROVE  KInv'
    BY <2>1, StoreUnchanged DEF KubeDeleteFails
  <2> QED
    BY <1>2, <2>1, KubeDeletePreserves, KubeDeleteSecretPreserves
    DEF Delete, SystemDelete, SystemDeletePanics
<1>3. CASE Save
  BY <1>3, KubeSaveFirstPreserves, KubeSaveSecondPreserves DEF Save
<1>4. CASE End \/ Crash \/ Restart
  BY <1>4, StoreUnchanged DEF End, Crash, Restart, Stop
<1>5. CASE ListFails \/ \E i \in DOMAIN available : SaveFails(i)
  BY <1>5, StoreUnchanged DEF ListFails, SaveFails
<1>6. CASE Others
  BY <1>6, StoreUnchanged
  DEF Others, Publish, Withdraw, Destroy, Put, Reconfigure
<1>7. CASE UNCHANGED vars
  BY <1>7, StoreUnchanged DEF vars, store
<1> QED
  BY <1>1, <1>2, <1>3, <1>4, <1>5, <1>6, <1>7 DEF Next, Pass, Mishap

------------------------------------------------------------------------------
(* The theorems. *)

LEMMA Invariance == Spec => []IInv
<1>1. Init => IInv
  BY InitInv
<1>2. IInv /\ [Next]_vars => IInv'
  <2>1. TInv /\ [Next]_vars => TInv'
    BY StepPreservesTypes
  <2>2. TInv /\ (Platform = "kube" => KInv) /\ [Next]_vars
          => (Platform = "kube" => KInv')
    BY StepPreservesKube
  <2> QED BY <2>1, <2>2 DEF IInv
<1> QED
  BY <1>1, <1>2, PTL DEF Spec

\* The variables of a consuming pass keep their types, createList has no token
\* twice, and every token to delete is one Load returned (vanform.go:148-180).
THEOREM TypeCorrect == Spec => []TypeOK
<1>1. IInv => TypeOK
  BY DEF IInv, TInv
<1> QED
  BY <1>1, Invariance, PTL

\* On Kubernetes no Link of the VAN is ever without its Secret, whatever calls
\* fail, wherever the process dies and however Vault and the configuration
\* change (kube/token.go:61-76, 142-189).
THEOREM LinksKeepTheirSecrets == Spec => []LinkHasSecret
<1>1. IInv => LinkHasSecret
  BY DEF IInv, KInv, LinkHasSecret
<1> QED
  BY <1>1, Invariance, PTL

=============================================================================
