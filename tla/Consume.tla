------------------------------- MODULE Consume -------------------------------
(***************************************************************************)
(* The consuming half of a reconcile pass: consumeTokens of                *)
(* internal/van/common/vanform.go, with GetAvailableTokens of              *)
(* internal/client/vault.go and the Load, Save and Delete of the           *)
(* platform's token handler.  A pass loads the links the site has, lists   *)
(* the tokens Vault holds for the site's zones, and then deletes and       *)
(* creates links until the two agree.                                      *)
(*                                                                         *)
(* Every call to Vault or to the platform is a step.  Between two of them  *)
(* other sites publish and withdraw tokens, the VAN configuration changes, *)
(* a call fails, or the process dies.                                      *)
(***************************************************************************)
EXTENDS VanTokens, Integers

CONSTANTS
    Platform,           \* "kube" or "system"
    Site, MySite,       \* site names, and this site's own
    Zone, Name,         \* names of zones, and of Links and Secrets
    Ends, Data,         \* endpoint lists, contents of Secrets
    Tokens,             \* the tokens that may be found in Vault
    Configs,            \* the zone lists this site may be configured with
    KeyRank,            \* the order in which Vault lists the keys of a zone
    Absent, Deleted,    \* a path with no key, one whose last version is deleted
    MaxChanges,         \* bound on the changes to Vault and configuration
    MaxFaults           \* bound on failed calls and crashes

TokenRecord ==
    [site : Site, siteZone : Zone, targetZone : Zone, link : Name,
     ends : Ends, secret : Name, data : Data]

LoadedRecord ==
    [site : Site, siteZone : Zone, targetZone : Zone, link : Name,
     ends : Ends, secret : Name, data : Data \cup {None}]

LinkRecord ==
    [site : Site, siteZone : Zone, targetZone : Zone, link : Name,
     ends : Ends, secret : Name]

ZoneRecord == [name : Zone, reach : Seq(Zone)]

Path == {PathOf(t) : t \in Tokens}

ASSUME PlatformAssumption == Platform \in {"kube", "system"}
ASSUME TokensAssumption == Tokens \subseteq TokenRecord
ASSUME ConfigsAssumption == Configs \subseteq Seq(ZoneRecord) /\ Configs # {}
ASSUME KeyRankAssumption == KeyRank \in [Path -> Nat]
ASSUME NoneAssumption == None \notin LinkRecord \cup Data \cup LoadedRecord
ASSUME AbsentAssumption == Absent \notin Tokens /\ Deleted \notin Tokens
ASSUME BoundAssumption == MaxChanges \in Nat /\ MaxFaults \in Nat

VARIABLES
    config,             \* the zones of the VAN configuration now in force
    vault,              \* what Vault holds at each path
    links, secrets,     \* the Links and Secrets of this site's namespace
    pc,                 \* where the pass is
    zones,              \* the configuration this pass has loaded
    next,               \* index of the next zone to list
    gets,               \* paths listed and not fetched yet
    existing,           \* the tokens Load returned
    available,          \* the tokens GetAvailableTokens has collected
    dels,               \* deleteList, what is left of it
    updates, creates,   \* createList, as indices into available, likewise
    cur,                \* the token a Delete or a Save is busy with
    failed,             \* the zones whose List failed in this pass
    touched,            \* link names whose tokens changed during this pass
    changes, faults     \* how much of the two bounds is used

vars == <<config, vault, links, secrets, pc, zones, next, gets, existing,
          available, dels, updates, creates, cur, failed, touched,
          changes, faults>>

K == INSTANCE KubeTokens
S == INSTANCE SystemTokens

store == <<links, secrets>>
lists == <<dels, updates, creates>>
fetched == <<zones, next, gets, existing, available, failed>>
env == <<config, vault, touched, changes>>

Holds(p) == vault[p] \in Tokens

Loaded == IF Platform = "kube" THEN K!Loaded ELSE S!Loaded

------------------------------------------------------------------------------
(* The beginning and the end of a pass. *)

\* All that a pass keeps is local to it.
Forget ==
    /\ zones' = << >>
    /\ next' = 1
    /\ gets' = {}
    /\ existing' = {}
    /\ available' = << >>
    /\ dels' = {}
    /\ updates' = {}
    /\ creates' = {}
    /\ cur' = None
    /\ failed' = {}
    /\ touched' = {}

Stop(at) == pc' = at /\ Forget

\* The fault budget pays for every failed call.
Fault == faults < MaxFaults /\ faults' = faults + 1

Begin ==
    /\ pc = "idle"
    /\ pc' = "load"
    /\ zones' = config
    /\ UNCHANGED <<store, lists, next, gets, existing, available, cur, failed,
                   env, faults>>

------------------------------------------------------------------------------
(* Load, and GetAvailableTokens. *)

Load ==
    /\ pc = "load"
    /\ Platform = "kube" => K!Loadable
    /\ existing' = Loaded
    /\ pc' = "fetch"
    /\ UNCHANGED <<store, lists, zones, next, gets, available, cur, failed,
                   env, faults>>

LoadFails ==
    /\ pc = "load"
    /\ \/ Platform = "kube" /\ ~K!Loadable /\ UNCHANGED faults
       \/ Fault
    /\ Stop("idle")
    /\ UNCHANGED <<store, config, vault, changes>>

Listing == pc = "fetch" /\ gets = {} /\ next <= Len(zones)

\* A List names the deleted keys too.
List ==
    /\ Listing
    /\ gets' = {p \in Path : p[1] = zones[next].name /\ vault[p] # Absent}
    /\ next' = next + 1
    /\ UNCHANGED <<store, lists, pc, zones, existing, available, cur, failed,
                   env, faults>>

\* A zone that cannot be listed is skipped, as one with no tokens is.
ListFails ==
    /\ Listing
    /\ Fault
    /\ next' = next + 1
    /\ failed' = failed \cup {zones[next].name}
    /\ UNCHANGED <<store, lists, pc, zones, gets, existing, available, cur, env>>

First(paths) == CHOOSE p \in paths : \A q \in paths : KeyRank[p] <= KeyRank[q]

GetToken ==
    /\ pc = "fetch"
    /\ gets # {}
    /\ LET p == First(gets)
       IN  /\ vault[p] # Absent
           /\ available' = IF Holds(p) /\ vault[p].site # MySite
                           THEN Append(available, vault[p])
                           ELSE available
           /\ gets' = gets \ {p}
    /\ UNCHANGED <<store, lists, pc, zones, next, existing, cur, failed, env,
                   faults>>

\* Mutant: the key is skipped, as a zone is when its List fails.
GetFailureSkipped ==
    /\ pc = "fetch"
    /\ gets # {}
    /\ \/ vault[First(gets)] = Absent /\ UNCHANGED faults
       \/ Fault
    /\ gets' = gets \ {First(gets)}
    /\ UNCHANGED <<store, lists, pc, zones, next, existing, available, cur,
                   failed, env>>

\* Unlike a List, a Get that fails ends the pass; so does one whose key has
\* been destroyed since it was listed.
GetFails ==
    /\ pc = "fetch"
    /\ gets # {}
    /\ \/ vault[First(gets)] = Absent /\ UNCHANGED faults
       \/ Fault
    /\ Stop("idle")
    /\ UNCHANGED <<store, config, vault, changes>>

------------------------------------------------------------------------------
(* The comparison of the two lists. *)

Named(n) == {i \in DOMAIN available : available[i].link = n}

\* Mutant: the last token of that name.
ByNameLast(n) == CHOOSE i \in Named(n) : \A j \in Named(n) : j <= i

\* byName: the first token of that name.
ByName(n) == CHOOSE i \in Named(n) : \A j \in Named(n) : i <= j

Scoped(e) == Named(e.link) # {} /\ HasZone(zones, e.targetZone)

Changed == {e \in existing : Scoped(e) /\ ~Equals(e, available[ByName(e.link)])}

DeleteList == {e \in existing : ~Scoped(e)} \cup Changed

UpdateList == {ByName(e.link) : e \in Changed}

\* Mutant: whatever the site does not have exactly so is created.
CreateDifferent ==
    {i \in DOMAIN available : \A e \in existing : ~Equals(e, available[i])}

CreateList ==
    {i \in DOMAIN available : \A e \in existing : e.link # available[i].link}

ComparePanics ==
    \E e \in existing : Scoped(e) /\ EqualsPanics(e, available[ByName(e.link)])

Compared == pc = "fetch" /\ gets = {} /\ next > Len(zones)

Plan ==
    /\ Compared
    /\ ~ComparePanics
    /\ dels' = DeleteList
    /\ updates' = UpdateList
    /\ creates' = CreateList
    /\ pc' = "delete"
    /\ UNCHANGED <<store, fetched, cur, env, faults>>

PlanPanics ==
    /\ Compared
    /\ ComparePanics
    /\ Stop("panicked")
    /\ UNCHANGED <<store, config, vault, changes, faults>>

------------------------------------------------------------------------------
(* Delete: Kubernetes deletes the Link, then the Secret unless it is shared; *)
(* a System site removes both files, whatever becomes of the first.          *)

Deleting(e) == pc = "delete" /\ e \in dels

KubeDelete(e) ==
    /\ Platform = "kube"
    /\ Deleting(e)
    /\ K!Loadable
    /\ K!DeleteLink(e)
    /\ dels' = dels \ {e}
    /\ IF K!SharedSecret(e)
       THEN UNCHANGED <<pc, cur>>
       ELSE pc' = "deleteSecret" /\ cur' = e
    /\ UNCHANGED <<fetched, updates, creates, env, faults>>

KubeDeleteFails(e) ==
    /\ Platform = "kube"
    /\ Deleting(e)
    /\ \/ (~K!Loadable \/ links[e.link] = None) /\ UNCHANGED faults
       \/ Fault
    /\ dels' = dels \ {e}
    /\ UNCHANGED <<store, pc, fetched, updates, creates, cur, env>>

KubeDeleteSecret ==
    /\ pc = "deleteSecret"
    /\ \/ K!DeleteSecret(cur) /\ UNCHANGED faults
       \/ Fault /\ UNCHANGED store
    /\ pc' = "delete"
    /\ cur' = None
    /\ UNCHANGED <<fetched, lists, env>>

SystemDelete(e) ==
    /\ Platform = "system"
    /\ Deleting(e)
    /\ e.data # None
    /\ \/ S!RemoveLink(e) /\ UNCHANGED faults
       \/ Fault /\ UNCHANGED store
    /\ dels' = dels \ {e}
    /\ pc' = "deleteSecret"
    /\ cur' = e
    /\ UNCHANGED <<fetched, updates, creates, env>>

SystemDeleteSecret ==
    /\ pc = "deleteSecret"
    /\ \/ S!RemoveSecret(cur) /\ UNCHANGED faults
       \/ Fault /\ UNCHANGED store
    /\ pc' = "delete"
    /\ cur' = None
    /\ UNCHANGED <<fetched, lists, env>>

\* The name of the Secret file is taken from the Secret, which may be nil.
SystemDeletePanics(e) ==
    /\ Platform = "system"
    /\ Deleting(e)
    /\ e.data = None
    /\ Stop("panicked")
    /\ UNCHANGED <<store, config, vault, changes, faults>>

------------------------------------------------------------------------------
(* Save: Kubernetes creates the Secret, then the Link; a System site writes  *)
(* the Link, then the Secret.  The first failure ends the Save.              *)

\* Updated links first, in the order Load gave them; then the new ones.
Saving(i) ==
    /\ pc = "delete"
    /\ dels = {}
    /\ \/ /\ i \in updates
          /\ updates' = updates \ {i}
          /\ UNCHANGED creates
       \/ /\ updates = {}
          /\ i \in creates
          /\ \A j \in creates : i <= j
          /\ creates' = creates \ {i}
          /\ UNCHANGED updates

SaveFirst(i) ==
    /\ Saving(i)
    /\ IF Platform = "kube"
       THEN K!CreateSecret(available[i])
       ELSE S!WriteLink(available[i])
    /\ pc' = "save"
    /\ cur' = available[i]
    /\ UNCHANGED <<fetched, dels, env, faults>>

SaveFails(i) ==
    /\ Saving(i)
    /\ Fault
    /\ UNCHANGED <<store, pc, fetched, dels, cur, env>>

SaveSecond ==
    /\ pc = "save"
    /\ \/ /\ IF Platform = "kube"
             THEN K!CreateLink(cur)
             ELSE S!WriteSecret(cur)
          /\ UNCHANGED faults
       \/ Fault /\ UNCHANGED store
    /\ pc' = "delete"
    /\ cur' = None
    /\ UNCHANGED <<fetched, lists, env>>

End ==
    /\ pc = "delete"
    /\ dels = {}
    /\ updates = {}
    /\ creates = {}
    /\ Stop("idle")
    /\ UNCHANGED <<store, config, vault, changes, faults>>

------------------------------------------------------------------------------
(* The process dies, and is started again by its supervisor. *)

Crash ==
    /\ pc \notin {"idle", "panicked"}
    /\ Fault
    /\ Stop("idle")
    /\ UNCHANGED <<store, config, vault, changes>>

Restart ==
    /\ pc = "panicked"
    /\ Stop("idle")
    /\ UNCHANGED <<store, config, vault, changes, faults>>

------------------------------------------------------------------------------
(* What the others do meanwhile. *)

Change == changes < MaxChanges /\ changes' = changes + 1

LinksAt(p) == IF Holds(p) THEN {vault[p].link} ELSE {}

Touch(names) == touched' = IF pc = "idle" THEN {} ELSE touched \cup names

Put(p, v) ==
    /\ vault[p] # v
    /\ Change
    /\ vault' = [vault EXCEPT ![p] = v]
    /\ UNCHANGED <<config, store, pc, fetched, lists, cur, faults>>

\* A site publishes a token; this one does so before it consumes.
Publish(t) ==
    /\ t.site = MySite => pc = "idle"
    /\ Put(PathOf(t), t)
    /\ Touch(LinksAt(PathOf(t)) \cup {t.link})

\* An operator deletes the last version of a token, or destroys its key.
Withdraw(p) ==
    /\ Holds(p)
    /\ Put(p, Deleted) \/ Put(p, Absent)
    /\ Touch(LinksAt(p))

Destroy(p) == vault[p] = Deleted /\ Put(p, Absent) /\ Touch({})

Reconfigure(c) ==
    /\ c # config
    /\ Change
    /\ config' = c
    /\ UNCHANGED <<vault, touched, store, pc, fetched, lists, cur, faults>>

------------------------------------------------------------------------------
Init ==
    /\ config \in Configs
    /\ vault = [p \in Path |-> Absent]
    /\ links = [n \in Name |-> None]
    /\ secrets = [n \in Name |-> None]
    /\ pc = "idle"
    /\ zones = << >>
    /\ next = 1
    /\ gets = {}
    /\ existing = {}
    /\ available = << >>
    /\ dels = {}
    /\ updates = {}
    /\ creates = {}
    /\ cur = None
    /\ failed = {}
    /\ touched = {}
    /\ changes = 0
    /\ faults = 0

Fetch == Begin \/ Load \/ LoadFails \/ List \/ GetToken \/ GetFails
         \/ Plan \/ PlanPanics

Delete ==
    \/ \E e \in dels : \/ KubeDelete(e) \/ KubeDeleteFails(e)
                       \/ SystemDelete(e) \/ SystemDeletePanics(e)
    \/ Platform = "kube" /\ KubeDeleteSecret
    \/ Platform = "system" /\ SystemDeleteSecret

Save == (\E i \in DOMAIN available : SaveFirst(i)) \/ SaveSecond

Mishap ==
    \/ ListFails
    \/ \E i \in DOMAIN available : SaveFails(i)
    \/ Crash

Pass == Fetch \/ Delete \/ Save \/ End

Others ==
    \/ \E t \in Tokens : Publish(t)
    \/ \E p \in Path : Withdraw(p) \/ Destroy(p)
    \/ \E c \in Configs : Reconfigure(c)

Next == Pass \/ Mishap \/ Restart \/ Others

(***************************************************************************)
(* A pass is one goroutine running straight-line code, and the controller  *)
(* starts another every minute: its steps are weakly fair.  Nothing makes  *)
(* a fault or a change of the others happen.                               *)
(***************************************************************************)
Spec == Init /\ [][Next]_vars /\ WF_vars(Pass)

------------------------------------------------------------------------------
(* Properties. *)

\* The values the variables take.  Two parts are more than types: the two
\* halves of createList (vanform.go:148-180) have no token in common, and a
\* Delete or a Save is in progress exactly when cur says which.
TypeOK ==
    /\ config \in Configs
    /\ vault \in [Path -> Tokens \cup {Absent, Deleted}]
    /\ links \in [Name -> LinkRecord \cup {None}]
    /\ secrets \in [Name -> Data \cup {None}]
    /\ pc \in {"idle", "load", "fetch", "delete", "deleteSecret", "save",
               "panicked"}
    /\ zones \in Configs \cup {<< >>}
    /\ next \in 1..(Len(zones) + 1)
    /\ gets \subseteq Path
    /\ existing \subseteq LoadedRecord
    /\ available \in Seq(Tokens)
    /\ dels \subseteq existing
    /\ updates \subseteq DOMAIN available
    /\ creates \subseteq DOMAIN available
    /\ updates \cap creates = {}
    /\ cur \in LoadedRecord \cup {None}
    /\ cur # None <=> pc \in {"deleteSecret", "save"}
    /\ failed \subseteq Zone
    /\ touched \subseteq Name
    /\ changes \in 0..MaxChanges
    /\ faults \in 0..MaxFaults

SecretsIntact ==
    \A n \in Name : links[n] # None => secrets[links[n].secret] # None

\* On Kubernetes every Link of the VAN names a Secret that is there, between
\* any two calls of Save and Delete, after failed calls and crashes, and with
\* Links that share a Secret (kube/token.go:67-74, 154-186).  Without it Load
\* fails (kube/token.go:46-49), and with Load every later pass.
LinkHasSecret == Platform = "kube" => SecretsIntact

\* The paths where zone list zs makes a token of another site available.
OffersOf(zs) ==
    {p \in Path : Holds(p) /\ vault[p].site # MySite /\ HasZone(zs, p[1])}

\* A delete planned for e is called for: Vault was not changed under the
\* pass, e's zone is in the configuration, and yet something other than e, or
\* nothing, is on offer under its name.
DeleteDue(e) ==
    \/ e.link \in touched
    \/ ~HasZone(zones, e.targetZone)
    \/ \A p \in OffersOf(zones) : vault[p].link # e.link
    \/ \E p \in OffersOf(zones) : vault[p].link = e.link /\ ~Equals(e, vault[p])

Unlisted(e) ==
    \E p \in OffersOf(zones) : vault[p].link = e.link /\ p[1] \in failed

SaveDue(t) ==
    \/ t.link \in touched
    \/ \E p \in OffersOf(zones) : vault[p] = t

\* A pass deletes a link only if the zones it could list call for it, and
\* saves only what another site offers this one (vanform.go:148-180): a Get
\* that fails half way (vault.go:100-104) must not pass for a token withdrawn,
\* nor this site's own tokens for those of another.
PassSound ==
    /\ \A e \in dels : DeleteDue(e) \/ Unlisted(e)
    /\ \A i \in updates \cup creates : SaveDue(available[i])

\* A link whose token is still on offer, unchanged, is not deleted.
NoNeedlessDelete == \A e \in dels : DeleteDue(e)

\* Passes without failures leave no Secret that no Link names
\* (kube/token.go:154-186): the last Link that shares a Secret takes it along.
NoOrphanSecret ==
    faults = 0 /\ pc = "idle" =>
        \A s \in Name : secrets[s] # None =>
            \E n \in Name : links[n] # None /\ links[n].secret = s

\* The program does not die of a nil dereference.
NoPanic == pc # "panicked"

Position(p) ==
    CHOOSE i \in DOMAIN config :
        /\ config[i].name = p[1]
        /\ \A j \in DOMAIN config : config[j].name = p[1] => i <= j

ListedBefore(p, q) ==
    \/ Position(p) < Position(q)
    \/ Position(p) = Position(q) /\ KeyRank[p] < KeyRank[q]

\* Of the tokens offered under one link name the first in order counts.
Desired ==
    LET offers == OffersOf(config)
    IN  {vault[p] : p \in {o \in offers :
            \A q \in offers : vault[q].link = vault[o].link => ~ListedBefore(q, o)}}

\* Links that name one Secret agree on its contents: the publisher takes them
\* from one Secret (kube/token.go:97, 134).
Coherent ==
    \A t, u \in Desired : t.secret = u.secret => t.data = u.data

\* Reconciliation converges: once failures and changes are over, the links of
\* the site come to be the tokens on offer to its zones and stay so
\* (vanform.go:148-198), provided links that share a Secret agree on it and
\* no Link has lost its Secret for good.
Converges ==
    <>[](pc # "panicked" /\ (pc = "idle" => SecretsIntact))
        => <>[](Coherent => Loaded = Desired)

=============================================================================
