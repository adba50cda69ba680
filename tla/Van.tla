-------------------------------- MODULE Van --------------------------------
(***************************************************************************)
(* The sites of a VAN at work together: each runs Process of               *)
(* internal/van/common/vanform.go again and again, all over one Vault.     *)
(* A pass logs in, publishes the site's token and then consumes those of   *)
(* the others; whatever goes wrong in a part of it, the parts after it are *)
(* left to the next pass.                                                  *)
(*                                                                         *)
(* The halves are modelled call by call in Publish and Consume.  Here a    *)
(* site is in one zone, a token is its certificate's age, and a Link is    *)
(* one with its Secret; what is kept is every call to Vault, the order of  *)
(* the calls, and all their interleavings with the passes of other sites.  *)
(***************************************************************************)
EXTENDS Integers

CONSTANTS
    Site, Zone,
    Place,              \* the zone of each site
    Configs,            \* the sets of zones each site may be reachable from
    MaxCert,            \* bound on the certificates a site is issued
    MaxChanges,         \* bound on changes of configurations and withdrawals
    MaxFaults           \* bound on failed calls and crashes

ASSUME PlaceAssumption == Place \in [Site -> Zone]
ASSUME ConfigsAssumption == Configs \in [Site -> SUBSET SUBSET Zone]
ASSUME BoundAssumption == MaxCert \in Nat /\ MaxChanges \in Nat /\ MaxFaults \in Nat

Pair == {p \in Site \X Site : p[1] # p[2]}
Age == 0..MaxCert

VARIABLES
    config,             \* the zones each site is to be reachable from
    certified, cert,    \* sites with a Certificate; the age of its Secret, or 0
    vault,              \* the token at each <<site, target zone>>, or 0
    links,              \* the token in the Link of each pair, or 0
    pc, zones,          \* of each site: where its pass is; the config it loaded
    token,              \* ... the token generated
    todo, puts,         \* ... zones to look up, and to publish to
    gets, offer,        \* ... keys to get; the token found under each, or 0
    dels, adds,         \* ... what deleteList and createList have left
    blind,              \* ... has List failed in this pass? (history)
    ever, last,         \* as in Mesh (history)
    withdrawn,          \* tokens an operator has deleted (history)
    changes, faults     \* how much of the bounds is used

local == <<zones, token, todo, puts, gets, offer, dels, adds, blind>>
history == <<ever, last, withdrawn>>
vars == <<config, certified, cert, vault, links, pc, local, history, changes, faults>>

World == <<config, certified, cert, ever, withdrawn, changes>>

Goes(s, from, to) == pc[s] = from /\ pc' = [pc EXCEPT ![s] = to]

Fault == faults < MaxFaults /\ faults' = faults + 1

Nothing == [q \in Site |-> 0]

\* Mutant: what was fetched is not forgotten.
ForgetSome(s) ==
    /\ zones' = [zones EXCEPT ![s] = {}] /\ token' = [token EXCEPT ![s] = 0]
    /\ todo' = [todo EXCEPT ![s] = {}] /\ puts' = [puts EXCEPT ![s] = {}]
    /\ gets' = [gets EXCEPT ![s] = {}] /\ UNCHANGED offer
    /\ dels' = [dels EXCEPT ![s] = {}] /\ adds' = [adds EXCEPT ![s] = {}]
    /\ blind' = [blind EXCEPT ![s] = FALSE]

Forget(s) ==
    /\ zones' = [zones EXCEPT ![s] = {}] /\ token' = [token EXCEPT ![s] = 0]
    /\ todo' = [todo EXCEPT ![s] = {}] /\ puts' = [puts EXCEPT ![s] = {}]
    /\ gets' = [gets EXCEPT ![s] = {}] /\ offer' = [offer EXCEPT ![s] = Nothing]
    /\ dels' = [dels EXCEPT ![s] = {}] /\ adds' = [adds EXCEPT ![s] = {}]
    /\ blind' = [blind EXCEPT ![s] = FALSE]

Stop(s) ==
    /\ pc' = [pc EXCEPT ![s] = "idle"]
    /\ Forget(s)
    /\ UNCHANGED <<World, vault, links, last>>

------------------------------------------------------------------------------
(* Process: LoadConfig, Login, and publishTokens. *)

\* The site is ready.
Begin(s) ==
    /\ Goes(s, "idle", "config")
    /\ UNCHANGED <<World, vault, links, last, local, faults>>

LoadConfig(s) ==
    /\ Goes(s, "config", "login")
    /\ zones' = [zones EXCEPT ![s] = config[s]]
    /\ UNCHANGED <<World, vault, links, last, token, todo, puts, gets, offer, dels,
                   adds, blind, faults>>

Login(s) ==
    /\ Goes(s, "login", IF zones[s] = {} THEN "get" ELSE "generate")
    /\ UNCHANGED <<World, vault, links, last, local, faults>>

\* The ConfigMap or the Vault Secret is not there, or not readable.
LoadConfigFails(s) == pc[s] = "config" /\ Fault /\ Stop(s)

LoginFails(s) == pc[s] = "login" /\ Fault /\ Stop(s)

CreateCertificate(s) ==
    /\ Goes(s, "generate", "secret")
    /\ certified' = certified \cup {s}
    /\ UNCHANGED <<config, cert, ever, withdrawn, changes, vault, links, last, local,
                   faults>>

GetSecret(s) ==
    /\ Goes(s, "secret", "get")
    /\ cert[s] # 0
    /\ token' = [token EXCEPT ![s] = cert[s]]
    /\ todo' = [todo EXCEPT ![s] = zones[s]]
    /\ UNCHANGED <<World, vault, links, last, zones, puts, gets, offer, dels, adds,
                   blind, faults>>

\* Without its own token a site ends the pass, and consumes nothing.
GetSecretGivesUp(s) ==
    /\ pc[s] = "secret"
    /\ cert[s] = 0
    /\ Stop(s)
    /\ UNCHANGED faults

\* Mutant: a token that is there counts as published.
OutdatedIfMissing(s, z) == vault[<<s, z>>] = 0

Outdated(s, z) == vault[<<s, z>>] # token[s]

\* A token that cannot be read is published again.
GetPublishedToken(s, z) ==
    /\ pc[s] = "get"
    /\ z \in todo[s]
    /\ todo' = [todo EXCEPT ![s] = @ \ {z}]
    /\ \/ /\ puts' = IF Outdated(s, z) THEN [puts EXCEPT ![s] = @ \cup {z}] ELSE puts
          /\ UNCHANGED faults
       \/ /\ Fault
          /\ puts' = [puts EXCEPT ![s] = @ \cup {z}]
    /\ UNCHANGED <<World, vault, links, last, pc, zones, token, gets, offer, dels, adds,
                   blind>>

PublishToken(s, z) ==
    /\ pc[s] = "get" /\ todo[s] = {}
    /\ z \in puts[s]
    /\ puts' = [puts EXCEPT ![s] = @ \ {z}]
    /\ vault' = [vault EXCEPT ![<<s, z>>] = token[s]]
    /\ UNCHANGED <<World, links, last, pc, zones, token, todo, gets, offer, dels, adds,
                   blind, faults>>

PublishTokenFails(s) ==
    /\ pc[s] = "get" /\ todo[s] = {}
    /\ puts[s] # {}
    /\ Fault
    /\ Stop(s)

------------------------------------------------------------------------------
(* consumeTokens. *)

List(s) ==
    /\ todo[s] = {} /\ puts[s] = {}
    /\ Goes(s, "get", "fetch")
    /\ gets' = [gets EXCEPT ![s] = {q \in Site : vault[<<q, Place[s]>>] # 0}]
    /\ UNCHANGED <<World, vault, links, last, zones, token, todo, puts, offer, dels, adds,
                   blind, faults>>

\* A List that fails finds nothing.
ListFails(s) ==
    /\ todo[s] = {} /\ puts[s] = {}
    /\ Goes(s, "get", "fetch")
    /\ Fault
    /\ blind' = [blind EXCEPT ![s] = TRUE]
    /\ UNCHANGED <<World, vault, links, last, zones, token, todo, puts, gets, offer, dels,
                   adds>>

\* Tokens of the site itself are left out.
GetToken(s, q) ==
    /\ pc[s] = "fetch"
    /\ q \in gets[s]
    /\ gets' = [gets EXCEPT ![s] = @ \ {q}]
    /\ offer' = IF q = s THEN offer ELSE [offer EXCEPT ![s][q] = vault[<<q, Place[s]>>]]
    /\ UNCHANGED <<World, vault, links, last, pc, zones, token, todo, puts, dels, adds,
                   blind, faults>>

\* Mutant: a key that cannot be read is skipped.
GetTokenSkips(s) ==
    /\ pc[s] = "fetch"
    /\ Fault
    /\ \E q \in gets[s] : gets' = [gets EXCEPT ![s] = @ \ {q}]
    /\ UNCHANGED <<World, vault, links, last, pc, zones, token, todo, puts, offer, dels,
                   adds, blind>>

\* So does a key that was destroyed meanwhile.
GetTokenFails(s) ==
    /\ pc[s] = "fetch"
    /\ \/ gets[s] # {} /\ Fault
       \/ (\E q \in gets[s] : vault[<<q, Place[s]>>] = 0) /\ UNCHANGED faults
    /\ Stop(s)

Linked(s) == {q \in Site : q # s /\ links[<<q, s>>] # 0}

Plan(s) ==
    /\ gets[s] = {}
    /\ Goes(s, "fetch", "apply")
    /\ dels' = [dels EXCEPT ![s] = {q \in Linked(s) : links[<<q, s>>] # offer[s][q]}]
    /\ adds' = [adds EXCEPT ![s] =
           {q \in Site : offer[s][q] # 0 /\ links[<<q, s>>] # offer[s][q]}]
    /\ UNCHANGED <<World, vault, links, last, zones, token, todo, puts, gets, offer, blind,
                   faults>>

Delete(s, q) ==
    /\ q \in dels[s]
    /\ dels' = [dels EXCEPT ![s] = @ \ {q}]
    /\ \/ links' = [links EXCEPT ![<<q, s>>] = 0] /\ UNCHANGED faults
       \/ Fault /\ UNCHANGED links
    /\ UNCHANGED <<World, vault, last, pc, zones, token, todo, puts, gets, offer, adds,
                   blind>>

\* Mutant: a Link that was not deleted is overwritten.
SaveOver(s, q) ==
    /\ dels[s] = {}
    /\ q \in adds[s]
    /\ adds' = [adds EXCEPT ![s] = @ \ {q}]
    /\ links' = [links EXCEPT ![<<q, s>>] = offer[s][q]]
    /\ last' = [last EXCEPT ![<<q, s>>] = offer[s][q]]
    /\ UNCHANGED <<World, vault, pc, zones, token, todo, puts, gets, offer, dels, blind,
                   faults>>

\* A Link that was not deleted is kept.
Save(s, q) ==
    /\ dels[s] = {}
    /\ q \in adds[s]
    /\ adds' = [adds EXCEPT ![s] = @ \ {q}]
    /\ LET p == <<q, s>>
       IN  \/ /\ links[p] = 0
              /\ links' = [links EXCEPT ![p] = offer[s][q]]
              /\ last' = [last EXCEPT ![p] = offer[s][q]]
              /\ UNCHANGED faults
           \/ links[p] # 0 /\ UNCHANGED <<links, last, faults>>
           \/ Fault /\ UNCHANGED <<links, last>>
    /\ UNCHANGED <<World, vault, pc, zones, token, todo, puts, gets, offer, dels, blind>>

End(s) ==
    /\ pc[s] = "apply"
    /\ dels[s] = {} /\ adds[s] = {}
    /\ Stop(s)
    /\ UNCHANGED faults

Crash(s) == pc[s] # "idle" /\ Fault /\ Stop(s)

------------------------------------------------------------------------------
(* What the others do meanwhile. *)

Change == changes < MaxChanges /\ changes' = changes + 1

\* The Skupper controller issues the Secret of a Certificate, and renews it.
Issue(s) ==
    /\ s \in certified
    /\ cert[s] < MaxCert
    /\ cert' = [cert EXCEPT ![s] = @ + 1]
    /\ UNCHANGED <<config, certified, vault, links, pc, local, history, changes, faults>>

WantedBy(c) == {p \in Pair : Place[p[2]] \in c[p[1]]}

Reconfigure(s, c) ==
    /\ c # config[s]
    /\ Change
    /\ config' = [config EXCEPT ![s] = c]
    /\ ever' = ever \cup WantedBy(config')
    /\ UNCHANGED <<certified, cert, vault, links, pc, local, last, withdrawn, faults>>

Withdraw(t) ==
    /\ vault[t] # 0
    /\ Change
    /\ vault' = [vault EXCEPT ![t] = 0]
    /\ withdrawn' = withdrawn \cup {t}
    /\ UNCHANGED <<config, certified, cert, links, pc, local, ever, last, faults>>

------------------------------------------------------------------------------
Init ==
    /\ config \in [Site -> SUBSET Zone] /\ \A s \in Site : config[s] \in Configs[s]
    /\ certified = {} /\ cert = [s \in Site |-> 0]
    /\ vault = [t \in Site \X Zone |-> 0]
    /\ links = [p \in Pair |-> 0]
    /\ pc = [s \in Site |-> "idle"]
    /\ zones = [s \in Site |-> {}] /\ token = [s \in Site |-> 0]
    /\ todo = [s \in Site |-> {}] /\ puts = [s \in Site |-> {}]
    /\ gets = [s \in Site |-> {}] /\ offer = [s \in Site |-> Nothing]
    /\ dels = [s \in Site |-> {}] /\ adds = [s \in Site |-> {}]
    /\ blind = [s \in Site |-> FALSE]
    /\ ever = WantedBy(config)
    /\ last = [p \in Pair |-> 0]
    /\ withdrawn = {}
    /\ changes = 0 /\ faults = 0

Publishing(s) ==
    \/ CreateCertificate(s) \/ GetSecret(s) \/ GetSecretGivesUp(s)
    \/ \E z \in Zone : GetPublishedToken(s, z) \/ PublishToken(s, z)

Consuming(s) ==
    \/ List(s) \/ (\E q \in Site : GetToken(s, q)) \/ Plan(s)
    \/ (\E q \in Site : Delete(s, q) \/ Save(s, q)) \/ End(s)

Pass(s) == Begin(s) \/ LoadConfig(s) \/ Login(s) \/ Publishing(s) \/ Consuming(s)

Mishap(s) ==
    \/ LoadConfigFails(s) \/ LoginFails(s) \/ PublishTokenFails(s)
    \/ ListFails(s) \/ GetTokenFails(s) \/ Crash(s)

Others ==
    \/ \E s \in Site : Issue(s) \/ \E c \in Configs[s] : Reconfigure(s, c)
    \/ \E t \in Site \X Zone : Withdraw(t)

Next == (\E s \in Site : Pass(s) \/ Mishap(s)) \/ Others

\* Passes go on, another beginning every minute, and a Certificate gets its first
\* Secret.  Nothing makes a certificate be renewed, a call fail, or the others
\* change anything.
Spec ==
    /\ Init /\ [][Next]_vars
    /\ \A s \in Site : WF_vars(Pass(s)) /\ WF_vars(cert[s] = 0 /\ Issue(s))

------------------------------------------------------------------------------
(* Properties. *)

\* The values the variables take.  Between passes a site keeps nothing; in one it
\* puts only the token it has generated, and adds only what it was offered.
TypeOK ==
    /\ config \in [Site -> SUBSET Zone]
    /\ certified \subseteq Site
    /\ cert \in [Site -> Age]
    /\ vault \in [Site \X Zone -> Age]
    /\ links \in [Pair -> Age] /\ last \in [Pair -> Age]
    /\ pc \in [Site -> {"idle", "config", "login", "generate", "secret", "get", "fetch",
                    "apply"}]
    /\ zones \in [Site -> SUBSET Zone] /\ token \in [Site -> Age]
    /\ todo \in [Site -> SUBSET Zone] /\ puts \in [Site -> SUBSET Zone]
    /\ gets \in [Site -> SUBSET Site] /\ offer \in [Site -> [Site -> Age]]
    /\ dels \in [Site -> SUBSET Site] /\ adds \in [Site -> SUBSET Site]
    /\ blind \in [Site -> BOOLEAN]
    /\ ever \subseteq Pair
    /\ changes \in 0..MaxChanges /\ faults \in 0..MaxFaults
    /\ \A s \in Site :
        /\ pc[s] = "idle" => zones[s] = {} /\ offer[s] = Nothing /\ ~blind[s]
        /\ puts[s] # {} => token[s] # 0
        /\ dels[s] \cup adds[s] # {} => pc[s] = "apply"
        /\ \A q \in adds[s] : offer[s][q] # 0 /\ q # s

\* A link with the publisher's present certificate is cut only in a pass that could
\* not list its zone (vault.go:75-79), or if its token was withdrawn: neither
\* the passes of other sites nor failures elsewhere in the pass cut it.
Steadfast ==
    [][\A p \in Pair :
        links[p] = cert[p[1]] /\ links[p] # 0 /\ links'[p] = 0
            => blind[p[2]] \/ <<p[1], Place[p[2]]>> \in withdrawn]_vars

M == INSTANCE Mesh WITH link <- links, wanted <- WantedBy(config)

\* Links are made only for pairs whose publisher wanted them once, with certificates
\* it has issued, and never go back to an older one, however the passes of the
\* sites interleave (vanform.go:25-200).
MeshKept == M!Safety

\* The sites keep all that Mesh promises: in the end, too, every zone a site is to
\* be reachable from is linked with its present certificate (vanform.go:25-200).
Meshes == M!Spec

=============================================================================
