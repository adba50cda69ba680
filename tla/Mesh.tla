-------------------------------- MODULE Mesh --------------------------------
(***************************************************************************)
(* What the sites of a VAN are promised (README.md of the repository):     *)
(* a site that is reachable from the zone of another comes to be linked    *)
(* from there with its present certificate.  Meanwhile links may come and  *)
(* go, but one is made only where the publisher once wanted it, with a     *)
(* certificate it has issued, and never with one older than the last.      *)
(***************************************************************************)
EXTENDS Integers

CONSTANTS
    Site,
    MaxCert             \* bound on the certificates a site is issued

\* The publisher of a link, and the site that has the link.
Pair == {p \in Site \X Site : p[1] # p[2]}

VARIABLES
    cert,               \* the present certificate of each site, 0 for none
    wanted,             \* the pairs to be linked
    ever,               \* those that were to be linked at some time
    link,               \* the certificate in the link of each pair, 0 for no link
    last                \* that of the latest link each pair has had

vars == <<cert, wanted, ever, link, last>>

Init ==
    /\ cert = [s \in Site |-> 0]
    /\ wanted \in SUBSET Pair
    /\ ever = wanted
    /\ link = [p \in Pair |-> 0]
    /\ last = [p \in Pair |-> 0]

Renew(s) ==
    /\ cert[s] < MaxCert
    /\ cert' = [cert EXCEPT ![s] = @ + 1]
    /\ UNCHANGED <<wanted, ever, link, last>>

Rearrange ==
    /\ wanted' \in SUBSET Pair
    /\ ever' = ever \cup wanted'
    /\ UNCHANGED <<cert, link, last>>

Connect(p) ==
    /\ link[p] = 0
    /\ p \in ever
    /\ \E g \in 1..cert[p[1]] :
        /\ last[p] <= g
        /\ link' = [link EXCEPT ![p] = g]
        /\ last' = [last EXCEPT ![p] = g]
    /\ UNCHANGED <<cert, wanted, ever>>

Disconnect(p) ==
    /\ link' = [link EXCEPT ![p] = 0]
    /\ UNCHANGED <<cert, wanted, ever, last>>

Next ==
    \/ \E s \in Site : Renew(s)
    \/ Rearrange
    \/ \E p \in Pair : Connect(p) \/ Disconnect(p)

\* What may never happen, and what comes to be in the end.
Safety == Init /\ [][Next]_vars

Meshed == \A p \in wanted : cert[p[1]] # 0 /\ link[p] = cert[p[1]]

Spec == Safety /\ <>[]Meshed

=============================================================================
