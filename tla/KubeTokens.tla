------------------------------ MODULE KubeTokens ------------------------------
(***************************************************************************)
(* The Kubernetes token handler (internal/van/kube/token.go): the Link and *)
(* Secret resources of one namespace, and the API calls of Load, Save and  *)
(* Delete on them.  Save and Delete are each two calls; the module gives   *)
(* each call, and the module Consume their order.                          *)
(***************************************************************************)
EXTENDS VanTokens

CONSTANT Name           \* names of Links and Secrets

VARIABLES
    links,              \* the auto-van Link of each name, or None
    secrets             \* the Data of the Secret of each name, or None

Present == {n \in Name : links[n] # None}

\* Load gives up at the first Link whose Secret it cannot get.
Loadable == \A n \in Present : secrets[links[n].secret] # None

Loaded == {TokenOf(links[n], secrets[links[n].secret]) : n \in Present}

\* Mutant: Delete takes the Secret along whoever uses it.
SharedSecretIgnored(t) == FALSE

\* Mutant: the token deleted counts as another one that uses the Secret.
SharedSecretOfAny(t) == \E u \in Loaded : u.secret = t.secret

\* Delete keeps a Secret that another loaded token names.
SharedSecret(t) ==
    \E u \in Loaded : u.secret = t.secret /\ u.link # t.link

DeleteLink(t) ==
    /\ links[t.link] # None
    /\ links' = [links EXCEPT ![t.link] = None]
    /\ UNCHANGED secrets

DeleteSecret(t) ==
    /\ secrets' = [secrets EXCEPT ![t.secret] = None]
    /\ UNCHANGED links

\* An AlreadyExists answer is not an error: the stored resource is kept.
CreateSecret(t) ==
    /\ secrets' = [secrets EXCEPT ![t.secret] = IF @ = None THEN t.data ELSE @]
    /\ UNCHANGED links

CreateLink(t) ==
    /\ links' = [links EXCEPT ![t.link] = IF @ = None THEN LinkOf(t) ELSE @]
    /\ UNCHANGED secrets

=============================================================================
