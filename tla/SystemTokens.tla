----------------------------- MODULE SystemTokens -----------------------------
(***************************************************************************)
(* The token handler of a System site (internal/van/system/token.go): the  *)
(* Link-<name>.yaml and Secret-<name>.yaml files of a namespace's input    *)
(* directory.                                                              *)
(***************************************************************************)
EXTENDS VanTokens

CONSTANT Name           \* names of Links and Secrets

VARIABLES
    links,              \* the auto-van Link file of each name, or None
    secrets             \* the Data in the Secret file of each name, or None

\* A Link whose Secret file is missing is loaded with a nil Secret.
Loaded ==
    {TokenOf(links[n], secrets[links[n].secret]) :
        n \in {m \in Name : links[m] # None}}

RemoveLink(t) ==
    /\ links' = [links EXCEPT ![t.link] = None]
    /\ UNCHANGED secrets

\* The Secret file goes whether or not another Link names it.
RemoveSecret(t) ==
    /\ secrets' = [secrets EXCEPT ![t.secret] = None]
    /\ UNCHANGED links

WriteLink(t) ==
    /\ links' = [links EXCEPT ![t.link] = LinkOf(t)]
    /\ UNCHANGED secrets

WriteSecret(t) ==
    /\ secrets' = [secrets EXCEPT ![t.secret] = t.data]
    /\ UNCHANGED links

=============================================================================
