---------------------------- MODULE MCManagement -----------------------------
(***************************************************************************)
(* What administrators and users do to Resources, for TLC: publication,    *)
(* access, policies, the tools of an MCP server and its authorization.     *)
(* The five keep separate rows: a behaviour follows one of them, its       *)
(* focus, and the others stay as they began.                               *)
(***************************************************************************)
EXTENDS ResourcePublication, AccessEntitlements, PolicyAuthoring, McpDiscovery, McpOAuth, TLC

CONSTANTS Components,  \* the components a behaviour may follow
          t1, t2,      \* two transactions
          alice, bob   \* two administrators

VARIABLE focus

managementVars == <<publicationVars, accessVars, policyVars, discoveryVars, oAuthVars>>

MCTransactions == {t1, t2}
MCActors == {alice, bob}
AccessSymmetry == Permutations(MCTransactions)
AuthoringSymmetry == Permutations(MCActors)

\* Bound: ids, health scans and setbacks are four in a behaviour, all together.
PublicationBound == ids + inputs.health + setbacks <= 4

\* Bound: a behaviour with direct grants under a key ends before the Resource's
\* lifecycle changes; grants without one, approvals and automatic grants meet
\* every change.
KeyedGrants == \/ \E t \in Transactions : tx[t].key \in GrantKeys
               \/ \E e \in EntIds : ents[e].key \in GrantKeys
Changing == \/ lifecycle \in {"DEPRECATED", "RETIRED"}
            \/ \E t \in Transactions : tx[t].life \in {"DEPRECATED", "RETIRED"}
AccessBound == ~(KeyedGrants /\ Changing)

\* A component out of focus begins in one of its initial states.
Init ==
    /\ focus \in Components
    /\ PublicationInit /\ AccessInit /\ PolicyInit /\ DiscoveryInit /\ OAuthInit
    /\ focus # "access" => visibility = "PUBLIC"
    /\ focus # "policy" => kind = "RESOURCE"
    /\ focus # "discovery" => upstream = [t \in Tools |-> DiscoveryNone]
    /\ focus # "oauth" => site = CHOOSE s \in Sites : TRUE

Next ==
    \/ /\ focus = "publication" /\ PublicationNext /\ PublicationBound'
       /\ UNCHANGED <<focus, accessVars, policyVars, discoveryVars, oAuthVars>>
    \/ /\ focus = "access" /\ AccessNext /\ AccessBound'
       /\ UNCHANGED <<focus, publicationVars, policyVars, discoveryVars, oAuthVars>>
    \/ /\ focus = "policy" /\ PolicyNext
       /\ UNCHANGED <<focus, kind, publicationVars, accessVars, discoveryVars, oAuthVars>>
    \/ /\ focus = "discovery" /\ DiscoveryNext
       /\ UNCHANGED <<focus, publicationVars, accessVars, policyVars, oAuthVars>>
    \/ /\ focus = "oauth" /\ OAuthNext
       /\ UNCHANGED <<focus, publicationVars, accessVars, policyVars, discoveryVars>>

Spec == Init /\ [][Next]_<<focus, managementVars>>
=============================================================================
