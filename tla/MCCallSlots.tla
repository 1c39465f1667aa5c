----------------------------- MODULE MCCallSlots -----------------------------
(***************************************************************************)
(* Small instances of CallSlots.  Three attempts compete for two slots of  *)
(* one organization; two of them belong to a campaign that may run one     *)
(* call at a time.  Every attempt has a workflow run of its own.            *)
(***************************************************************************)
EXTENDS CallSlots, TLC

CONSTANTS a1, a2, a3, k1, o1, camp

MCAttempts == {a1, a2, a3}
TwoAttempts == {a1, a3}
MCOrgs == {o1}
MCScopes == {camp}
OneCallback == {k1}

MCOrgOf == [a \in Attempts |-> o1]
MCScopeOf == [a \in Attempts |-> IF a = a3 THEN NoScope ELSE camp]
MCOrgLimit == [o \in MCOrgs |-> 2]
OneSlot == [o \in MCOrgs |-> 1]
MCScopeLimit == [c \in MCScopes |-> 1]

\* Every attempt gets a workflow run of its own (and lends it its name):
\* campaign dispatch, inbound calls, agent streams, the public agent API.
FreshRuns == [a \in Attempts |-> a]

\* The two attempts of the campaign are interchangeable under FreshRuns.
CampaignSymmetry == Permutations({a1, a2})
=============================================================================
