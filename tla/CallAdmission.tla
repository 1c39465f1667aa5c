---------------------------- MODULE CallAdmission ----------------------------
(***************************************************************************)
(* What CallSlots promises its callers, without Redis: a permit is granted *)
(* only while the organization and the scope have room, a call needs a     *)
(* permit to start and keeps it until it ends, and a permit that no call   *)
(* is using may be withdrawn at any time (released, or expired after its   *)
(* release was lost), several at once.                                     *)
(***************************************************************************)
EXTENDS Integers, FiniteSets

CONSTANTS Calls, Orgs, Scopes, OrgOf, ScopeOf, OrgLimit, ScopeLimit

VARIABLES permits,  \* calls that hold a permit
          talking   \* calls in progress

vars == <<permits, talking>>

Init == permits = {} /\ talking = {}

OrgHasRoom(o) == Cardinality({c \in permits : OrgOf[c] = o}) < OrgLimit[o]

ScopeHasRoom(s) == Cardinality({c \in permits : ScopeOf[c] = s}) < ScopeLimit[s]

Admit(c) ==
  /\ c \notin permits
  /\ OrgHasRoom(OrgOf[c])
  /\ ScopeOf[c] \in Scopes => ScopeHasRoom(ScopeOf[c])
  /\ permits' = permits \cup {c}
  /\ UNCHANGED talking

Start(c) ==
  /\ c \in permits \ talking
  /\ talking' = talking \cup {c}
  /\ UNCHANGED permits

Finish(c) ==
  /\ c \in talking
  /\ talking' = talking \ {c}
  /\ UNCHANGED permits

Withdraw ==
  /\ permits' \subseteq permits
  /\ talking \subseteq permits'
  /\ UNCHANGED talking

Next == Withdraw \/ \E c \in Calls : Admit(c) \/ Start(c) \/ Finish(c)

Spec == Init /\ [][Next]_vars
=============================================================================
