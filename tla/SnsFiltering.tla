----------------------------- MODULE SnsFiltering -----------------------------
(***************************************************************************)
(* The evaluations of filter policies: each subscription of a topic has    *)
(* its policy evaluated on each message that is dispatched (SnsFilter), by *)
(* calls that share no state.  filtering is the call that was made last.   *)
(***************************************************************************)
EXTENDS SnsFilter

CONSTANTS
  FilterCondition,  \* what a rule lists, and what the laws add to a rule
  Policies,         \* the policies of subscriptions
  FilterMessages,   \* the messages that are dispatched
  FilterKeys        \* the keys whose rules the laws change

(* A policy that FilterFails rejects is not evaluated.                     *)
ASSUME PoliciesAssumption ==
  \A policy \in Policies :
    /\ policy = [valid |-> TRUE, scope |-> policy.scope, rules |-> policy.rules]
    /\ policy.rules \in [DOMAIN policy.rules -> Seq(FilterCondition)]

VARIABLE filtering

Filterings ==
  [policy : Policies, message : FilterMessages, key : FilterKeys, condition : FilterCondition]

NoFiltering == [key |-> "none"]

FilterInit == filtering = NoFiltering

(* The dispatcher evaluates a policy.                                      *)
Filter(f) == filtering' = f

FilterNext == \E f \in Filterings : Filter(f)

FilterSpec == FilterInit /\ [][FilterNext]_filtering
-----------------------------------------------------------------------------
(* What subscribers expect of any policy holds of every evaluation: see    *)
(* Laws.                                                                   *)
FilterLaws ==
  filtering # NoFiltering => Laws(filtering.policy, filtering.message, filtering.key, filtering.condition)
=============================================================================
