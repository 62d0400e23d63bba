------------------------------ MODULE SnsFilter ------------------------------
(***************************************************************************)
(* Filter policies of SNS subscriptions: which messages a subscription     *)
(* gets.  A policy has, for some keys, a list of conditions; a key is      *)
(* served by any of its conditions, a policy by all of its keys.           *)
(***************************************************************************)
EXTENDS Integers, Sequences, SequencesExt

(* A value is what a message has under a key, as the three readings that   *)
(* conditions make of it: a text, the set of the number it reads as, if it *)
(* does, and the set of the truth value it reads as.  A message has its    *)
(* attributes, a function from their keys, and its body, the function that *)
(* its payload reads as: an empty one if the payload is no JSON object.    *)
Value(text, number, bool) == [text |-> text, number |-> number, bool |-> bool]

(* What the keys of a policy are looked up in. *)
ScopeValues(scope, message) ==
  IF scope = "MessageAttributes" THEN message.attributes ELSE message.body

Compares(number, operator, reference) ==
  CASE operator = "="  -> number = reference
    [] operator = ">"  -> number > reference
    [] operator = ">=" -> number >= reference
    [] operator = "<"  -> number < reference
    [] operator = "<=" -> number <= reference
    [] OTHER -> FALSE

(* Pairs of an operator and a reference, at least one, that hold together. *)
NumericCondition(pairs, value) ==
  /\ pairs # <<>>
  /\ \E number \in value.number :
       \A i \in DOMAIN pairs : Compares(number, pairs[i].operator, pairs[i].reference)

(* Conditions that are a literal. *)
LiteralCondition(condition, value) ==
  \/ condition.kind = "text" /\ value.text = condition.text
  \/ condition.kind = "number" /\ condition.number \in value.number
  \/ condition.kind = "bool" /\ condition.bool \in value.bool

(* Conditions that are an object with one operator, but for anything-but. *)
PlainCondition(condition, value) ==
  \/ LiteralCondition(condition, value)
  \/ condition.kind = "exists" /\ condition.exists
  \/ condition.kind = "prefix" /\ IsPrefix(condition.text, value.text)
  \/ condition.kind = "numeric" /\ NumericCondition(condition.pairs, value)

AnythingBut(conditions, value) ==
  ~\E i \in DOMAIN conditions : PlainCondition(conditions[i], value)

(* A condition on a key that the message may not have. *)
Condition(condition, key, values) ==
  IF key \in DOMAIN values
  THEN \/ PlainCondition(condition, values[key])
       \/ condition.kind = "anything-but" /\ AnythingBut(condition.conditions, values[key])
  ELSE condition.kind = "exists" /\ ~condition.exists

RuleSet(conditions, key, values) ==
  \E i \in DOMAIN conditions : Condition(conditions[i], key, values)

(* Mistaken variant of EvaluateFilter: one key that is served is enough. *)
EvaluateFilterAny(policy, message) ==
  \/ DOMAIN policy.rules = {}
  \/ \E key \in DOMAIN policy.rules :
       RuleSet(policy.rules[key], key, ScopeValues(policy.scope, message))

EvaluateFilter(policy, message) ==
  \A key \in DOMAIN policy.rules :
    RuleSet(policy.rules[key], key, ScopeValues(policy.scope, message))

(* A policy that is no JSON object, or a scope of another name, is an      *)
(* error for every message, unless there are no rules to evaluate.         *)
NoFilter == [valid |-> TRUE, scope |-> "MessageAttributes", rules |-> <<>>]

FilterFails(policy) ==
  \/ ~policy.valid
  \/ DOMAIN policy.rules # {} /\ policy.scope \notin {"MessageAttributes", "MessageBody"}
-----------------------------------------------------------------------------
(* What subscribers expect of any policy: a further condition on a key     *)
(* lets no message out that came in, a further key lets none in, a key     *)
(* without conditions lets none in, and of a value and its anything-but    *)
(* exactly one serves a message that has the key.                          *)
Laws(policy, message, key, condition) ==
  LET values == ScopeValues(policy.scope, message)
      with(conditions) == [policy EXCEPT !.rules =
                             [k \in DOMAIN policy.rules \cup {key} |->
                                IF k = key THEN conditions ELSE policy.rules[k]]]
      without == [policy EXCEPT !.rules = [k \in DOMAIN policy.rules \ {key} |-> policy.rules[k]]]
      had == IF key \in DOMAIN policy.rules THEN policy.rules[key] ELSE <<>>
      accepted == EvaluateFilter(policy, message)
  IN  /\ key \in DOMAIN policy.rules /\ accepted =>
           EvaluateFilter(with(Append(had, condition)), message)
      /\ EvaluateFilter(with(<<condition>>), message) => EvaluateFilter(without, message)
      /\ ~EvaluateFilter(with(<<>>), message)
      /\ EvaluateFilter(without, message) /\ key \in DOMAIN values /\ condition.kind # "anything-but" =>
           (EvaluateFilter(with(<<condition>>), message)
              # EvaluateFilter(with(<<[kind |-> "anything-but", conditions |-> <<condition>>]>>), message))
=============================================================================
