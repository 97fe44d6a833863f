------------------------------ MODULE Retention -------------------------------
(***************************************************************************)
(* RetentionPolicy: apply() awaits cleanup() once for its default and once *)
(* for every rule that deletes, and addRule() and removeRule() change the  *)
(* list that its loop walks by index while it waits.                       *)
(*                                                                         *)
(* Rules are the entries of the list, another one each time one is added;  *)
(* their ages and filters reach no statement.                              *)
(* The counts of the result are left out, and a dry run, which awaits and  *)
(* changes nothing.  To the streams and the clients of the dashboard a     *)
(* policy is a cleanup, which they meet anyhow: a behaviour follows either *)
(* them, with the policy "elsewhere", or the policy.                       *)
(***************************************************************************)
EXTENDS Dashboard, Sequences

CONSTANTS
    Rules,       \* the entries of the list
    Archived,    \* those whose action is "archive"
    Applies,     \* calls of apply that overlap (a model bound)
    MaxDropped   \* removals during one of them (a model bound)

ASSUME RulesAssumption == Archived \subseteq Rules /\ MaxDropped \in Nat

VARIABLES
    policy,    \* whether the behaviour follows it
    rules,     \* the list of the rules
    applying,  \* where a call of apply stands
    passed,    \* the places of the list its loop has passed
    seen,      \* the entries it found there
    dropped    \* the removals since it began

callVars == <<applying, passed, seen, dropped>>
policyVars == <<policy, rules, callVars>>
retentionVars == <<dashboardVars, policyVars>>

RetentionTypeOK ==
    /\ DashboardTypeOK
    /\ policy \in {"elsewhere", "here"}
    /\ rules \in Seq(Rules)
    /\ applying \in [Applies -> {"no", "waiting", "returned"}]
    /\ passed \in [Applies -> Nat]
    /\ seen \in [Applies -> SUBSET Rules]
    /\ dropped \in [Applies -> Nat]

RetentionInit ==
    /\ DashboardInit
    /\ policy \in {"elsewhere", "here"}
    /\ policy = "here" => viewer = "away"
    /\ rules = <<>>
    /\ applying = [a \in Applies |-> "no"]
    /\ passed = [a \in Applies |-> 0]
    /\ seen = [a \in Applies |-> {}]
    /\ dropped = [a \in Applies |-> 0]

------------------------------------------------------------------------------
Listed(x) == \E i \in DOMAIN rules : rules[i] = x

\* The entry is a new one: no loop has seen it, though an older one that is gone
\* may have borne its name.
AddRule(x) ==
    /\ policy = "here"
    /\ ~Listed(x)
    /\ rules' = Append(rules, x)
    /\ seen' = [a \in Applies |-> seen[a] \ {x}]
    /\ UNCHANGED <<dashboardVars, policy, applying, passed, dropped>>

\* splice: the rules behind it move up.
Without(i) ==
    [j \in 1..(Len(rules) - 1) |-> IF j < i THEN rules[j] ELSE rules[j + 1]]

RemoveRule(i) ==
    /\ policy = "here"
    /\ \A a \in Applies : applying[a] = "waiting" => dropped[a] < MaxDropped
    /\ rules' = Without(i)
    /\ dropped' = [a \in Applies |->
                      IF applying[a] = "waiting" THEN dropped[a] + 1 ELSE dropped[a]]
    /\ UNCHANGED <<dashboardVars, policy, applying, passed, seen>>

------------------------------------------------------------------------------
\* apply() awaits its first cleanup.
Apply(a) ==
    /\ policy = "here"
    /\ applying[a] # "waiting"
    /\ applying' = [applying EXCEPT ![a] = "waiting"]
    /\ passed' = [passed EXCEPT ![a] = 0]
    /\ seen' = [seen EXCEPT ![a] = {}]
    /\ dropped' = [dropped EXCEPT ![a] = 0]
    /\ UNCHANGED <<dashboardVars, policy, rules>>

CleanedUp == OutboxStep /\ \E dead \in SUBSET Events : Cleanup(dead)

NothingToClean ==
    /\ \A e \in Events : rows[e] # "COMPLETED"
    /\ UNCHANGED dashboardVars

\* Mutant of LookedAt: the loop starts one place too far.
LookedAtButOne(a, n) == {rules[i] : i \in {j \in DOMAIN rules : passed[a] + 1 < j /\ j <= n}}

\* The rules the loop looks at on its way to place n.
LookedAt(a, n) == {rules[i] : i \in {j \in DOMAIN rules : passed[a] < j /\ j <= n}}

\* The loop reaches a rule that deletes, and awaits its cleanup.
NextRule(a) ==
    \E n \in DOMAIN rules :
        /\ passed[a] < n /\ rules[n] \notin Archived
        /\ \A i \in DOMAIN rules : passed[a] < i /\ i < n => rules[i] \in Archived
        /\ passed' = [passed EXCEPT ![a] = n]
        /\ seen' = [seen EXCEPT ![a] = @ \cup LookedAt(a, n)]
        /\ UNCHANGED <<applying, dropped>>

\* It finds none, and apply returns.
Returns(a) ==
    /\ \A i \in DOMAIN rules : passed[a] < i => rules[i] \in Archived
    /\ applying' = [applying EXCEPT ![a] = "returned"]
    /\ seen' = [seen EXCEPT ![a] = @ \cup LookedAt(a, Len(rules))]
    /\ passed' = [passed EXCEPT ![a] = 0]
    /\ UNCHANGED dropped

Deleted(a) ==
    /\ applying[a] = "waiting"
    /\ CleanedUp \/ NothingToClean
    /\ NextRule(a) \/ Returns(a)
    /\ UNCHANGED <<policy, rules>>

\* The statement throws, or only its answer is lost, and apply with it: the
\* rules that are left are not applied.
Rejected(a) ==
    /\ applying[a] = "waiting"
    /\ CleanedUp \/ UNCHANGED dashboardVars
    /\ applying' = [applying EXCEPT ![a] = "no"]
    /\ passed' = [passed EXCEPT ![a] = 0]
    /\ UNCHANGED <<policy, rules, seen, dropped>>

------------------------------------------------------------------------------
PolicyStep ==
    \/ \E x \in Rules : AddRule(x)
    \/ \E i \in DOMAIN rules : RemoveRule(i)
    \/ \E a \in Applies : Apply(a) \/ Deleted(a) \/ Rejected(a)

WithoutPolicy ==
    /\ OutboxStep \/ (policy = "elsewhere" /\ (ReplaysStep \/ ClientStep))
    /\ UNCHANGED policyVars

RetentionNext == WithoutPolicy \/ PolicyStep

RetentionSpec == RetentionInit /\ [][RetentionNext]_retentionVars

------------------------------------------------------------------------------
\* A rule that is removed while apply waits moves those behind it out of the
\* loop's way, but never more of them than rules were removed: of the rules
\* in the list when apply returns, its loop has looked at all but as many as
\* were removed while it waited, whatever was added meanwhile.
RulesAreMissedForRemovals ==
    [][\A a \in Applies :
          applying[a] = "waiting" /\ applying'[a] = "returned" =>
              Cardinality({i \in DOMAIN rules' : rules'[i] \notin seen'[a]})
                  <= dropped[a]]_retentionVars
==============================================================================
