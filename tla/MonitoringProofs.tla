-------------------------- MODULE MonitoringProofs ---------------------------
(***************************************************************************)
(* What the limiter, the alerts, the verdicts and the recoveries keep, for *)
(* any number of rows, producers and overlapping checks.  The section on   *)
(* sums establishes what SumFunction is, which the last theorem rests on.  *)
(***************************************************************************)
EXTENDS Health, FiniteSetTheorems, WellFoundedInduction, TLAPS

\* Fresh rows are PENDING, so the count the limiter reads includes them.
FreshIsPending == fresh \subseteq InStatus("PENDING")

\* Alerts are accepted only within a cooldown: the first one starts it.
AcceptedWhileCooling == \A t \in AlertTypes : t \notin cooling => accepted[t] = 0

\* A check that is over has forgotten what it read.
IdleKnowsNothing == \A c \in Checks : at[c] = "idle" => lag[c] = "unread"

IInv ==
    /\ TypeOK
    /\ IdleKnowsNothing
    /\ FreshIsPending
    /\ OvershootIsBounded
    /\ AcceptedWhileCooling
    /\ AlertsPerCooldown

------------------------------------------------------------------------------
(***************************************************************************)
(* Counting.                                                               *)
(***************************************************************************)
LEMMA Counts ==
    ASSUME TypeOK
    PROVE  /\ IsFiniteSet(fresh) /\ Cardinality(fresh) \in Nat
           /\ IsFiniteSet(allowed) /\ Cardinality(allowed) \in Nat
           /\ Cardinality(allowed) <= Cardinality(Producers)
           /\ Cardinality(Producers) \in Nat \ {0}
           /\ \A t : IsFiniteSet(Posting(t)) /\ Cardinality(Posting(t)) \in Nat
           /\ \A t : Cardinality(Posting(t)) <= Cardinality(Checks)
           /\ Cardinality(Checks) \in Nat
<1>1. fresh \subseteq Events /\ allowed \subseteq Producers
  BY DEF TypeOK
<1>2. \A t : Posting(t) \subseteq Checks
  BY DEF Posting
<1>3. IsFiniteSet(fresh) /\ IsFiniteSet(allowed)
  BY <1>1, EventsAreFinite, ProducersAssumption, FS_Subset
<1>4. Cardinality(allowed) <= Cardinality(Producers)
  BY <1>1, ProducersAssumption, FS_Subset
<1>5. Cardinality(Producers) \in Nat \ {0}
  BY ProducersAssumption, FS_CardinalityType, FS_EmptySet
<1>6. \A t : IsFiniteSet(Posting(t)) /\ Cardinality(Posting(t)) <= Cardinality(Checks)
  BY <1>2, ChecksAssumption, FS_Subset
<1>7. /\ Cardinality(fresh) \in Nat /\ Cardinality(allowed) \in Nat
      /\ Cardinality(Checks) \in Nat
      /\ \A t : Cardinality(Posting(t)) \in Nat
  BY <1>3, <1>6, ChecksAssumption, FS_CardinalityType
<1>8. QED
  BY <1>3, <1>4, <1>5, <1>6, <1>7

\* The limit after a step that lets nobody through.
LEMMA OvershootShrinks ==
    ASSUME IInv, TypeOK',
           \/ fresh' \subseteq fresh /\ allowed' \subseteq allowed
           \/ \E p \in allowed, e \in Events :
                  fresh' = fresh \cup {e} /\ allowed' = allowed \ {p}
    PROVE  OvershootIsBounded'
<1>1. IsFiniteSet(fresh) /\ IsFiniteSet(allowed)
      /\ Cardinality(fresh) \in Nat /\ Cardinality(allowed) \in Nat
      /\ Cardinality(Producers) \in Nat
  BY Counts DEF IInv
<1>2. Cardinality(fresh') \in Nat /\ Cardinality(allowed') \in Nat
  <2>1. fresh' \subseteq Events /\ allowed' \subseteq Producers
    BY DEF TypeOK
  <2>2. QED
    BY <2>1, EventsAreFinite, ProducersAssumption, FS_Subset, FS_CardinalityType
<1>3. CASE fresh' \subseteq fresh /\ allowed' \subseteq allowed
  <2>1. Cardinality(fresh') <= Cardinality(fresh)
    BY <1>1, <1>3, FS_Subset
  <2>2. Cardinality(allowed') <= Cardinality(allowed)
    BY <1>1, <1>3, FS_Subset
  <2>3. QED
    BY <1>1, <1>2, <2>1, <2>2, BacklogAssumption DEF IInv, OvershootIsBounded
<1>4. ASSUME NEW p \in allowed, NEW e \in Events,
             fresh' = fresh \cup {e}, allowed' = allowed \ {p}
      PROVE  OvershootIsBounded'
  <2>1. Cardinality(fresh') <= Cardinality(fresh) + 1
    <3>1. Cardinality(fresh \cup {e}) =
              IF e \in fresh THEN Cardinality(fresh) ELSE Cardinality(fresh) + 1
      BY <1>1, FS_AddElement
    <3>2. QED
      BY <1>1, <1>4, <3>1
  <2>2. Cardinality(allowed') = Cardinality(allowed) - 1
    BY <1>1, <1>4, FS_RemoveElement
  <2>3. QED
    BY <1>1, <1>2, <2>1, <2>2, BacklogAssumption DEF IInv, OvershootIsBounded
<1>5. QED
  BY <1>3, <1>4

\* A check that moves on posts at most one alert more, and does so only
\* outside the cooldown.
LEMMA PostingGrows ==
    ASSUME TypeOK, NEW c \in Checks, NEW stage \in Stages, GoOn(c, stage),
           NEW t \in AlertTypes
    PROVE  /\ t # stage => Posting(t)' \subseteq Posting(t)
           /\ at[c] = t /\ t # stage =>
                  Cardinality(Posting(t)') = Cardinality(Posting(t)) - 1
           /\ Cardinality(Posting(t)') \in Nat
           /\ Cardinality(Posting(t)') <= Cardinality(Checks)
<1>1. Posting(t)' = IF t = stage THEN Posting(t) \cup {c} ELSE Posting(t) \ {c}
  BY DEF Posting, GoOn, TypeOK
<1>2. IsFiniteSet(Posting(t))
  BY Counts
<1>3. ASSUME at[c] = t, t # stage
      PROVE  Cardinality(Posting(t)') = Cardinality(Posting(t)) - 1
  <2>1. c \in Posting(t)
    BY <1>3 DEF Posting
  <2>2. QED
    BY <1>1, <1>2, <1>3, <2>1, FS_RemoveElement
<1>4. Posting(t)' \subseteq Checks
  BY <1>1 DEF Posting
<1>5. QED
  BY <1>1, <1>3, <1>4, ChecksAssumption, FS_Subset, FS_CardinalityType

------------------------------------------------------------------------------
(***************************************************************************)
(* The steps.                                                              *)
(***************************************************************************)
LEMMA MonitoringInit == Init => IInv
<1> SUFFICES ASSUME Init PROVE IInv
  OBVIOUS
<1>1. TypeOK
  BY DEF Init, TypeOK, Stages
<1>2. FreshIsPending /\ AcceptedWhileCooling /\ IdleKnowsNothing
  BY DEF Init, FreshIsPending, AcceptedWhileCooling, IdleKnowsNothing
<1>3. OvershootIsBounded
  BY <1>1, Counts, FS_EmptySet, BacklogAssumption DEF Init, OvershootIsBounded
<1>4. AlertsPerCooldown
  <2>1. \A t \in AlertTypes : accepted[t] = 0 /\ Cardinality(Posting(t)) <= Cardinality(Checks)
    BY <1>1, Counts DEF Init
  <2>2. QED
    BY <1>1, <2>1, Counts DEF AlertsPerCooldown
<1>5. QED
  BY <1>1, <1>2, <1>3, <1>4 DEF IInv

LEMMA AlertsUndisturbed ==
    ASSUME IInv, UNCHANGED alertVars
    PROVE  IdleKnowsNothing' /\ AcceptedWhileCooling' /\ AlertsPerCooldown'
BY DEF IInv, alertVars, IdleKnowsNothing, AcceptedWhileCooling, AlertsPerCooldown, Posting

LEMMA ProducerStep ==
    ASSUME IInv, NEW p \in Producers,
           CheckLimit(p) \/ Publish(p) \/ GiveUpPublishing(p)
    PROVE  IInv'
<1>1. TypeOK'
  BY DEF IInv, TypeOK, CheckLimit, Publish, GiveUpPublishing, tableVars, alertVars, InStatus
<1>2. FreshIsPending'
  BY DEF IInv, TypeOK, FreshIsPending, CheckLimit, Publish, GiveUpPublishing,
         tableVars, InStatus
<1>3. OvershootIsBounded'
  <2>1. CASE CheckLimit(p)
    <3>1. /\ IsFiniteSet(InStatus("PENDING"))
          /\ Cardinality(InStatus("PENDING")) \in Nat
      <4>1. InStatus("PENDING") \subseteq Events
        BY DEF InStatus
      <4>2. QED
        BY <4>1, EventsAreFinite, FS_Subset, FS_CardinalityType
    <3>2. Cardinality(fresh) <= Cardinality(InStatus("PENDING"))
      BY <3>1, FS_Subset DEF IInv, FreshIsPending
    <3>3. Cardinality(InStatus("PENDING")) < MaxBacklogSize
      BY <2>1 DEF CheckLimit, WithinLimit
    <3>4. /\ Cardinality(allowed') \in Nat
          /\ Cardinality(allowed') <= Cardinality(Producers)
      <4>1. allowed' \subseteq Producers
        BY <1>1 DEF TypeOK
      <4>2. QED
        BY <4>1, ProducersAssumption, FS_Subset, FS_CardinalityType
    <3>5. Cardinality(fresh) \in Nat /\ Cardinality(Producers) \in Nat
      BY Counts DEF IInv
    <3>6. fresh' = fresh
      BY <2>1 DEF CheckLimit, tableVars
    <3>7. QED
      BY <3>1, <3>2, <3>3, <3>4, <3>5, <3>6, BacklogAssumption DEF OvershootIsBounded
  <2>2. CASE Publish(p)
    BY <1>1, <2>2, OvershootShrinks DEF Publish, InStatus
  <2>3. CASE GiveUpPublishing(p)
    BY <1>1, <2>3, OvershootShrinks DEF GiveUpPublishing, tableVars
  <2>4. QED
    BY <2>1, <2>2, <2>3
<1>4. UNCHANGED alertVars
  BY DEF CheckLimit, Publish, GiveUpPublishing
<1>5. QED
  BY <1>1, <1>2, <1>3, <1>4, AlertsUndisturbed DEF IInv

LEMMA RowStep ==
    ASSUME IInv,
           \/ \E e \in Events : Claim(e) \/ LeaseExpires(e) \/ Mark(e) \/ Redrive(e)
           \/ Cleanup \/ Recover
    PROVE  IInv'
<1>1. TypeOK'
  BY DEF IInv, TypeOK, Claim, LeaseExpires, Mark, Redrive, Cleanup, Recover, alertVars
<1>2. FreshIsPending'
  BY DEF IInv, TypeOK, FreshIsPending, InStatus,
         Claim, LeaseExpires, Mark, Redrive, Cleanup, Recover
<1>3. fresh' \subseteq fresh /\ allowed' = allowed /\ UNCHANGED alertVars
  BY DEF Claim, LeaseExpires, Mark, Redrive, Cleanup, Recover
<1>4. OvershootIsBounded'
  BY <1>1, <1>3, OvershootShrinks
<1>5. QED
  BY <1>1, <1>2, <1>3, <1>4, AlertsUndisturbed DEF IInv

LEMMA LimitUndisturbed ==
    ASSUME IInv, UNCHANGED <<tableVars, allowed>>
    PROVE  FreshIsPending' /\ OvershootIsBounded'
BY DEF IInv, tableVars, FreshIsPending, OvershootIsBounded, InStatus

LEMMA ReadStep ==
    ASSUME IInv, NEW c \in Checks, Check(c) \/ ReadLag(c) \/ ReadDeadLetters(c)
    PROVE  IInv'
<1>1. TypeOK'
  BY DEF IInv, TypeOK, Stages, Check, ReadLag, ReadDeadLetters, tableVars, Compared
<1>2. UNCHANGED <<tableVars, allowed, cooling, accepted>>
  BY DEF Check, ReadLag, ReadDeadLetters
<1>3. \A t \in AlertTypes : Posting(t)' = Posting(t)
  BY DEF IInv, TypeOK, AlertTypes, Posting, Check, ReadLag, ReadDeadLetters
<1>4. AcceptedWhileCooling' /\ AlertsPerCooldown'
  BY <1>2, <1>3 DEF IInv, AcceptedWhileCooling, AlertsPerCooldown
<1>5. IdleKnowsNothing'
  BY DEF IInv, TypeOK, IdleKnowsNothing, Check, ReadLag, ReadDeadLetters
<1>6. QED
  BY <1>1, <1>2, <1>4, <1>5, LimitUndisturbed DEF IInv

\* A check that ends forgets what it read.
LEMMA GoOnForgets ==
    ASSUME TypeOK, IdleKnowsNothing, NEW c \in Checks, NEW stage, GoOn(c, stage)
    PROVE  IdleKnowsNothing'
BY DEF TypeOK, IdleKnowsNothing, GoOn

\* A check posts an alert of a type next only outside its cooldown.
LEMMA PostsOutsideCooldown ==
    ASSUME NEW c \in Checks
    PROVE  /\ AfterLag(c) \in Stages
           /\ AfterLag(c) # "lag"
           /\ AfterLag(c) = "dead_letter" => "dead_letter" \notin cooling
           /\ Posts(c, "lag") => "lag" \notin cooling
BY DEF AfterLag, Posts, Stages, AlertTypes

LEMMA CompareStep ==
    ASSUME IInv, NEW c \in Checks, CheckFails(c) \/ Compare(c)
    PROVE  IInv'
<1>1. PICK stage \in Stages :
          /\ GoOn(c, stage)
          /\ stage \in AlertTypes => stage \notin cooling
  <2>1. CASE CheckFails(c)
    BY <2>1 DEF CheckFails, Stages, AlertTypes
  <2>2. CASE Compare(c)
    BY <2>2, PostsOutsideCooldown DEF Compare, Stages, AlertTypes
  <2>3. QED
    BY <2>1, <2>2
<1>2. UNCHANGED <<tableVars, allowed, cooling, accepted>>
  BY DEF CheckFails, Compare
<1>3. TypeOK'
  BY <1>1, <1>2 DEF IInv, TypeOK, GoOn, tableVars
<1>4. AlertsPerCooldown'
  <2> SUFFICES ASSUME NEW t \in AlertTypes
               PROVE  accepted[t] + Cardinality(Posting(t)') <= Cardinality(Checks)
    BY <1>2 DEF AlertsPerCooldown
  <2>1. accepted[t] \in Nat /\ Cardinality(Checks) \in Nat /\ Cardinality(Posting(t)) \in Nat
    BY Counts DEF IInv, TypeOK
  <2>2. /\ t # stage => Posting(t)' \subseteq Posting(t)
        /\ Cardinality(Posting(t)') \in Nat
        /\ Cardinality(Posting(t)') <= Cardinality(Checks)
    BY <1>1, PostingGrows DEF IInv
  <2>3. CASE t = stage
    BY <1>1, <2>1, <2>2, <2>3 DEF IInv, AcceptedWhileCooling
  <2>4. CASE t # stage
    <3>1. Cardinality(Posting(t)') <= Cardinality(Posting(t))
      BY <2>2, <2>4, Counts, FS_Subset DEF IInv
    <3>2. QED
      BY <2>1, <2>2, <3>1 DEF IInv, AlertsPerCooldown
  <2>5. QED
    BY <2>3, <2>4
<1>5. AcceptedWhileCooling'
  BY <1>2 DEF IInv, AcceptedWhileCooling
<1>6. QED
  BY <1>1, <1>2, <1>3, <1>4, <1>5, LimitUndisturbed, GoOnForgets DEF IInv

LEMMA AnswerStep ==
    ASSUME IInv, NEW c \in Checks, NEW ok \in BOOLEAN, Answer(c, ok)
    PROVE  IInv'
<1> DEFINE stage == AfterAnswer(c, ok)
<1>1. /\ stage \in Stages /\ GoOn(c, stage)
      /\ stage # at[c]
      /\ stage \in AlertTypes => stage \notin cooling
  BY PostsOutsideCooldown DEF Answer, AfterAnswer, Stages, AlertTypes
<1>2. at[c] \in AlertTypes /\ UNCHANGED <<tableVars, allowed>>
  BY DEF Answer
<1>3. /\ ok => /\ cooling' = cooling \cup {at[c]}
               /\ accepted' = [accepted EXCEPT ![at[c]] = @ + 1]
      /\ ~ok => UNCHANGED <<cooling, accepted>>
  BY DEF Answer, Recorded
<1> HIDE DEF stage
<1>4. TypeOK'
  <2>1. at' \in [Checks -> Stages]
    BY <1>1 DEF IInv, TypeOK, GoOn
  <2>2. /\ lag' \in [Checks -> {"unread", "under", "over"}]
        /\ dead' \in [Checks -> {"unread", "under", "over"}]
    BY <1>1 DEF IInv, TypeOK, GoOn
  <2>3. cooling' \in SUBSET AlertTypes /\ accepted' \in [AlertTypes -> Nat]
    BY <1>2, <1>3 DEF IInv, TypeOK
  <2>4. QED
    BY <1>2, <2>1, <2>2, <2>3 DEF IInv, TypeOK, tableVars
<1>5. AlertsPerCooldown'
  <2> SUFFICES ASSUME NEW t \in AlertTypes
               PROVE  accepted'[t] + Cardinality(Posting(t)') <= Cardinality(Checks)
    BY DEF AlertsPerCooldown
  <2>1. accepted[t] \in Nat /\ Cardinality(Checks) \in Nat /\ Cardinality(Posting(t)) \in Nat
    BY Counts DEF IInv, TypeOK
  <2>2. /\ t # stage => Posting(t)' \subseteq Posting(t)
        /\ at[c] = t /\ t # stage =>
               Cardinality(Posting(t)') = Cardinality(Posting(t)) - 1
        /\ Cardinality(Posting(t)') \in Nat
        /\ Cardinality(Posting(t)') <= Cardinality(Checks)
    BY <1>1, PostingGrows DEF IInv
  <2>3. accepted[t] + Cardinality(Posting(t)) <= Cardinality(Checks)
    BY DEF IInv, AlertsPerCooldown
  <2>4. CASE t = at[c]
    <3>1. accepted'[t] = accepted[t] \/ accepted'[t] = accepted[t] + 1
      BY <1>2, <1>3, <2>4 DEF IInv, TypeOK
    <3>2. QED
      BY <1>1, <2>1, <2>2, <2>3, <2>4, <3>1
  <2>5. CASE t # at[c]
    <3>1. accepted'[t] = accepted[t]
      BY <1>2, <1>3, <2>5 DEF IInv, TypeOK
    <3>2. CASE t = stage
      <4>1. accepted[t] = 0
        BY <1>1, <3>2 DEF IInv, AcceptedWhileCooling
      <4>2. QED
        BY <2>1, <2>2, <3>1, <4>1
    <3>3. CASE t # stage
      <4>1. Cardinality(Posting(t)') <= Cardinality(Posting(t))
        BY <2>2, <3>3, Counts, FS_Subset DEF IInv
      <4>2. QED
        BY <2>1, <2>2, <2>3, <3>1, <4>1
    <3>4. QED
      BY <3>2, <3>3
  <2>6. QED
    BY <2>4, <2>5
<1>6. AcceptedWhileCooling'
  BY <1>2, <1>3 DEF IInv, TypeOK, AcceptedWhileCooling
<1>7. QED
  BY <1>1, <1>2, <1>4, <1>5, <1>6, LimitUndisturbed, GoOnForgets DEF IInv

LEMMA CooldownStep ==
    ASSUME IInv, NEW t \in AlertTypes, CooldownEnds(t)
    PROVE  IInv'
<1>1. TypeOK'
  BY DEF IInv, TypeOK, CooldownEnds, tableVars
<1>2. UNCHANGED <<tableVars, allowed, at>>
  BY DEF CooldownEnds
<1>3. \A u \in AlertTypes : accepted'[u] \in Nat /\ accepted'[u] <= accepted[u]
  BY DEF IInv, TypeOK, CooldownEnds
<1>4. AlertsPerCooldown'
  <2>1. \A u \in AlertTypes : Posting(u)' = Posting(u)
    BY <1>2 DEF Posting
  <2>2. \A u \in AlertTypes : accepted[u] \in Nat /\ Cardinality(Posting(u)) \in Nat
    BY Counts DEF IInv, TypeOK
  <2>3. Cardinality(Checks) \in Nat
    BY Counts DEF IInv
  <2>4. QED
    BY <1>3, <2>1, <2>2, <2>3 DEF IInv, AlertsPerCooldown
<1>5. AcceptedWhileCooling'
  BY DEF IInv, TypeOK, CooldownEnds, AcceptedWhileCooling
<1>6. IdleKnowsNothing'
  BY DEF IInv, IdleKnowsNothing, CooldownEnds
<1>7. QED
  BY <1>1, <1>2, <1>4, <1>5, <1>6, LimitUndisturbed DEF IInv

LEMMA MonitoringStep == IInv /\ [Next]_vars => IInv'
<1> SUFFICES ASSUME IInv, [Next]_vars PROVE IInv'
  OBVIOUS
<1>1. CASE UNCHANGED vars
  BY <1>1 DEF vars, tableVars, alertVars, IInv, TypeOK, FreshIsPending,
              OvershootIsBounded, IdleKnowsNothing, AcceptedWhileCooling, AlertsPerCooldown,
              InStatus, Posting
<1>2. CASE Next
  BY <1>2, ProducerStep, RowStep, ReadStep, CompareStep, AnswerStep, CooldownStep DEF Next
<1>3. QED
  BY <1>1, <1>2

------------------------------------------------------------------------------
\* The inductive invariant holds in every state.
THEOREM MonitoringInvariant == Spec => []IInv
<1>1. Init => IInv
  BY MonitoringInit
<1>2. IInv /\ [Next]_vars => IInv'
  BY MonitoringStep
<1>3. QED
  BY <1>1, <1>2, PTL DEF Spec

\* Whatever producers, reapers and the webhook do, the state keeps its types.
THEOREM MonitoringTypeCorrect == Spec => []TypeOK
<1>1. IInv => TypeOK
  BY DEF IInv
<1>2. QED
  BY <1>1, MonitoringInvariant, PTL

\* checkLimit is overshot by fewer rows than there are producers.
THEOREM LimiterOvershootIsBounded == Spec => []OvershootIsBounded
<1>1. IInv => OvershootIsBounded
  BY DEF IInv
<1>2. QED
  BY <1>1, MonitoringInvariant, PTL

\* In a cooldown no more alerts are accepted than checks overlap.
THEOREM CooldownBoundsAlerts == Spec => []AlertsPerCooldown
<1>1. IInv => AlertsPerCooldown
  BY DEF IInv
<1>2. QED
  BY <1>1, MonitoringInvariant, PTL

------------------------------------------------------------------------------
\* What a check does that ends with too many dead letters on its mind.
LEMMA EndsWithAlert ==
    ASSUME TypeOK, IdleKnowsNothing, Next, NEW c \in Checks,
           lag[c] # "unread", dead[c] = "over", at'[c] = "idle"
    PROVE  at[c] = "dead_letter" \/ "dead_letter" \in cooling
<1>1. at[c] # "idle"
  BY DEF IdleKnowsNothing
<1>2. ASSUME NEW d \in Checks, NEW stage, GoOn(d, stage)
      PROVE  d = c /\ stage = "idle"
  BY <1>1, <1>2 DEF TypeOK, GoOn
<1>3. CASE \E d \in Checks : Check(d) \/ ReadLag(d) \/ ReadDeadLetters(d)
  BY <1>1, <1>3 DEF TypeOK, Check, ReadLag, ReadDeadLetters
<1>4. ASSUME NEW d \in Checks, CheckFails(d)
      PROVE  FALSE
  <2>1. d = c
    BY <1>2, <1>4 DEF CheckFails
  <2>2. QED
    BY <1>4, <2>1 DEF CheckFails
<1>5. ASSUME NEW d \in Checks, Compare(d)
      PROVE  "dead_letter" \in cooling
  <2>1. d = c /\ (IF Posts(d, "lag") THEN "lag" ELSE AfterLag(d)) = "idle"
    BY <1>2, <1>5 DEF Compare
  <2>2. QED
    BY <2>1 DEF AfterLag, Posts
<1>6. ASSUME NEW d \in Checks, NEW ok \in BOOLEAN, Answer(d, ok)
      PROVE  at[c] = "dead_letter" \/ "dead_letter" \in cooling
  <2>1. d = c /\ AfterAnswer(d, ok) = "idle" /\ at[d] \in AlertTypes
    BY <1>2, <1>6 DEF Answer
  <2>2. QED
    BY <2>1 DEF AfterAnswer, AfterLag, Posts, AlertTypes
<1>7. CASE UNCHANGED at
  BY <1>1, <1>7
<1>8. CASE \E p \in Producers : CheckLimit(p) \/ Publish(p) \/ GiveUpPublishing(p)
  BY <1>7, <1>8 DEF CheckLimit, Publish, GiveUpPublishing, alertVars
<1>9. CASE \/ \E e \in Events : Claim(e) \/ LeaseExpires(e) \/ Mark(e) \/ Redrive(e)
           \/ Cleanup \/ Recover
  BY <1>7, <1>9 DEF Claim, LeaseExpires, Mark, Redrive, Cleanup, Recover, alertVars
<1>10. CASE \E t \in AlertTypes : CooldownEnds(t)
  BY <1>7, <1>10 DEF CooldownEnds
<1>11. QED
  BY <1>3, <1>4, <1>5, <1>6, <1>8, <1>9, <1>10 DEF Next

\* A check that found too many dead letters ends with an alert about them, or
\* in their cooldown, whatever became of its lag alert.
THEOREM LagAlertsHideNothing == Spec => DeadLettersAreNotHidden
<1>1. IInv /\ [Next]_vars =>
          [\A c \in Checks :
              lag[c] # "unread" /\ dead[c] = "over" /\ at'[c] = "idle" =>
                  at[c] = "dead_letter" \/ "dead_letter" \in cooling]_vars
  BY EndsWithAlert DEF IInv
<1>2. QED
  BY <1>1, MonitoringInvariant, PTL DEF Spec, DeadLettersAreNotHidden
------------------------------------------------------------------------------
\* Probes read, and the monitor does what any reaper may: what is proved of
\* Monitoring holds beside them.
THEOREM HealthKeepsMonitoring == HealthSpec => Spec
<1>1. HealthInit => Init
  BY DEF HealthInit
<1>2. [HealthNext]_healthVars => [Next]_vars
  <2>1. TableStep => Next
    BY DEF TableStep, OtherTableStep, Lapse, Next
  <2>2. WebhookStep => Next
    BY DEF WebhookStep, Next
  <2>3. ProbeStep => UNCHANGED vars
    BY DEF ProbeStep
  <2>4. MonitorStep => [Next]_vars
    BY DEF MonitorStep, CheckAndRecover, RecoveryAnswered, RecoveryFails, Next
  <2>5. UNCHANGED healthVars => UNCHANGED vars
    BY DEF healthVars
  <2>6. QED
    BY <2>1, <2>2, <2>3, <2>4, <2>5 DEF HealthNext
<1>3. QED
  BY <1>1, <1>2, PTL DEF HealthSpec, Spec

\* So the limiter is overshot by less than the number of producers even while
\* monitors return rows to the backlog (backlog-limiter.ts, worker-monitor.ts).
THEOREM OvershootIsBoundedBesideMonitors == HealthSpec => []OvershootIsBounded
  BY HealthKeepsMonitoring, LimiterOvershootIsBounded, PTL
------------------------------------------------------------------------------
(***************************************************************************)
(* The verdicts of the HealthChecker.                                      *)
(***************************************************************************)
\* What a running probe has read, the table has been.
ReadingsWereSeen ==
    /\ metrics.pending \in {Unread} \cup pendingSeen
    /\ metrics.dead \in {Unread} \cup deadSeen

\* What the table is now is among what was seen.
NowIsSeen == Pending \in pendingSeen /\ Dead \in deadSeen

ProbeInv ==
    /\ pendingSeen \subseteq RowCounts /\ deadSeen \subseteq RowCounts
    /\ metrics \in [pending : {Unread} \cup RowCounts, dead : {Unread} \cup RowCounts,
                    age : {"unread"} \cup Ages]
    /\ status # "running" => metrics = NoMetrics
    /\ status = "running" => observer = "probe" /\ ReadingsWereSeen /\ NowIsSeen

LEMMA CountsAreInRange == Pending \in RowCounts /\ Dead \in RowCounts
<1>1. ASSUME NEW S \in SUBSET Events
      PROVE  Cardinality(S) \in 0..Cardinality(Events)
  BY EventsAreFinite, FS_Subset, FS_CardinalityType
<1>2. QED
  BY <1>1 DEF Pending, Dead, RowCounts, InStatus

LEMMA CountsAreInRangeNext == Pending' \in RowCounts /\ Dead' \in RowCounts
<1>1. ASSUME NEW S \in SUBSET Events
      PROVE  Cardinality(S) \in 0..Cardinality(Events)
  BY EventsAreFinite, FS_Subset, FS_CardinalityType
<1>2. QED
  BY <1>1 DEF Pending, Dead, RowCounts, InStatus

LEMMA ProbeInvInit == HealthInit => ProbeInv
  BY DEF HealthInit, ProbeInv, NoMetrics, RowCounts, Ages

LEMMA ProbeInvStep ==
    ASSUME ProbeInv, [HealthNext]_healthVars
    PROVE  ProbeInv'
<1> USE DEF Unread, Ages
<1>1. CASE TableStep
  <2>1. CASE status = "running"
    BY <1>1, <2>1, CountsAreInRangeNext
    DEF TableStep, Watch, ProbeInv, ReadingsWereSeen, NowIsSeen
  <2>2. CASE status # "running"
    BY <1>1, <2>2 DEF TableStep, Watch, ProbeInv, NoMetrics
  <2>3. QED
    BY <2>1, <2>2
<1>2. CASE WebhookStep \/ MonitorStep
  BY <1>2 DEF WebhookStep, MonitorStep, probeVars, ProbeInv, NoMetrics
<1>3. CASE ProbeStep
  <2>1. /\ UNCHANGED observer /\ observer = "probe"
        /\ Pending' = Pending /\ Dead' = Dead
    BY <1>3 DEF ProbeStep, vars, tableVars, Pending, Dead, InStatus
  <2>2. CASE HealthCheck
    BY <2>1, <2>2, CountsAreInRange
    DEF HealthCheck, ProbeInv, ReadingsWereSeen, NowIsSeen, NoMetrics
  <2>3. CASE CollectPending \/ CollectDeadLetters \/ CollectAge
    <3>1. status = "running" /\ UNCHANGED <<status, pendingSeen, deadSeen>>
      BY <2>3 DEF CollectPending, CollectDeadLetters, CollectAge
    <3>2. /\ metrics' \in [pending : {Unread} \cup RowCounts,
                           dead : {Unread} \cup RowCounts,
                           age : {"unread"} \cup Ages]
          /\ metrics'.pending \in {metrics.pending, Pending}
          /\ metrics'.dead \in {metrics.dead, Dead}
      <4>1. CASE CollectPending
        BY <4>1, CountsAreInRange DEF CollectPending, ProbeInv
      <4>2. CASE CollectDeadLetters
        BY <4>2, CountsAreInRange DEF CollectDeadLetters, ProbeInv
      <4>3. CASE CollectAge
        BY <4>3 DEF CollectAge, ProbeInv
      <4>4. QED
        BY <2>3, <4>1, <4>2, <4>3
    <3>3. QED
      BY <2>1, <3>1, <3>2 DEF ProbeInv, ReadingsWereSeen, NowIsSeen
  <2>4. CASE Conclude \/ ProbeFails
    <3>1. /\ status' # "running" /\ metrics' = NoMetrics
          /\ pendingSeen' = {} /\ deadSeen' = {}
      BY <2>4 DEF Conclude, ProbeFails, Return, Overall
    <3>2. QED
      BY <3>1 DEF ProbeInv, NoMetrics
  <2>5. QED
    BY <1>3, <2>2, <2>3, <2>4 DEF ProbeStep
<1>4. CASE UNCHANGED healthVars
  BY <1>4 DEF healthVars, vars, tableVars, probeVars, ProbeInv, ReadingsWereSeen,
              NowIsSeen, NoMetrics, Pending, Dead, InStatus
<1>5. QED
  BY <1>1, <1>2, <1>3, <1>4 DEF HealthNext

\* The worst of the checks decides, and each looked at one count.
LEMMA VerdictFollowsReadings ==
    ASSUME ProbeInv, status = "running", Conclude
    PROVE  Justified(status')
<1> DEFINE p == metrics.pending
           d == metrics.dead
<1>1. p \in pendingSeen /\ d \in deadSeen /\ p \in RowCounts /\ d \in RowCounts
  BY DEF Conclude, ProbeInv, ReadingsWereSeen, Unread
<1>2. p \in Int /\ d \in Int
  BY <1>1, EventsAreFinite, FS_CardinalityType DEF RowCounts
<1>3. status' = Overall({"healthy", BacklogStatus(metrics), DeadLetterStatus(metrics)})
  BY DEF Conclude, Return
<1> USE PendingBoundsAssumption, DeadLetterBoundAssumption
<1>4. /\ status' = "healthy" => p <= MaxPendingForHealthy
      /\ status' = "unhealthy" =>
            \/ p > MaxPendingForDegraded
            \/ d > 2 * MaxDeadLetterForHealthy
            \/ metrics.age = "critical" /\ p <= MaxPendingForHealthy
      /\ status' = "healthy" => d <= MaxDeadLetterForHealthy
      /\ status' \in {"healthy", "degraded"} =>
            ~(p > MaxPendingForDegraded) /\ ~(d > 2 * MaxDeadLetterForHealthy)
  BY <1>2, <1>3 DEF Overall, BacklogStatus, DeadLetterStatus
<1>5. IsAlive(status') => status' \in {"healthy", "degraded"}
  BY <1>3 DEF IsAlive, Overall
<1>6. QED
  BY <1>1, <1>4, <1>5 DEF Justified, Crowded, Calm, Lethal, Tidy

\* Whatever interleaves with its queries, a verdict of HealthChecker.check is
\* one the table deserved at some moment of the check (health-checker.ts:51-148).
THEOREM VerdictsWereDeserved == HealthSpec => VerdictsAreJustified
<1>1. ProbeInv /\ [HealthNext]_healthVars =>
          [status = "running" /\ status' # "running" => Justified(status')]_healthVars
  <2>1. SUFFICES ASSUME ProbeInv, HealthNext, status = "running", status' # "running"
                 PROVE  Justified(status')
    OBVIOUS
  <2>2. ProbeStep
    BY <2>1 DEF HealthNext, TableStep, WebhookStep, MonitorStep, probeVars
  <2>3. Conclude \/ ProbeFails
    BY <2>1, <2>2
    DEF ProbeStep, HealthCheck, CollectPending, CollectDeadLetters, CollectAge
  <2>4. CASE ProbeFails
    BY <2>4 DEF ProbeFails, Return, Justified, IsAlive
  <2>5. QED
    BY <2>1, <2>3, <2>4, VerdictFollowsReadings
<1>2. QED
  BY <1>1, ProbeInvInit, ProbeInvStep, PTL DEF HealthSpec, VerdictsAreJustified

------------------------------------------------------------------------------
(***************************************************************************)
(* The types of what Health adds.                                          *)
(***************************************************************************)
MonitorTypeOK ==
    /\ recovering \in [Monitors -> {Idle} \cup RowCounts]
    /\ lastHealth \in RowCounts
    /\ lapses \in 0..MaxLapses
    /\ reported \in Nat
    /\ restarts \in Nat

HealthTypes ==
    /\ observer \in {"webhook", "probe", "monitor"}
    /\ status \in {"running", "none", "healthy", "degraded", "unhealthy", "failed"}
    /\ MonitorTypeOK

LEMMA RecoveredIsInRange == Recovered \in RowCounts
<1>1. InStatus("STALE") \in SUBSET Events
  BY DEF InStatus
<1>2. QED
  BY <1>1, EventsAreFinite, FS_Subset, FS_CardinalityType DEF Recovered, RowCounts

LEMMA MonitorStepKeepsTypes ==
    ASSUME MonitorTypeOK, NEW m \in Monitors,
           CheckAndRecover(m) \/ RecoveryAnswered(m) \/ RecoveryFails(m)
    PROVE  MonitorTypeOK'
<1> USE DEF MonitorTypeOK
<1>1. CASE CheckAndRecover(m)
  BY <1>1, RecoveredIsInRange DEF CheckAndRecover
<1>2. CASE RecoveryAnswered(m)
  <2>1. recovering[m] \in RowCounts
    BY <1>2 DEF RecoveryAnswered
  <2>2. recovering[m] \in Nat
    BY <2>1, EventsAreFinite, FS_CardinalityType DEF RowCounts
  <2>3. restarts' \in Nat
    BY <1>2 DEF RecoveryAnswered
  <2>4. QED
    BY <1>2, <2>1, <2>2, <2>3 DEF RecoveryAnswered
<1>3. CASE RecoveryFails(m)
  BY <1>3 DEF RecoveryFails
<1>4. QED
  BY <1>1, <1>2, <1>3

LEMMA HealthTypesStep ==
    ASSUME HealthTypes, [HealthNext]_healthVars
    PROVE  HealthTypes'
<1>1. CASE TableStep
  <2>1. UNCHANGED <<observer, status>>
    BY <1>1 DEF TableStep
  <2>2. MonitorTypeOK'
    BY <1>1, MonitorsAssumption
    DEF TableStep, OtherTableStep, Lapse, monitorVars, HealthTypes, MonitorTypeOK
  <2>3. QED
    BY <2>1, <2>2 DEF HealthTypes
<1>2. CASE WebhookStep
  BY <1>2 DEF WebhookStep, probeVars, monitorVars, HealthTypes, MonitorTypeOK
<1>3. CASE ProbeStep
  <2>1. UNCHANGED <<observer, monitorVars>>
    BY <1>3 DEF ProbeStep
  <2>2. status' \in {"running", "none", "healthy", "degraded", "unhealthy", "failed"}
    BY <1>3
    DEF ProbeStep, HealthCheck, CollectPending, CollectDeadLetters, CollectAge, Conclude,
        ProbeFails, Return, Overall, HealthTypes
  <2>3. QED
    BY <2>1, <2>2 DEF monitorVars, HealthTypes, MonitorTypeOK
<1>4. CASE MonitorStep
  BY <1>4, MonitorStepKeepsTypes DEF MonitorStep, probeVars, HealthTypes
<1>5. CASE UNCHANGED healthVars
  BY <1>5 DEF healthVars, probeVars, monitorVars, HealthTypes, MonitorTypeOK
<1>6. QED
  BY <1>1, <1>2, <1>3, <1>4, <1>5 DEF HealthNext

\* Every variable of Monitoring and of its observers keeps its type, for any
\* number of rows, producers and overlapping checks.
THEOREM HealthTypeCorrect == HealthSpec => []HealthTypeOK
<1>1. HealthInit => HealthTypes
  <2>1. Cardinality(Events) \in Nat /\ MaxLapses \in Nat
    BY EventsAreFinite, FS_CardinalityType, MonitorsAssumption
  <2>2. QED
    BY <2>1 DEF HealthInit, HealthTypes, MonitorTypeOK, RowCounts
<1>2. TypeOK /\ ProbeInv /\ HealthTypes => HealthTypeOK
  BY DEF ProbeInv, HealthTypes, MonitorTypeOK, HealthTypeOK
<1>3. QED
  BY <1>1, <1>2, HealthTypesStep, ProbeInvInit, ProbeInvStep, HealthKeepsMonitoring,
     MonitoringTypeCorrect, PTL DEF HealthSpec
------------------------------------------------------------------------------
(***************************************************************************)
(* Sums over a function with a finite domain.  SumFunction is recursive on *)
(* the subsets of the domain: Totals says what the table of its recursion  *)
(* is.  That the table exists, and what it holds, follows by looking at a  *)
(* smallest set for which it did not.                                      *)
(***************************************************************************)
LEMMA LeastOf ==
    ASSUME NEW T \in SUBSET Nat, T # {}
    PROVE  \E n \in T : \A m \in T : n <= m
<1>1. PICK n \in T : \A m \in T : <<m, n>> \notin OpToRel(<, Nat)
  <2> HIDE DEF OpToRel
  <2> QED
    BY NatLessThanWellFounded, WFMin
<1>2. \A m \in T : ~(m < n)
  BY <1>1 DEF OpToRel
<1>3. QED
  BY <1>2

LEMMA SmallestOf ==
    ASSUME NEW S, IsFiniteSet(S), NEW Bad \in SUBSET SUBSET S, Bad # {}
    PROVE  \E s \in Bad : \A x \in s : s \ {x} \notin Bad
<1>1. PICK s \in Bad : \A t \in Bad : <<t, s>> \notin StrictSubsetOrdering(S)
  BY FS_FiniteSubsetsOfFinite, FS_StrictSubsetOrderingWellFounded, WFMin
<1>2. ASSUME NEW x \in s, s \ {x} \in Bad
      PROVE  FALSE
  BY <1>1, <1>2 DEF StrictSubsetOrdering
<1>3. QED
  BY <1>2

Chosen(s) == CHOOSE x \in s : TRUE

\* One line of the table, for the set s.
Total(f, g, s) == IF s = {} THEN 0 ELSE f[Chosen(s)] + g[s \ {Chosen(s)}]

Totals(f, S, g) == g = [s \in SUBSET S |-> Total(f, g, s)]

UpTo(S, n) == {s \in SUBSET S : Cardinality(s) <= n}

LEMMA SumIsATotal ==
    ASSUME NEW f, \E g : Totals(f, DOMAIN f, g)
    PROVE  \E g : Totals(f, DOMAIN f, g) /\ SumFunction(f) = g[DOMAIN f]
<1>1. SumFunction(f) = (CHOOSE g : Totals(f, DOMAIN f, g))[DOMAIN f]
  BY DEF SumFunction, SumFunctionOnSet, FoldFunctionOnSet, MapThenFoldSet, Totals, Total,
         Chosen
<1>2. QED
  BY <1>1

\* The table for the sets up to one size gives the one for the next.
LEMMA TotalsUpTo ==
    ASSUME NEW f, NEW S, IsFiniteSet(S), NEW n \in Nat
    PROVE  \E g : g = [s \in UpTo(S, n) |-> Total(f, g, s)]
<1> DEFINE Table(k, g) == g = [s \in UpTo(S, k) |-> Total(f, g, s)]
           Missing == {k \in Nat : ~\E g : Table(k, g)}
<1>1. \A s \in SUBSET S : IsFiniteSet(s) /\ Cardinality(s) \in Nat
  BY FS_Subset, FS_CardinalityType
<1>2. SUFFICES ASSUME Missing # {}
               PROVE  FALSE
  OBVIOUS
<1>3. PICK k \in Missing : \A m \in Missing : k <= m
  BY <1>2, LeastOf
<1>4. CASE k = 0
  <2> DEFINE h == [s \in UpTo(S, 0) |-> 0]
  <2>1. \A s \in UpTo(S, 0) : s = {}
    <3>1. \A s \in UpTo(S, 0) : Cardinality(s) = 0 /\ IsFiniteSet(s)
      BY <1>1 DEF UpTo
    <3>2. QED
      BY <3>1, FS_EmptySet
  <2>2. Table(0, h)
    BY <2>1 DEF Total
  <2>3. QED
    BY <1>3, <1>4, <2>2
<1>5. CASE k # 0
  <2>1. PICK g : Table(k - 1, g)
    BY <1>3, <1>5
  <2> DEFINE h == [s \in UpTo(S, k) |-> Total(f, g, s)]
  <2>2. \A s \in UpTo(S, k - 1) : s \in UpTo(S, k) /\ g[s] = Total(f, g, s)
    <3>1. UpTo(S, k - 1) \subseteq UpTo(S, k)
      BY <1>1, <1>3 DEF UpTo
    <3>2. QED
      BY <2>1, <3>1
  <2>3. \A s \in UpTo(S, k - 1) : h[s] = g[s]
    BY <2>2
  <2>4. ASSUME NEW s \in UpTo(S, k), s # {}
        PROVE  s \ {Chosen(s)} \in UpTo(S, k - 1)
    <3>1. Chosen(s) \in s
      BY <2>4 DEF Chosen
    <3>2. s \in SUBSET S /\ Cardinality(s) <= k
      BY DEF UpTo
    <3>3. Cardinality(s \ {Chosen(s)}) = Cardinality(s) - 1
      BY <1>1, <3>1, <3>2, FS_RemoveElement
    <3>4. Cardinality(s) \in Nat /\ k \in Nat
      BY <1>1, <1>3, <3>2
    <3>5. QED
      BY <3>2, <3>3, <3>4 DEF UpTo
  <2>5. \A s \in UpTo(S, k) : Total(f, g, s) = Total(f, h, s)
    BY <2>3, <2>4 DEF Total
  <2>6. Table(k, h)
    BY <2>5
  <2>7. QED
    BY <1>3, <2>6
<1>6. QED
  BY <1>4, <1>5

LEMMA TotalsExist ==
    ASSUME NEW f, IsFiniteSet(DOMAIN f)
    PROVE  \E g : Totals(f, DOMAIN f, g) /\ SumFunction(f) = g[DOMAIN f]
<1>1. \A s \in SUBSET DOMAIN f : Cardinality(s) <= Cardinality(DOMAIN f)
  BY FS_Subset
<1>2. UpTo(DOMAIN f, Cardinality(DOMAIN f)) = SUBSET DOMAIN f
  BY <1>1 DEF UpTo
<1>3. Cardinality(DOMAIN f) \in Nat
  BY FS_CardinalityType
<1>4. PICK g : g = [s \in UpTo(DOMAIN f, Cardinality(DOMAIN f)) |-> Total(f, g, s)]
  BY <1>3, TotalsUpTo
<1>5. Totals(f, DOMAIN f, g)
  BY <1>2, <1>4 DEF Totals
<1>6. QED
  BY <1>5, SumIsATotal

\* What the table holds for a set, from a smaller set.
LEMMA TotalOf ==
    ASSUME NEW f, NEW S, NEW g, Totals(f, S, g), NEW s \in SUBSET S
    PROVE  /\ g[s] = Total(f, g, s)
           /\ s # {} => Chosen(s) \in s
  BY DEF Totals, Chosen

LEMMA TotalsAreNat ==
    ASSUME NEW S, IsFiniteSet(S), NEW f \in [S -> Nat], NEW g, Totals(f, S, g)
    PROVE  \A s \in SUBSET S : g[s] \in Nat
<1> DEFINE Bad == {s \in SUBSET S : g[s] \notin Nat}
<1>1. SUFFICES ASSUME Bad # {}
               PROVE  FALSE
  OBVIOUS
<1>2. PICK s \in Bad : \A x \in s : s \ {x} \notin Bad
  BY <1>1, SmallestOf
<1>3. g[s] = Total(f, g, s) /\ (s # {} => Chosen(s) \in s)
  BY TotalOf
<1>4. CASE s = {}
  BY <1>2, <1>3, <1>4 DEF Total
<1>5. CASE s # {}
  <2>1. g[s \ {Chosen(s)}] \in Nat /\ f[Chosen(s)] \in Nat
    BY <1>2, <1>3, <1>5
  <2>2. g[s] = f[Chosen(s)] + g[s \ {Chosen(s)}]
    BY <1>3, <1>5 DEF Total
  <2>3. QED
    BY <1>2, <2>1, <2>2
<1>6. QED
  BY <1>4, <1>5

\* A sum of naturals is one.
LEMMA SumIsNat ==
    ASSUME NEW S, IsFiniteSet(S), NEW f \in [S -> Nat]
    PROVE  SumFunction(f) \in Nat
<1>1. DOMAIN f = S
  OBVIOUS
<1>2. PICK g : Totals(f, S, g) /\ SumFunction(f) = g[S]
  BY <1>1, TotalsExist
<1>3. QED
  BY <1>2, TotalsAreNat

\* A sum of zeros is zero.
LEMMA SumOfZeros ==
    ASSUME NEW S, IsFiniteSet(S)
    PROVE  SumFunction([x \in S |-> 0]) = 0
<1> DEFINE f == [x \in S |-> 0]
<1>1. DOMAIN f = S
  OBVIOUS
<1>2. PICK g : Totals(f, S, g) /\ SumFunction(f) = g[S]
  BY <1>1, TotalsExist
<1> DEFINE Bad == {s \in SUBSET S : g[s] # 0}
<1>3. SUFFICES ASSUME Bad # {}
               PROVE  FALSE
  BY <1>2
<1>4. PICK s \in Bad : \A x \in s : s \ {x} \notin Bad
  BY <1>3, SmallestOf
<1>5. g[s] = Total(f, g, s) /\ (s # {} => Chosen(s) \in s)
  BY <1>2, TotalOf
<1>6. CASE s = {}
  BY <1>4, <1>5, <1>6 DEF Total
<1>7. CASE s # {}
  <2>1. g[s \ {Chosen(s)}] = 0 /\ f[Chosen(s)] = 0
    BY <1>4, <1>5, <1>7
  <2>2. QED
    BY <1>4, <1>5, <1>7, <2>1 DEF Total
<1>8. QED
  BY <1>6, <1>7

\* Changing one value changes the sum by as much.
LEMMA SumWithOneChange ==
    ASSUME NEW S, IsFiniteSet(S), NEW f \in [S -> Nat], NEW h \in [S -> Nat],
           NEW d \in S, \A x \in S \ {d} : h[x] = f[x]
    PROVE  SumFunction(h) + f[d] = SumFunction(f) + h[d]
<1>1. DOMAIN f = S /\ DOMAIN h = S
  OBVIOUS
<1>2. PICK g : Totals(f, S, g) /\ SumFunction(f) = g[S]
  BY <1>1, TotalsExist
<1>3. PICK k : Totals(h, S, k) /\ SumFunction(h) = k[S]
  BY <1>1, TotalsExist
<1>4. \A s \in SUBSET S : g[s] \in Nat /\ k[s] \in Nat
  BY <1>2, <1>3, TotalsAreNat
<1> DEFINE Good(s) == IF d \in s THEN k[s] + f[d] = g[s] + h[d] ELSE k[s] = g[s]
           Bad == {s \in SUBSET S : ~Good(s)}
<1>5. SUFFICES ASSUME Bad # {}
               PROVE  FALSE
  BY <1>2, <1>3
<1>6. PICK s \in Bad : \A x \in s : s \ {x} \notin Bad
  BY <1>5, SmallestOf
<1>7. /\ g[s] = Total(f, g, s) /\ k[s] = Total(h, k, s)
      /\ s # {} => Chosen(s) \in s
  BY <1>2, <1>3, TotalOf
<1>8. CASE s = {}
  BY <1>6, <1>7, <1>8 DEF Total
<1>9. CASE s # {}
  <2> DEFINE c == Chosen(s)
             r == s \ {c}
  <2>1. c \in s /\ c \in S /\ r \in SUBSET S /\ Good(r)
    BY <1>6, <1>7, <1>9
  <2>2. g[s] = f[c] + g[r] /\ k[s] = h[c] + k[r]
    BY <1>7, <1>9 DEF Total
  <2>3. /\ f[c] \in Nat /\ h[c] \in Nat /\ g[r] \in Nat /\ k[r] \in Nat
        /\ f[d] \in Nat /\ h[d] \in Nat
    BY <1>4, <2>1
  <2>4. CASE c = d
    <3>1. k[r] = g[r] /\ d \in s
      BY <2>1, <2>4
    <3>2. k[s] + f[d] = g[s] + h[d]
      BY <2>2, <2>3, <2>4, <3>1
    <3>3. QED
      BY <1>6, <3>1, <3>2
  <2>5. CASE c # d
    <3>1. h[c] = f[c] /\ (d \in r <=> d \in s)
      BY <2>1, <2>5
    <3>2. CASE d \in s
      <4>1. k[r] + f[d] = g[r] + h[d]
        BY <2>1, <3>1, <3>2
      <4>2. k[s] + f[d] = g[s] + h[d]
        BY <2>2, <2>3, <3>1, <4>1
      <4>3. QED
        BY <1>6, <3>2, <4>2
    <3>3. CASE d \notin s
      BY <1>6, <2>1, <2>2, <3>1, <3>3
    <3>4. QED
      BY <3>2, <3>3
  <2>6. QED
    BY <2>4, <2>5
<1>10. QED
  BY <1>8, <1>9

------------------------------------------------------------------------------
(***************************************************************************)
(* The recoveries of the WorkerMonitor.                                    *)
(***************************************************************************)
Sum == SumFunction(UnderWay)

ReportsOK == MonitorTypeOK /\ RecoveriesWereLapses

LEMMA RowCountsAreNat == RowCounts \subseteq Nat
  BY EventsAreFinite, FS_CardinalityType DEF RowCounts

LEMMA SumIsCounted ==
    ASSUME MonitorTypeOK
    PROVE  Sum \in Nat /\ Recovered \in Nat
<1>1. UnderWay \in [Monitors -> Nat]
  BY RowCountsAreNat DEF MonitorTypeOK, UnderWay
<1>2. QED
  BY <1>1, RowCountsAreNat, MonitorsAssumption, SumIsNat, RecoveredIsInRange DEF Sum

LEMMA RecoveredIsNatNext == Recovered' \in Nat
<1>1. InStatus("STALE")' \in SUBSET Events
  BY DEF InStatus
<1>2. QED
  BY <1>1, EventsAreFinite, FS_Subset, FS_CardinalityType DEF Recovered

LEMMA SumIsCountedNext ==
    ASSUME MonitorTypeOK'
    PROVE  Sum' \in Nat /\ Recovered' \in Nat
<1>1. UnderWay' \in [Monitors -> Nat]
  BY RowCountsAreNat DEF MonitorTypeOK, UnderWay
<1>2. QED
  BY <1>1, RecoveredIsNatNext, MonitorsAssumption, SumIsNat DEF Sum

\* What one check starts or ends changes the sum by its own count.
LEMMA SumOfOneCheck ==
    ASSUME MonitorTypeOK, MonitorTypeOK', NEW m \in Monitors,
           \A n \in Monitors \ {m} : recovering'[n] = recovering[n]
    PROVE  Sum' + UnderWay[m] = Sum + UnderWay'[m]
<1>1. /\ UnderWay \in [Monitors -> Nat]
      /\ UnderWay' \in [Monitors -> Nat]
  BY RowCountsAreNat DEF MonitorTypeOK, UnderWay
<1>2. \A n \in Monitors \ {m} : UnderWay'[n] = UnderWay[n]
  BY DEF UnderWay
<1>3. QED
  BY <1>1, <1>2, MonitorsAssumption, SumWithOneChange DEF Sum

\* A row leaves the stale ones, or a lease runs out and is counted.
LEMMA StaleRowsAreCounted ==
    ASSUME TypeOK, MonitorTypeOK, TableStep, observer = "monitor"
    PROVE  \E r \in Nat, n \in Nat :
                /\ Recovered' = r /\ r <= Recovered + n
                /\ lapses' = lapses + n
<1> DEFINE Stale == InStatus("STALE")
<1>0. Recovered \in Nat /\ Recovered' \in Nat /\ lapses \in Int
  BY SumIsCounted, RecoveredIsNatNext DEF MonitorTypeOK
<1>1. /\ IsFiniteSet(Stale) /\ IsFiniteSet(Stale')
      /\ Recovered \in Nat /\ Recovered' \in Nat
  <2>1. Stale \in SUBSET Events /\ Stale' \in SUBSET Events
    BY DEF InStatus
  <2>2. QED
    BY <2>1, EventsAreFinite, FS_Subset, FS_CardinalityType DEF Recovered, MonitorTypeOK
<1>2. CASE OtherTableStep
  <2>1. Stale' \subseteq Stale
    BY <1>2
    DEF OtherTableStep, CheckLimit, Publish, GiveUpPublishing, Claim, Mark, Redrive,
        Cleanup, Recover, tableVars, InStatus, TypeOK
  <2>2. Recovered' <= Recovered
    BY <1>1, <2>1, FS_Subset DEF Recovered
  <2>3. lapses' = lapses
    BY <1>2 DEF OtherTableStep, monitorVars
  <2>4. lapses' = lapses + 0
    BY <1>0, <2>3
  <2>5. Recovered' <= Recovered + 0
    BY <1>0, <2>2
  <2>6. QED
    BY <1>0, <2>4, <2>5
<1>3. ASSUME NEW e \in Events, Lapse(e)
      PROVE  Recovered' <= Recovered + 1 /\ lapses' = lapses + 1
  <2>1. Stale' = Stale \cup {e}
    BY <1>3 DEF Lapse, LeaseExpires, InStatus, TypeOK
  <2>2. Recovered' <= Recovered + 1
    BY <1>1, <2>1, FS_AddElement DEF Recovered
  <2>3. QED
    BY <1>3, <2>2 DEF Lapse
<1>4. QED
  BY <1>0, <1>2, <1>3 DEF TableStep

LEMMA ReportsInit == HealthInit => ReportsOK
<1> SUFFICES ASSUME HealthInit
             PROVE  ReportsOK
  OBVIOUS
<1>1. Cardinality(Events) \in Nat /\ MaxLapses \in Nat /\ RestartThreshold \in Nat
  BY EventsAreFinite, FS_CardinalityType, MonitorsAssumption
<1>2. MonitorTypeOK
  BY <1>1 DEF HealthInit, MonitorTypeOK, RowCounts
<1>3. UnderWay = [m \in Monitors |-> 0]
  BY DEF HealthInit, UnderWay
<1>4. SumFunction(UnderWay) = 0
  BY <1>3, SumOfZeros, MonitorsAssumption
<1>5. InStatus("STALE") = {}
  BY DEF HealthInit, Init, InStatus
<1>6. Recovered = 0
  BY <1>5, FS_EmptySet DEF Recovered
<1>7. QED
  BY <1>1, <1>2, <1>4, <1>6 DEF HealthInit, ReportsOK, RecoveriesWereLapses

LEMMA ReportsStep ==
    ASSUME TypeOK, ReportsOK, MonitorTypeOK', [HealthNext]_healthVars
    PROVE  RecoveriesWereLapses'
<1>1. observer' = observer
  BY DEF HealthNext, TableStep, WebhookStep, ProbeStep, MonitorStep, healthVars
<1> SUFFICES ASSUME observer = "monitor"
             PROVE  /\ reported' + Sum' + Recovered' <= lapses'
                    /\ restarts' * (RestartThreshold + 1) <= reported'
  BY <1>1 DEF RecoveriesWereLapses, Sum
<1>2. /\ reported + Sum + Recovered <= lapses
      /\ restarts * (RestartThreshold + 1) <= reported
  BY DEF ReportsOK, RecoveriesWereLapses, Sum
<1>3. /\ reported \in Nat /\ lapses \in Int /\ restarts \in Nat /\ Sum \in Nat
      /\ Recovered \in Nat /\ RestartThreshold \in Nat /\ RowCounts \subseteq Nat
      /\ lapses' \in Int /\ Recovered' \in Nat /\ Sum' \in Nat
  <2>1. Sum' \in Nat /\ Recovered' \in Nat
    BY SumIsCountedNext
  <2>2. QED
    BY <2>1, SumIsCounted, RowCountsAreNat, MonitorsAssumption DEF ReportsOK, MonitorTypeOK
<1>4. CASE TableStep
  <2>1. UNCHANGED <<recovering, reported, restarts>>
    BY <1>4 DEF TableStep, OtherTableStep, Lapse, monitorVars
  <2>2. Sum' = Sum
    BY <2>1 DEF Sum, UnderWay
  <2>3. PICK r \in Nat, n \in Nat :
            Recovered' = r /\ r <= Recovered + n /\ lapses' = lapses + n
    BY <1>4, StaleRowsAreCounted DEF ReportsOK
  <2>4. reported + Sum + r <= lapses + n
    BY <1>2, <1>3, <2>3
  <2>5. QED
    BY <1>2, <2>1, <2>2, <2>3, <2>4
<1>5. CASE WebhookStep \/ ProbeStep \/ UNCHANGED healthVars
  <2>1. UNCHANGED <<monitorVars, rows>>
    <3>1. ProbeStep \/ UNCHANGED healthVars => UNCHANGED <<monitorVars, rows>>
      BY DEF ProbeStep, healthVars, vars, tableVars
    <3>2. ~WebhookStep
      BY DEF WebhookStep
    <3>3. QED
      BY <1>5, <3>1, <3>2
  <2>2. Sum' = Sum /\ Recovered' = Recovered
    BY <2>1 DEF monitorVars, Sum, UnderWay, Recovered, InStatus
  <2>3. QED
    BY <1>2, <2>1, <2>2 DEF monitorVars
<1>6. ASSUME NEW m \in Monitors, CheckAndRecover(m)
      PROVE  /\ reported' + Sum' + Recovered' <= lapses'
             /\ restarts' * (RestartThreshold + 1) <= reported'
  <2>1. /\ UNCHANGED <<lapses, reported, restarts>>
        /\ recovering[m] = Idle /\ recovering'[m] = Recovered
        /\ \A n \in Monitors \ {m} : recovering'[n] = recovering[n]
    BY <1>6 DEF CheckAndRecover, ReportsOK, MonitorTypeOK
  <2>2. UnderWay[m] = 0 /\ UnderWay'[m] = Recovered
    BY <1>3, <2>1 DEF UnderWay, Idle
  <2>3. Sum' = Sum + Recovered
    BY <1>3, <2>1, <2>2, SumOfOneCheck DEF ReportsOK
  <2>4. InStatus("STALE")' = {}
    BY <1>6 DEF CheckAndRecover, Recover, InStatus, vars, tableVars, TypeOK
  <2>5. Recovered' = 0
    BY <2>4, FS_EmptySet DEF Recovered
  <2>6. QED
    BY <1>2, <1>3, <2>1, <2>3, <2>5
<1>7. ASSUME NEW m \in Monitors, RecoveryAnswered(m) \/ RecoveryFails(m)
      PROVE  /\ reported' + Sum' + Recovered' <= lapses'
             /\ restarts' * (RestartThreshold + 1) <= reported'
  <2> DEFINE count == recovering[m]
  <2>1. /\ count \in Nat /\ count # Idle /\ recovering'[m] = Idle
        /\ \A n \in Monitors \ {m} : recovering'[n] = recovering[n]
        /\ UNCHANGED <<rows, lapses>>
    BY <1>3, <1>7
    DEF RecoveryAnswered, RecoveryFails, ReportsOK, MonitorTypeOK, vars, tableVars
  <2>2. UnderWay[m] = count /\ UnderWay'[m] = 0
    BY <2>1 DEF UnderWay
  <2>3. Sum' + count = Sum
    BY <1>3, <2>1, <2>2, SumOfOneCheck DEF ReportsOK
  <2>4. Recovered' = Recovered
    BY <2>1 DEF Recovered, InStatus
  <2>5. \/ reported' = reported /\ restarts' = restarts
        \/ reported' = reported + count /\ restarts' = restarts
        \/ /\ reported' = reported + count /\ restarts' = restarts + 1
           /\ count > RestartThreshold
    BY <1>7 DEF RecoveryAnswered, RecoveryFails
  <2>6. (restarts + 1) * (RestartThreshold + 1)
            = restarts * (RestartThreshold + 1) + RestartThreshold + 1
    BY <1>3
  <2>7. restarts * (RestartThreshold + 1) \in Nat
    BY <1>3
  <2>8. restarts' * (RestartThreshold + 1) <= reported'
    BY <1>2, <1>3, <2>1, <2>5, <2>6, <2>7
  <2>9. reported' + Sum' + Recovered' <= lapses'
    <3>1. reported' <= reported + count /\ reported' \in Int
      BY <1>3, <2>1, <2>5
    <3>2. QED
      BY <1>2, <1>3, <2>1, <2>3, <2>4, <3>1
  <2>10. QED
    BY <2>8, <2>9
<1>8. QED
  BY <1>4, <1>5, <1>6, <1>7 DEF HealthNext, MonitorStep

\* For any number of monitors, checks that overlap and other reapers: no lapse
\* of a lease is reported to onStaleDetected twice, and onRestartNeeded is
\* called at most once for each RestartThreshold + 1 of them
\* (worker-monitor.ts:67-99).
THEOREM RecoveriesAreReportedOnce == HealthSpec => []RecoveriesWereLapses
<1>1. HealthInit => ReportsOK /\ HealthTypes
  <2>1. Cardinality(Events) \in Nat /\ MaxLapses \in Nat
    BY EventsAreFinite, FS_CardinalityType, MonitorsAssumption
  <2>2. QED
    BY <2>1, ReportsInit DEF HealthInit, HealthTypes, MonitorTypeOK, RowCounts
<1>2. TypeOK /\ ReportsOK /\ HealthTypes /\ [HealthNext]_healthVars
          => ReportsOK' /\ HealthTypes'
  BY HealthTypesStep, ReportsStep DEF HealthTypes, ReportsOK
<1>3. ReportsOK => RecoveriesWereLapses
  BY DEF ReportsOK
<1>4. QED
  BY <1>1, <1>2, <1>3, HealthKeepsMonitoring, MonitoringTypeCorrect, PTL DEF HealthSpec
==============================================================================
