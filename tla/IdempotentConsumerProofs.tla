---------------------- MODULE IdempotentConsumerProofs -----------------------
(***************************************************************************)
(* One execution per record, for any number of consumers, events and       *)
(* concurrent calls.  The two parts of the invariant go together: the      *)
(* bound on begun in InboxTypeOK follows from EffectsFollowRecords.        *)
(***************************************************************************)
EXTENDS IdempotentConsumer, TLAPS

IInv == InboxTypeOK /\ EffectsFollowRecords

LEMMA ConsumerInit == InboxInit => IInv
  BY CleanupsAssumption DEF InboxInit, IInv, InboxTypeOK, EffectsFollowRecords, Ended

\* The steps that move a call and touch neither records nor counts.
LEMMA InboxQuietStep ==
    ASSUME IInv, UNCHANGED <<primaryKey, inbox, begun, cleaned>>,
           at' \in [Calls -> InCall \cup Ended], op' \in [Calls -> Ops]
    PROVE  IInv'
  BY DEF IInv, InboxTypeOK, EffectsFollowRecords

LEMMA GotoType ==
    ASSUME InboxTypeOK, NEW c \in Calls, NEW from, NEW to \in InCall \cup Ended,
           Goto(c, from, to)
    PROVE  at' \in [Calls -> InCall \cup Ended]
  BY DEF InboxTypeOK, Goto

LEMMA MarkStep ==
    ASSUME IInv, NEW c \in Calls, MarkProcessed(c)
    PROVE  IInv'
<1> USE DEF InCall, Ended
<1>1. CASE Marked(op[c]) /\ Goto(c, "marking", "racing") /\ UNCHANGED <<inbox, begun>>
  BY <1>1, GotoType, InboxQuietStep DEF IInv, InboxTypeOK, MarkProcessed
<1>2. CASE Goto(c, "marking", "threw") /\ UNCHANGED <<inbox, begun>>
  BY <1>2, GotoType, InboxQuietStep DEF IInv, InboxTypeOK, MarkProcessed
<1>3. CASE /\ ~Marked(op[c])
           /\ Goto(c, "marking", "executing")
           /\ inbox' = inbox \cup {op[c]}
           /\ begun' = [begun EXCEPT ![op[c]] = @ + 1]
  <2>1. op[c] \in Ops /\ op[c] \notin inbox
    BY <1>3 DEF IInv, InboxTypeOK, Marked
  <2>2. UNCHANGED <<primaryKey, op, cleaned>>
    BY DEF MarkProcessed
  <2>3. at' \in [Calls -> InCall \cup Ended]
    BY <1>3, GotoType DEF IInv
  <2>4. begun[op[c]] <= cleaned[op[c]]
    BY <2>1 DEF IInv, InboxTypeOK, EffectsFollowRecords
  <2>5. begun' \in [Ops -> 0 .. Cleanups + 1]
    BY <1>3, <2>1, <2>4, CleanupsAssumption DEF IInv, InboxTypeOK
  <2>6. EffectsFollowRecords'
    <3>1. SUFFICES ASSUME NEW o \in Ops
                   PROVE  begun'[o] <= cleaned'[o] + (IF o \in inbox' THEN 1 ELSE 0)
      BY DEF EffectsFollowRecords
    <3>2. CASE o = op[c]
      BY <1>3, <2>1, <2>2, <2>4, <3>2, CleanupsAssumption DEF IInv, InboxTypeOK
    <3>3. CASE o # op[c]
      BY <1>3, <2>2, <3>3 DEF IInv, InboxTypeOK, EffectsFollowRecords
    <3>4. QED
      BY <3>2, <3>3
  <2>7. QED
    BY <1>3, <2>1, <2>2, <2>3, <2>5, <2>6 DEF IInv, InboxTypeOK
<1>4. QED
  BY <1>1, <1>2, <1>3 DEF MarkProcessed

LEMMA StoreFailsStep ==
    ASSUME IInv, NEW c \in Calls, StoreFails(c)
    PROVE  IInv'
<1>1. at' \in [Calls -> InCall \cup Ended]
  BY GotoType DEF IInv, StoreFails, InCall, Ended
<1>2. inbox \subseteq inbox' /\ inbox' \subseteq Ops
  BY DEF IInv, InboxTypeOK, StoreFails
<1>3. UNCHANGED <<primaryKey, op, begun, cleaned>>
  BY DEF StoreFails
<1>4. EffectsFollowRecords'
  <2>1. SUFFICES ASSUME NEW o \in Ops
                 PROVE  begun[o] <= cleaned[o] + (IF o \in inbox' THEN 1 ELSE 0)
    BY <1>3 DEF EffectsFollowRecords
  <2>2. begun[o] <= cleaned[o] + (IF o \in inbox THEN 1 ELSE 0)
    BY DEF IInv, EffectsFollowRecords
  <2>3. begun[o] \in Nat /\ cleaned[o] \in Nat
    BY CleanupsAssumption DEF IInv, InboxTypeOK
  <2>4. QED
    BY <1>2, <2>2, <2>3
<1>5. QED
  BY <1>1, <1>2, <1>3, <1>4 DEF IInv, InboxTypeOK

LEMMA CleanupStep ==
    ASSUME IInv, NEW S \in SUBSET inbox, Cleanup(S)
    PROVE  IInv'
<1>1. UNCHANGED <<primaryKey, at, op, begun>> /\ inbox' = inbox \ S
  BY DEF Cleanup
<1>2. cleaned' \in [Ops -> 0 .. Cleanups]
  BY CleanupsAssumption DEF IInv, InboxTypeOK, Cleanup
<1>3. EffectsFollowRecords'
  <2>1. SUFFICES ASSUME NEW o \in Ops
                 PROVE  begun[o] <= cleaned'[o] + (IF o \in inbox' THEN 1 ELSE 0)
    BY <1>1 DEF EffectsFollowRecords
  <2>2. /\ begun[o] <= cleaned[o] + (IF o \in inbox THEN 1 ELSE 0)
        /\ begun[o] \in Nat /\ cleaned[o] \in Nat
    BY CleanupsAssumption DEF IInv, InboxTypeOK, EffectsFollowRecords
  <2>3. cleaned'[o] = IF o \in S THEN cleaned[o] + 1 ELSE cleaned[o]
    BY DEF Cleanup
  <2>4. QED
    BY <1>1, <2>2, <2>3
<1>4. QED
  BY <1>1, <1>2, <1>3 DEF IInv, InboxTypeOK

LEMMA ConsumerNext == IInv /\ [InboxNext]_inboxVars => IInv'
<1>1. SUFFICES ASSUME IInv, [InboxNext]_inboxVars
               PROVE  IInv'
  OBVIOUS
<1> USE <1>1
<1>2. ASSUME NEW c \in Calls, NEW o \in Ops, Call(c, o)
      PROVE  IInv'
  BY <1>2, InboxQuietStep DEF IInv, InboxTypeOK, Call, InCall, Ended
<1>3. ASSUME NEW c \in Calls, GetRecord(c)
      PROVE  IInv'
  BY <1>3, GotoType, InboxQuietStep DEF IInv, InboxTypeOK, GetRecord, InCall, Ended
<1>4. ASSUME NEW c \in Calls, LoseRace(c)
      PROVE  IInv'
  BY <1>4, GotoType, InboxQuietStep DEF IInv, InboxTypeOK, LoseRace, InCall, Ended
<1>5. ASSUME NEW c \in Calls, Finish(c)
      PROVE  IInv'
  BY <1>5, GotoType, InboxQuietStep DEF IInv, InboxTypeOK, Finish, InCall, Ended
<1>6. ASSUME NEW c \in Calls, Crash(c)
      PROVE  IInv'
  BY <1>6, InboxQuietStep DEF IInv, InboxTypeOK, Crash, Ended
<1>7. CASE UNCHANGED inboxVars
  BY <1>7, InboxQuietStep DEF IInv, InboxTypeOK, inboxVars
<1>8. QED
  BY <1>2, <1>3, <1>4, <1>5, <1>6, <1>7, MarkStep, StoreFailsStep, CleanupStep DEF InboxNext

\* One execution per record: no redelivery, race or crash makes fn begin a
\* second time while the record of the first is kept.
THEOREM OneEffectPerRecord == InboxSpec => []EffectsFollowRecords
<1>1. InboxSpec => []IInv
  BY ConsumerInit, ConsumerNext, PTL DEF InboxSpec
<1>2. IInv => EffectsFollowRecords
  BY DEF IInv
<1>3. QED
  BY <1>1, <1>2, PTL

\* The type invariant, with the bounds on both counts.
THEOREM InboxTypeCorrect == InboxSpec => []InboxTypeOK
<1>1. InboxSpec => []IInv
  BY ConsumerInit, ConsumerNext, PTL DEF InboxSpec
<1>2. IInv => InboxTypeOK
  BY DEF IInv
<1>3. QED
  BY <1>1, <1>2, PTL

==============================================================================
