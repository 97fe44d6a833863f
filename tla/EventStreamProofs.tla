-------------------------- MODULE EventStreamProofs --------------------------
(***************************************************************************)
(* What the iterator and the snapshots do keep, for any table, batch size  *)
(* and number of replays: the iterator leaves no gaps, and a snapshot      *)
(* repeats no more events than begin while the clock that dates it is      *)
(* behind.  Then the same of the dashboard's pages and of a policy's rules.*)
(***************************************************************************)
EXTENDS Retention, FiniteSetTheorems, WellFoundedInduction, TLAPS

Paging(r) == at[r] \in {"streaming", "folding"}

\* What the iterator owes is visible, and it has read nothing before its
\* first page.
OwedIsVisible ==
    \A r \in Replays :
        /\ owed[r] \subseteq Visible
        /\ Paging(r) /\ lastId[r] = 0 => read[r] = {}

\* What is missing between the events read lies beyond the cursor.
GapsAreAhead ==
    \A r \in Replays : \A d \in read[r], e \in owed[r] :
        d < e /\ e \notin read[r] => Paging(r) /\ lastId[r] # 0 /\ lastId[r] < e

\* No two events have one date, and none is dated in the future.
DatesDiffer ==
    /\ \A e \in Aggregate : created[e] <= now
    /\ \A d \in Aggregate, e \in Aggregate :
          created[d] = created[e] /\ created[e] # 0 => d = e

\* What was inserted, and what was folded, has a date.
FoldedWasCreated ==
    /\ \A e \in Aggregate : rows[e] # "NEW" => created[e] # 0
    /\ \A r \in Replays : \A e \in state[r] : created[e] # 0
    /\ \A e \in snapshot.state : created[e] # 0

DatesInv == DatesDiffer /\ FoldedWasCreated /\ RepetitionIsBounded

IInv ==
    /\ TypeOK
    /\ OwedIsVisible
    /\ GapsAreAhead
    /\ DatesInv

LEMMA StreamInit == Init => IInv
<1>1. SUFFICES ASSUME Init
               PROVE  IInv
  OBVIOUS
<1>2. TypeOK /\ OwedIsVisible /\ GapsAreAhead
  BY <1>1, AggregateAssumption, FrequencyAssumption
  DEF Init, NoSnapshot, TypeOK, OwedIsVisible, GapsAreAhead, Ended, Paging
<1>3. DatesDiffer /\ FoldedWasCreated
  BY <1>1, AggregateAssumption DEF Init, NoSnapshot, DatesDiffer, FoldedWasCreated
<1>4. RepetitionIsBounded
  <2>1. Repeated = {}
    BY <1>1 DEF Init, NoSnapshot, Repeated
  <2>2. QED
    BY <2>1, FS_EmptySet, ClockAssumption DEF RepetitionIsBounded
<1>5. QED
  BY <1>2, <1>3, <1>4 DEF IInv, DatesInv

------------------------------------------------------------------------------
(***************************************************************************)
(* The dates.                                                              *)
(***************************************************************************)
\* They stand, whatever a step does that begins no transaction and saves no
\* snapshot.
LEMMA DatesStay ==
    ASSUME IInv, UNCHANGED <<now, created, snapshot>>,
           \A e \in Aggregate : rows'[e] # "NEW" => created[e] # 0,
           \A r \in Replays : \A e \in state'[r] : created[e] # 0
    PROVE  DatesInv'
<1>1. DatesDiffer' /\ FoldedWasCreated'
  BY DEF IInv, DatesInv, DatesDiffer, FoldedWasCreated
<1>2. Repeated' = Repeated
  BY DEF Repeated
<1>3. QED
  BY <1>1, <1>2 DEF IInv, DatesInv, RepetitionIsBounded

\* Dates that differ count: no more events are dated after some time than
\* transactions have begun since.
LEMMA EventsSince ==
    ASSUME TypeOK, DatesDiffer, NEW date \in Nat, date <= now,
           NEW S \in SUBSET Aggregate, \A e \in S : created[e] > date
    PROVE  Cardinality(S) <= now - date
<1> DEFINE f == [e \in S |-> created[e]]
           T == (date + 1) .. now
<1>1. now \in Nat /\ \A e \in S : created[e] \in Nat
  BY DEF TypeOK
<1>2. f \in [S -> T]
  BY <1>1 DEF DatesDiffer
<1>3. \A d \in S, e \in S : f[d] = f[e] => d = e
  BY <1>1 DEF DatesDiffer
<1>4. f \in Injection(S, T)
  BY <1>2, <1>3 DEF Injection, IsInjective
<1>5. IsFiniteSet(T) /\ Cardinality(T) = now - date
  <2>1. date + 1 \in Int /\ now \in Int
    BY <1>1
  <2>2. IsFiniteSet(T)
    BY <2>1, FS_Interval
  <2>3. Cardinality(T) = IF date + 1 > now THEN 0 ELSE now - (date + 1) + 1
    BY <2>1, FS_Interval
  <2>4. Cardinality(T) = now - date
    <3> HIDE DEF T
    <3>1. CASE date = now BY <1>1, <2>3, <3>1
    <3>2. CASE date < now BY <1>1, <2>3, <3>2
    <3>3. QED BY <1>1, <3>1, <3>2
  <2>5. QED BY <2>2, <2>4
<1>6. Cardinality(S) <= Cardinality(T)
  BY <1>4, <1>5, FS_Injection
<1>7. QED
  BY <1>5, <1>6

------------------------------------------------------------------------------
(***************************************************************************)
(* The outbox.                                                             *)
(***************************************************************************)
\* A row moves on, and a visible one stays visible.
LEMMA RowStep ==
    ASSUME IInv, NEW e \in Events,
           NEW s \in {"INSERTED", "OPEN", "COMPLETED"},
           rows' = [rows EXCEPT ![e] = s],
           s = "INSERTED" => rows[e] = "NEW" /\ (e \in Aggregate => created[e] # 0),
           s # "INSERTED" => rows[e] # "NEW",
           UNCHANGED <<now, created, replayVars>>
    PROVE  IInv'
<1> USE DEF replayVars
<1>1. TypeOK' BY DEF IInv, TypeOK
<1>2. Visible \subseteq Visible' BY DEF IInv, TypeOK, Visible
<1>3. OwedIsVisible' BY <1>2 DEF IInv, OwedIsVisible, Paging
<1>4. GapsAreAhead' BY DEF IInv, GapsAreAhead, Paging
<1>5. DatesInv'
  <2>1. \A d \in Aggregate : rows'[d] # "NEW" => created[d] # 0
    BY AggregateAssumption DEF IInv, TypeOK, DatesInv, FoldedWasCreated
  <2>2. \A r \in Replays : \A d \in state'[r] : created[d] # 0
    BY DEF IInv, DatesInv, FoldedWasCreated
  <2>3. QED BY <2>1, <2>2, DatesStay
<1>6. QED BY <1>1, <1>3, <1>4, <1>5 DEF IInv

\* A transaction takes a date nobody has, after all snapshots.
LEMMA TransactionStep ==
    ASSUME IInv, NEW e \in Events, BeginTransaction(e)
    PROVE  IInv'
<1>1. /\ e \in Aggregate /\ created[e] = 0 /\ now \in Nat
      /\ now' = now + 1
      /\ created' = [created EXCEPT ![e] = now + 1]
      /\ created \in [Aggregate -> Nat]
      /\ UNCHANGED <<rows, replayVars>>
  BY DEF BeginTransaction, IInv, TypeOK
<1>2. TypeOK' BY <1>1 DEF IInv, TypeOK, replayVars
<1>3. OwedIsVisible' /\ GapsAreAhead'
  BY <1>1 DEF IInv, OwedIsVisible, GapsAreAhead, Paging, Visible, replayVars
<1>4. DatesDiffer'
  BY <1>1 DEF IInv, DatesInv, DatesDiffer
<1>5. FoldedWasCreated'
  BY <1>1 DEF IInv, TypeOK, DatesInv, FoldedWasCreated, replayVars
<1>6. RepetitionIsBounded'
  <2>1. \A d \in snapshot.state : created'[d] = created[d]
    BY <1>1 DEF IInv, TypeOK, DatesInv, FoldedWasCreated
  <2>2. Repeated' = Repeated
    BY <1>1, <2>1 DEF Repeated, replayVars
  <2>3. QED BY <2>2 DEF IInv, DatesInv, RepetitionIsBounded
<1>7. QED BY <1>2, <1>3, <1>4, <1>5, <1>6 DEF IInv, DatesInv

LEMMA CleanupStep ==
    ASSUME IInv, NEW dead \in SUBSET Events, Cleanup(dead)
    PROVE  IInv'
<1> DEFINE gone == {e \in Events : rows[e] = "COMPLETED" \/ e \in dead}
<1>1. /\ rows' = [e \in Events |-> IF e \in gone THEN "DELETED" ELSE rows[e]]
      /\ owed' = [r \in Replays |-> owed[r] \ gone]
      /\ UNCHANGED <<now, created, at, lastId, read, fromDate, state, version, snapshot>>
  BY DEF Cleanup
<1>2. TypeOK' BY <1>1 DEF IInv, TypeOK
<1>3. Visible \ gone \subseteq Visible' BY <1>1 DEF Visible
<1>4. OwedIsVisible' BY <1>1, <1>3 DEF IInv, OwedIsVisible, Paging
<1>5. GapsAreAhead' BY <1>1 DEF IInv, GapsAreAhead, Paging
<1>6. DatesInv'
  <2>1. \A e \in Aggregate : rows'[e] # "NEW" => created[e] # 0
    <3>1. SUFFICES ASSUME NEW e \in Aggregate, rows'[e] # "NEW"
                   PROVE  created[e] # 0
      OBVIOUS
    <3>2. e \in Events /\ (e \in dead => rows[e] = "OPEN")
      BY AggregateAssumption DEF Cleanup
    <3>3. rows[e] # "NEW"
      BY <1>1, <3>1, <3>2
    <3>4. QED BY <3>3 DEF IInv, DatesInv, FoldedWasCreated
  <2>2. \A r \in Replays : \A e \in state'[r] : created[e] # 0
    BY <1>1 DEF IInv, DatesInv, FoldedWasCreated
  <2>3. QED BY <1>1, <2>1, <2>2, DatesStay
<1>7. QED BY <1>2, <1>4, <1>5, <1>6 DEF IInv

------------------------------------------------------------------------------
(***************************************************************************)
(* The iterator.                                                           *)
(***************************************************************************)
\* What an operation on one replay must establish for the iterator's part of
\* the invariant; the other replays keep theirs.
LEMMA OneReplay ==
    ASSUME IInv, NEW r \in Replays, UNCHANGED rows,
           NEW A, NEW L, NEW R, NEW O,
           at' = [at EXCEPT ![r] = A],
           lastId' = [lastId EXCEPT ![r] = L],
           read' = [read EXCEPT ![r] = R],
           owed' = [owed EXCEPT ![r] = O],
           O \subseteq Visible,
           A \in {"streaming", "folding"} /\ L = 0 => R = {},
           \A d \in R, e \in O :
               d < e /\ e \notin R => A \in {"streaming", "folding"} /\ L # 0 /\ L < e
    PROVE  OwedIsVisible' /\ GapsAreAhead'
<1>1. Visible' = Visible BY DEF Visible
<1>2. OwedIsVisible' BY <1>1 DEF IInv, TypeOK, OwedIsVisible, Paging
<1>3. GapsAreAhead'
  <2>1. SUFFICES ASSUME NEW q \in Replays, NEW d \in read'[q], NEW e \in owed'[q],
                        d < e, e \notin read'[q]
                 PROVE  Paging(q)' /\ lastId'[q] # 0 /\ lastId'[q] < e
    BY DEF GapsAreAhead
  <2>2. CASE q = r BY <2>1, <2>2 DEF IInv, TypeOK, Paging
  <2>3. CASE q # r BY <2>1, <2>3 DEF IInv, TypeOK, GapsAreAhead, Paging
  <2>4. QED BY <2>2, <2>3
<1>4. QED BY <1>2, <1>3

LEMMA BeginStep ==
    ASSUME IInv, NEW r \in Replays, NEW stage \in Running, Begin(r, stage), UNCHANGED rows
    PROVE  OwedIsVisible' /\ GapsAreAhead'
  BY OneReplay DEF Begin

\* A page is visible, and a row that it leaves out although the iterator owes
\* it or finds it beyond the cursor comes after the next cursor.
LEMMA PageLeavesNoGap ==
    ASSUME IInv, NEW r \in Replays, Paging(r), NEW page \in Pages(r),
           NEW O, O = owed[r] \cup (IF Follows(r) THEN After(lastId[r]) ELSE {}),
           NEW d \in read[r] \cup page, NEW e \in O, d < e, e \notin read[r] \cup page
    PROVE  Cardinality(page) = BatchSize /\ \A f \in page : f < e
<1>1. /\ page \subseteq After(lastId[r])
      /\ Cardinality(page) <= BatchSize
      /\ Cardinality(page) < BatchSize => page = After(lastId[r])
  BY DEF Pages, Beyond
<1>2. /\ Follows(r) => \A x \in page, y \in After(lastId[r]) \ page : x < y
      /\ ~Follows(r) => \A x \in page, y \in After(lastId[r]) \ page : y < x
  BY DEF Pages, Beyond
<1>3. Events \subseteq Nat
  BY IdAssumption
<1>4. lastId[r] \in Nat
  <2>1. lastId[r] \in Events \cup {0} BY DEF IInv, TypeOK
  <2>2. Events \cup {0} \subseteq Nat BY <1>3
  <2>3. QED BY <2>1, <2>2
<1>5. e \in Visible
  BY DEF IInv, OwedIsVisible, After
<1>6. Cardinality(page) \in Nat
  <2>1. page \subseteq Events BY <1>1 DEF After, Visible
  <2>2. QED BY <2>1, IdAssumption, FS_Subset, FS_CardinalityType
<1>7. CASE ~Follows(r)
  <2>1. read[r] = {} /\ lastId[r] = 0
    BY <1>7 DEF IInv, OwedIsVisible, Follows
  <2>2. d \in page BY <2>1
  <2>3. d \in Events /\ e \in Events
    BY <1>1, <1>5, <2>2 DEF After, Visible
  <2>4. 0 < e BY <2>3, IdAssumption
  <2>5. e \in After(lastId[r]) \ page
    BY <1>5, <2>1, <2>4 DEF After
  <2>6. e < d BY <1>2, <1>7, <2>2, <2>5
  <2>7. QED BY <1>3, <2>3, <2>6
<1>8. CASE Follows(r)
  <2>1. e \in Events BY <1>5 DEF Visible
  <2>2. e \in After(lastId[r])
    <3>1. CASE e \in After(lastId[r]) BY <3>1
    <3>2. CASE e \in owed[r] /\ d \in read[r]
      BY <1>5, <3>2 DEF IInv, GapsAreAhead, After
    <3>3. CASE e \in owed[r] /\ d \in page
      <4>1. d \in Events /\ lastId[r] < d BY <1>1, <3>3 DEF After, Visible
      <4>2. lastId[r] < e BY <1>3, <1>4, <2>1, <4>1
      <4>3. QED BY <1>5, <4>2 DEF After
    <3>4. QED BY <1>8, <3>1, <3>2, <3>3
  <2>3. page # After(lastId[r]) BY <2>2
  <2>4. Cardinality(page) = BatchSize
    BY <1>1, <1>6, <2>3, PageAssumption
  <2>5. \A f \in page : f < e BY <1>2, <1>8, <2>2
  <2>6. QED BY <2>4, <2>5
<1>9. QED BY <1>7, <1>8

LEMMA ReadPageStep ==
    ASSUME IInv, NEW r \in Replays, Paging(r), NEW page \in SUBSET Events,
           NEW next \in {"saving", "ended"}, ReadPage(r, page, next), UNCHANGED rows
    PROVE  /\ OwedIsVisible' /\ GapsAreAhead'
           /\ page \subseteq Visible
           /\ at' \in [Replays -> Running \cup Ended]
           /\ lastId' \in [Replays -> Events \cup {0}]
           /\ read' \in [Replays -> SUBSET Events]
           /\ owed' \in [Replays -> SUBSET Events]
<1> DEFINE R == read[r] \cup page
           O == owed[r] \cup (IF Follows(r) THEN After(lastId[r]) ELSE {})
<1>1. /\ page \in Pages(r)
      /\ read' = [read EXCEPT ![r] = R]
      /\ owed' = [owed EXCEPT ![r] = O]
  BY DEF ReadPage, IInv, TypeOK
<1>2. page \subseteq Visible /\ O \subseteq Visible
  BY <1>1 DEF Pages, Beyond, After, IInv, OwedIsVisible
<1>3. \A d \in R, e \in O : d < e /\ e \notin R =>
          Cardinality(page) = BatchSize /\ \A f \in page : f < e
  BY <1>1, PageLeavesNoGap
<1>4. /\ read' \in [Replays -> SUBSET Events]
      /\ owed' \in [Replays -> SUBSET Events]
  BY <1>1, <1>2 DEF IInv, TypeOK, Visible
<1>5. CASE Cardinality(page) = BatchSize
  <2>1. PICK oldest \in page : lastId' = [lastId EXCEPT ![r] = oldest]
    BY <1>5 DEF ReadPage
  <2>2. at' = [at EXCEPT ![r] = at[r]]
    BY <1>5 DEF ReadPage, IInv, TypeOK
  <2>3. oldest # 0 /\ oldest \in Events BY IdAssumption
  <2>4. \A d \in R, e \in O : d < e /\ e \notin R =>
            at[r] \in {"streaming", "folding"} /\ oldest # 0 /\ oldest < e
    BY <1>3, <2>3 DEF Paging
  <2>5. OwedIsVisible' /\ GapsAreAhead'
    BY <1>1, <1>2, <2>1, <2>2, <2>3, <2>4, OneReplay
  <2>6. QED BY <1>2, <1>4, <2>1, <2>2, <2>3, <2>5 DEF IInv, TypeOK
<1>6. CASE Cardinality(page) # BatchSize
  <2>1. /\ at' = [at EXCEPT ![r] = next]
        /\ lastId' = [lastId EXCEPT ![r] = 0]
    BY <1>6 DEF ReadPage
  <2>2. \A d \in R, e \in O : d < e /\ e \notin R =>
            next \in {"streaming", "folding"} /\ 0 # 0 /\ 0 < e
    BY <1>3, <1>6
  <2>3. next \notin {"streaming", "folding"} OBVIOUS
  <2>4. OwedIsVisible' /\ GapsAreAhead'
    BY <1>1, <1>2, <2>1, <2>2, <2>3, OneReplay
  <2>5. QED BY <1>2, <1>4, <2>1, <2>4 DEF IInv, TypeOK, Running, Ended
<1>7. QED BY <1>5, <1>6

LEMMA StreamPageStep ==
    ASSUME IInv, NEW r \in Replays, StreamPage(r)
    PROVE  IInv'
<1>1. PICK page \in SUBSET Events : ReadPage(r, page, "ended")
  BY DEF StreamPage
<1>2. Paging(r) /\ UNCHANGED <<rows, now, created, fromDate, state, version, snapshot>>
  BY DEF StreamPage, Paging, outbox
<1>3. /\ OwedIsVisible' /\ GapsAreAhead'
      /\ at' \in [Replays -> Running \cup Ended]
      /\ lastId' \in [Replays -> Events \cup {0}]
      /\ read' \in [Replays -> SUBSET Events]
      /\ owed' \in [Replays -> SUBSET Events]
  BY <1>1, <1>2, ReadPageStep
<1>4. TypeOK' BY <1>2, <1>3 DEF IInv, TypeOK
<1>5. DatesInv' BY <1>2, DatesStay DEF IInv, DatesInv, FoldedWasCreated
<1>6. QED BY <1>3, <1>4, <1>5 DEF IInv

------------------------------------------------------------------------------
(***************************************************************************)
(* ReplayService.                                                          *)
(***************************************************************************)
\* The snapshot's part of the invariant, and the types of a replay's locals,
\* when one replay's locals change and the snapshot does not.
LEMMA OneFold ==
    ASSUME IInv, NEW r \in Replays, UNCHANGED <<outbox, snapshot>>,
           NEW F \in Nat, NEW S \in SUBSET Aggregate, NEW v \in 0 .. SnapshotFrequency,
           fromDate' = [fromDate EXCEPT ![r] = F],
           state' = [state EXCEPT ![r] = S],
           version' = [version EXCEPT ![r] = v],
           \A e \in S : created[e] # 0
    PROVE  /\ fromDate' \in [Replays -> Nat]
           /\ state' \in [Replays -> SUBSET Aggregate]
           /\ version' \in [Replays -> 0 .. SnapshotFrequency]
           /\ DatesInv'
<1>1. /\ fromDate' \in [Replays -> Nat]
      /\ state' \in [Replays -> SUBSET Aggregate]
      /\ version' \in [Replays -> 0 .. SnapshotFrequency]
  BY DEF IInv, TypeOK
<1>2. DatesInv'
  <2>1. \A q \in Replays : \A e \in state'[q] : created[e] # 0
    BY DEF IInv, TypeOK, DatesInv, FoldedWasCreated
  <2>2. \A e \in Aggregate : rows'[e] # "NEW" => created[e] # 0
    BY DEF IInv, DatesInv, FoldedWasCreated, outbox
  <2>3. QED BY <2>1, <2>2, DatesStay DEF outbox
<1>3. QED BY <1>1, <1>2

LEMMA ReplayStep ==
    ASSUME IInv, NEW r \in Replays, Replay(r)
    PROVE  IInv'
<1>1. /\ UNCHANGED <<rows, now, created, fromDate, state, version, snapshot>>
      /\ Begin(r, "streaming")
  BY DEF Replay, outbox
<1>2. OwedIsVisible' /\ GapsAreAhead' BY <1>1, BeginStep DEF Running
<1>3. TypeOK' BY <1>1 DEF IInv, TypeOK, Begin, Running, Visible
<1>4. DatesInv' BY <1>1, DatesStay DEF IInv, DatesInv, FoldedWasCreated
<1>5. QED BY <1>2, <1>3, <1>4 DEF IInv

LEMMA ReplayToStateStep ==
    ASSUME IInv, NEW r \in Replays, ReplayToState(r)
    PROVE  IInv'
<1>1. UNCHANGED <<outbox, snapshot>> /\ Begin(r, "folding")
  BY DEF ReplayToState
<1>2. /\ snapshot.createdAt \in Nat
      /\ snapshot.state \in SUBSET Aggregate
      /\ snapshot.version \in 0 .. SnapshotFrequency
      /\ \A e \in snapshot.state : created[e] # 0
  BY DEF IInv, TypeOK, DatesInv, FoldedWasCreated
<1>3. /\ fromDate' \in [Replays -> Nat]
      /\ state' \in [Replays -> SUBSET Aggregate]
      /\ version' \in [Replays -> 0 .. SnapshotFrequency]
      /\ DatesInv'
  BY <1>1, <1>2, OneFold DEF ReplayToState
<1>4. OwedIsVisible' /\ GapsAreAhead' BY <1>1, BeginStep DEF Running, outbox
<1>5. TypeOK' BY <1>1, <1>3 DEF IInv, TypeOK, Begin, Running, Visible, outbox
<1>6. QED BY <1>3, <1>4, <1>5 DEF IInv

LEMMA ForgetStep ==
    ASSUME IInv, NEW r \in Replays, UNCHANGED <<outbox, snapshot>>, Forget(r)
    PROVE  /\ fromDate' \in [Replays -> Nat]
           /\ state' \in [Replays -> SUBSET Aggregate]
           /\ version' \in [Replays -> 0 .. SnapshotFrequency]
           /\ DatesInv'
<1>1. 0 \in Nat /\ {} \in SUBSET Aggregate /\ 0 \in 0 .. SnapshotFrequency
  BY FrequencyAssumption
<1>2. /\ fromDate' = [fromDate EXCEPT ![r] = 0]
      /\ state' = [state EXCEPT ![r] = {}]
      /\ version' = [version EXCEPT ![r] = 0]
  BY DEF Forget
<1>3. \A e \in {} : created[e] # 0
  OBVIOUS
<1>4. QED BY <1>1, <1>2, <1>3, OneFold

LEMMA FoldPageStep ==
    ASSUME IInv, NEW r \in Replays, FoldPage(r)
    PROVE  IInv'
<1>1. PICK page \in SUBSET Events :
          LET folded == {e \in page : Matches(r, e)}
              counted == CountTo(version[r] + Cardinality(folded)) IN
          /\ ReadPage(r, page, IF counted = SnapshotFrequency THEN "saving" ELSE "ended")
          /\ IF at'[r] = "ended"
             THEN Forget(r)
             ELSE /\ state' = [state EXCEPT ![r] = @ \cup folded]
                  /\ version' = [version EXCEPT ![r] = counted]
                  /\ UNCHANGED fromDate
  BY DEF FoldPage
<1> DEFINE folded == {e \in page : Matches(r, e)}
           counted == CountTo(version[r] + Cardinality(folded))
           next == IF counted = SnapshotFrequency THEN "saving" ELSE "ended"
<1>2. Paging(r) /\ UNCHANGED <<outbox, snapshot>> /\ UNCHANGED <<rows, now, created>>
  BY DEF FoldPage, Paging, outbox
<1>3. next \in {"saving", "ended"} OBVIOUS
<1>4. /\ OwedIsVisible' /\ GapsAreAhead'
      /\ page \subseteq Visible
      /\ at' \in [Replays -> Running \cup Ended]
      /\ lastId' \in [Replays -> Events \cup {0}]
      /\ read' \in [Replays -> SUBSET Events]
      /\ owed' \in [Replays -> SUBSET Events]
  <2>1. ReadPage(r, page, next) BY <1>1
  <2> HIDE DEF next
  <2>2. QED BY <1>2, <1>3, <2>1, ReadPageStep
<1>5. folded \subseteq Aggregate /\ \A e \in folded : created[e] # 0
  BY DEF Matches, IInv, DatesInv, FoldedWasCreated
<1>6. counted \in 0 .. SnapshotFrequency
  <2>1. Cardinality(folded) \in Nat
    BY IdAssumption, FS_Subset, FS_CardinalityType
  <2>2. version[r] \in Nat BY FrequencyAssumption DEF IInv, TypeOK
  <2> HIDE DEF folded
  <2>3. QED BY <2>1, <2>2, FrequencyAssumption DEF CountTo
<1>7. /\ fromDate' \in [Replays -> Nat]
      /\ state' \in [Replays -> SUBSET Aggregate]
      /\ version' \in [Replays -> 0 .. SnapshotFrequency]
      /\ DatesInv'
  <2>1. CASE at'[r] = "ended"
    <3>1. Forget(r) BY <1>1, <2>1
    <3>2. QED BY <1>2, <3>1, ForgetStep
  <2>2. CASE at'[r] # "ended"
    <3>1. /\ state' = [state EXCEPT ![r] = state[r] \cup folded]
          /\ version' = [version EXCEPT ![r] = counted]
          /\ fromDate' = [fromDate EXCEPT ![r] = fromDate[r]]
      BY <1>1, <2>2 DEF IInv, TypeOK
    <3> HIDE DEF folded, counted
    <3>2. /\ fromDate[r] \in Nat
          /\ state[r] \cup folded \in SUBSET Aggregate
          /\ \A e \in state[r] \cup folded : created[e] # 0
      BY <1>5 DEF IInv, TypeOK, DatesInv, FoldedWasCreated
    <3>3. QED BY <1>2, <1>6, <3>1, <3>2, OneFold
  <2>3. QED BY <2>1, <2>2
<1>8. TypeOK' BY <1>2, <1>4, <1>7 DEF IInv, TypeOK
<1>9. QED BY <1>4, <1>7, <1>8 DEF IInv

\* A snapshot bears a date that is at most Lag behind, so no more than Lag of
\* the events in it are dated later.
LEMMA SaveStep ==
    ASSUME IInv, NEW r \in Replays, Save(r)
    PROVE  IInv'
<1>1. PICK date \in NewDate(r) :
          snapshot' = [state |-> state[r], version |-> version[r], createdAt |-> date]
  BY DEF Save
<1>2. /\ at' = [at EXCEPT ![r] = "ended"]
      /\ fromDate' = [fromDate EXCEPT ![r] = 0]
      /\ state' = [state EXCEPT ![r] = {}]
      /\ version' = [version EXCEPT ![r] = 0]
      /\ UNCHANGED <<rows, now, created, lastId, read, owed>>
  BY DEF Save, Forget, outbox
<1>3. TypeOK'
  <2>1. date \in Nat BY DEF NewDate
  <2>2. /\ fromDate' \in [Replays -> Nat]
        /\ state' \in [Replays -> SUBSET Aggregate]
        /\ version' \in [Replays -> 0 .. SnapshotFrequency]
        /\ at' \in [Replays -> Running \cup Ended]
    BY <1>2, FrequencyAssumption DEF IInv, TypeOK, Ended
  <2>3. snapshot' \in [state : SUBSET Aggregate, version : 0 .. SnapshotFrequency,
                       createdAt : Nat]
    BY <1>1, <2>1 DEF IInv, TypeOK
  <2>4. QED BY <1>2, <2>2, <2>3 DEF IInv, TypeOK
<1>4. OwedIsVisible' /\ GapsAreAhead'
  <2> DEFINE L == lastId[r]
             R == read[r]
             O == owed[r]
  <2>1. /\ at' = [at EXCEPT ![r] = "ended"]
        /\ lastId' = [lastId EXCEPT ![r] = L]
        /\ read' = [read EXCEPT ![r] = R]
        /\ owed' = [owed EXCEPT ![r] = O]
        /\ UNCHANGED rows
    BY <1>2 DEF IInv, TypeOK, outbox
  <2>2. /\ O \subseteq Visible
        /\ \A d \in R, e \in O : ~(d < e /\ e \notin R)
    BY DEF IInv, OwedIsVisible, GapsAreAhead, Save, Paging
  <2>3. "ended" \notin {"streaming", "folding"} OBVIOUS
  <2> HIDE DEF L, R, O
  <2>4. \A d \in R, e \in O : d < e /\ e \notin R =>
            "ended" \in {"streaming", "folding"} /\ L # 0 /\ L < e
    BY <2>2
  <2>5. QED BY <2>1, <2>2, <2>3, <2>4, OneReplay
<1>5. DatesDiffer' /\ FoldedWasCreated'
  BY <1>1, <1>2 DEF IInv, TypeOK, DatesInv, DatesDiffer, FoldedWasCreated
<1>6. RepetitionIsBounded'
  <2> DEFINE S == {e \in state[r] : created[e] > date}
  <2>1. /\ date \in Nat /\ now \in Nat /\ now <= date + Lag
        /\ S \in SUBSET Aggregate
    BY DEF NewDate, IInv, TypeOK
  <2>2. Repeated' = S
    BY <1>1, <1>2 DEF Repeated
  <2>3. Cardinality(S) <= Lag
    <3>1. CASE date <= now
      <4>1. TypeOK /\ DatesDiffer /\ \A e \in S : created[e] > date
        BY DEF IInv, DatesInv
      <4> HIDE DEF S
      <4>2. Cardinality(S) <= now - date
        BY <2>1, <3>1, <4>1, EventsSince
      <4>3. Cardinality(S) \in Nat
        BY <2>1, AggregateAssumption, IdAssumption, FS_Subset, FS_CardinalityType
      <4>4. QED
        BY <2>1, <4>2, <4>3, ClockAssumption
    <3>2. CASE ~(date <= now)
      <4>1. S = {}
        BY <2>1, <3>2 DEF IInv, TypeOK, DatesInv, DatesDiffer
      <4>2. QED
        BY <4>1, FS_EmptySet, ClockAssumption
    <3>3. QED
      BY <3>1, <3>2
  <2>4. QED
    BY <2>2, <2>3 DEF RepetitionIsBounded
<1>7. QED BY <1>3, <1>4, <1>5, <1>6 DEF IInv, DatesInv

LEMMA DeleteSnapshotStep ==
    ASSUME IInv, DeleteSnapshot
    PROVE  IInv'
<1>1. UNCHANGED <<rows, now, created, at, lastId, read, owed, fromDate, state, version>>
  BY DEF DeleteSnapshot, outbox
<1>2. snapshot' = [state |-> {}, version |-> 0, createdAt |-> 0]
  BY DEF DeleteSnapshot, NoSnapshot
<1>3. TypeOK' BY <1>1, <1>2, FrequencyAssumption DEF IInv, TypeOK
<1>4. OwedIsVisible' /\ GapsAreAhead'
  BY <1>1 DEF IInv, OwedIsVisible, GapsAreAhead, Paging, Visible
<1>5. DatesDiffer' /\ FoldedWasCreated'
  BY <1>1, <1>2 DEF IInv, DatesInv, DatesDiffer, FoldedWasCreated
<1>6. RepetitionIsBounded'
  <2>1. Repeated' = {} BY <1>2 DEF Repeated
  <2>2. QED BY <2>1, FS_EmptySet, ClockAssumption DEF RepetitionIsBounded
<1>7. QED BY <1>3, <1>4, <1>5, <1>6 DEF IInv, DatesInv

LEMMA AbandonStep ==
    ASSUME IInv, NEW r \in Replays, Abandon(r)
    PROVE  IInv'
<1>1. /\ at' = [at EXCEPT ![r] = "none"]
      /\ lastId' = [lastId EXCEPT ![r] = 0]
      /\ read' = [read EXCEPT ![r] = {}]
      /\ owed' = [owed EXCEPT ![r] = {}]
      /\ Forget(r)
      /\ UNCHANGED <<outbox, snapshot>> /\ UNCHANGED <<rows, now, created>>
  BY DEF Abandon, outbox
<1>2. /\ fromDate' \in [Replays -> Nat]
      /\ state' \in [Replays -> SUBSET Aggregate]
      /\ version' \in [Replays -> 0 .. SnapshotFrequency]
      /\ DatesInv'
  BY <1>1, ForgetStep
<1>3. OwedIsVisible' /\ GapsAreAhead'
  BY <1>1, OneReplay
<1>4. TypeOK' BY <1>1, <1>2 DEF IInv, TypeOK, Ended
<1>5. QED BY <1>2, <1>3, <1>4 DEF IInv

------------------------------------------------------------------------------
LEMMA StreamStep ==
    ASSUME IInv, [Next]_vars
    PROVE  IInv'
<1>0. ASSUME NEW e \in Events, BeginTransaction(e) PROVE IInv'
  BY <1>0, TransactionStep
<1>1. ASSUME NEW e \in Events, Insert(e) PROVE IInv'
  BY <1>1, RowStep DEF Insert
<1>2. ASSUME NEW e \in Events, Commit(e) PROVE IInv'
  BY <1>2, RowStep DEF Commit
<1>3. ASSUME NEW e \in Events, Complete(e) PROVE IInv'
  BY <1>3, RowStep DEF Complete
<1>4. ASSUME NEW dead \in SUBSET Events, Cleanup(dead) PROVE IInv'
  BY <1>4, CleanupStep
<1>5. ASSUME NEW r \in Replays,
             \/ Replay(r) \/ StreamPage(r)
             \/ ReplayToState(r) \/ FoldPage(r) \/ Save(r)
             \/ Abandon(r)
      PROVE  IInv'
  BY <1>5, ReplayStep, StreamPageStep, ReplayToStateStep, FoldPageStep, SaveStep, AbandonStep
<1>6. CASE DeleteSnapshot
  BY <1>6, DeleteSnapshotStep
<1>7. CASE UNCHANGED vars
  BY <1>7 DEF vars, outbox, replayVars, IInv, TypeOK, OwedIsVisible, GapsAreAhead,
              DatesInv, DatesDiffer, FoldedWasCreated, RepetitionIsBounded, Repeated,
              Paging, Visible
<1>8. QED
  BY <1>0, <1>1, <1>2, <1>3, <1>4, <1>5, <1>6, <1>7 DEF Next

THEOREM StreamInvariant == Spec => []IInv
  BY StreamInit, StreamStep, PTL DEF Spec

\* The variables of the iterator, the replays and the snapshot store have
\* their types.
THEOREM StreamTypeCorrect == Spec => []TypeOK
<1>1. IInv => TypeOK BY DEF IInv
<1>2. QED BY StreamInvariant, <1>1, PTL

\* EventStream's iterator leaves no gaps (event-stream.ts:40-66): at its end
\* GapsAreAhead has nowhere left to put a missing event.
THEOREM IteratorLeavesNoGaps == Spec => []NoGaps
<1>1. IInv => NoGaps
  BY DEF IInv, GapsAreAhead, NoGaps, Paging
<1>2. QED BY StreamInvariant, <1>1, PTL

\* A snapshot repeats no more events than begin while the clock that dates it
\* is behind the database's (replay-service.ts:108-134, snapshot-manager.ts:99),
\* for any margins of the clock.
THEOREM RepetitionFollowsLag == Spec => []RepetitionIsBounded
<1>1. IInv => RepetitionIsBounded BY DEF IInv, DatesInv
<1>2. QED BY StreamInvariant, <1>1, PTL

\* If no process's clock is behind the database's, then no event is folded on
\* both sides of a snapshot, however far the clocks may be ahead.
THEOREM ClocksNotBehindRepeatNothing ==
    ASSUME Lag = 0
    PROVE  Spec => [](Repeated = {})
<1>1. IInv => Repeated = {}
  <2>1. SUFFICES ASSUME IInv
                 PROVE  Repeated = {}
    OBVIOUS
  <2>2. Repeated \in SUBSET Aggregate /\ Cardinality(Repeated) <= 0
    BY <2>1 DEF IInv, DatesInv, RepetitionIsBounded, TypeOK, Repeated
  <2>3. IsFiniteSet(Repeated)
    BY <2>2, AggregateAssumption, IdAssumption, FS_Subset
  <2>4. Cardinality(Repeated) = 0
    BY <2>2, <2>3, FS_CardinalityType
  <2>5. QED BY <2>3, <2>4, FS_EmptySet
<1>2. QED BY StreamInvariant, <1>1, PTL

------------------------------------------------------------------------------
(***************************************************************************)
(* The dashboard.                                                          *)
(***************************************************************************)
\* What is due is there, and a client without a page has claimed nothing.
DueIsVisible ==
    /\ due \subseteq Visible
    /\ span \subseteq Events
    /\ viewer # "paging" => span = {}

PageInv == DueIsVisible /\ PagesSkipNothing

\* A page shows all that is visible where its answer claims to cover.
LEMMA ItemsCoverTheirRange ==
    ASSUME NEW cursor, NEW S \in FindRecent(cursor, Limit + 1),
           NEW e \in Visible,
           e \in Covered(cursor, Items(cursor, S), Cardinality(S) > Limit)
    PROVE  e \in Items(cursor, S)
<1> DEFINE items == Items(cursor, S)
<1>1. /\ S \subseteq Sought(cursor) /\ IsFiniteSet(S)
      /\ Sought(cursor) \subseteq Events
  BY IdAssumption, FS_Subset DEF FindRecent, Sought, Visible
<1>2. Cardinality(S) \in Nat
  BY <1>1, FS_CardinalityType
<1>3. e \in Sought(cursor)
  BY DEF Covered, Sought
<1>4. CASE Cardinality(S) <= Limit
  <2>1. S = Sought(cursor)
    BY <1>2, <1>4, LimitAssumption DEF FindRecent
  <2>2. QED
    BY <1>3, <1>4, <2>1 DEF Items
<1>5. CASE ~(Cardinality(S) <= Limit)
  <2>1. PICK i \in items : e = i \/ Nearer(cursor, e, i)
    BY <1>2, <1>5, LimitAssumption DEF Covered
  <2>2. i \in S /\ i \in Int /\ e \in Int
    <3>1. i \in S
      BY <2>1 DEF Items
    <3>2. e \in Events /\ i \in Events
      BY <1>1, <3>1 DEF Visible
    <3>3. QED
      BY <3>1, <3>2, IdAssumption
  <2>3. e \in S
    <3>1. SUFFICES ASSUME e \notin S PROVE FALSE
      OBVIOUS
    <3>2. Nearer(cursor, i, e)
      BY <1>3, <2>2, <3>1 DEF FindRecent
    <3>3. QED
      BY <2>1, <2>2, <3>1, <3>2 DEF Nearer
  <2>4. CASE cursor[1] = "after"
    <3>1. i \notin NewestOf(S)
      BY <1>5, <2>1, <2>4 DEF Items
    <3>2. PICK d \in S : ~(d <= i)
      BY <2>2, <3>1 DEF NewestOf
    <3>3. d \in Int /\ e <= i
      BY <1>1, <2>1, <2>2, <2>4, <3>2, IdAssumption DEF Nearer
    <3>4. e \notin NewestOf(S)
      BY <2>2, <3>2, <3>3 DEF NewestOf
    <3>5. QED
      BY <1>5, <2>3, <2>4, <3>4 DEF Items
  <2>5. CASE cursor[1] # "after"
    <3>1. i \notin OldestOf(S)
      BY <1>5, <2>1, <2>5 DEF Items
    <3>2. PICK d \in S : ~(i <= d)
      BY <2>2, <3>1 DEF OldestOf
    <3>3. d \in Int /\ i <= e
      BY <1>1, <2>1, <2>2, <2>5, <3>2, IdAssumption DEF Nearer
    <3>4. e \notin OldestOf(S)
      BY <2>2, <3>2, <3>3 DEF OldestOf
    <3>5. QED
      BY <1>5, <2>3, <2>5, <3>4 DEF Items
  <2>6. QED
    BY <2>4, <2>5
<1>6. QED
  BY <1>4, <1>5

\* A request keeps the promise for what is due among the visible rows.
LEMMA RequestKeepsPromise ==
    ASSUME NEW cursor, GetRecentEvents(cursor), span \subseteq Events,
           NEW D, D \subseteq Visible, D \cap span \subseteq shown
    PROVE  /\ D \cap span' \subseteq shown'
           /\ span' \subseteq Events
<1>1. PICK S \in FindRecent(cursor, Limit + 1) :
          /\ span' = span \cup Covered(cursor, Items(cursor, S), Cardinality(S) > Limit)
          /\ shown' = shown \cup Items(cursor, S)
  BY DEF GetRecentEvents
<1>2. ASSUME NEW e \in D, e \in span'
      PROVE  e \in shown'
  <2>1. CASE e \in span
    BY <1>1, <2>1
  <2>2. CASE e \in Covered(cursor, Items(cursor, S), Cardinality(S) > Limit)
    BY <1>1, <2>2, ItemsCoverTheirRange
  <2>3. QED
    BY <1>1, <1>2, <2>1, <2>2
<1>3. span' \subseteq Events
  BY <1>1 DEF Covered
<1>4. QED
  BY <1>2, <1>3

LEMMA ClientKeepsPromise ==
    ASSUME PageInv, ClientStep
    PROVE  PageInv'
<1>1. Visible' = Visible
  BY DEF ClientStep, vars, outbox, Visible
<1>2. ASSUME NEW cursor, GetRecentEvents(cursor), viewer' = "paging",
             due' \subseteq Visible, due' \cap span \subseteq shown
      PROVE  PageInv'
  <2>1. due' \cap span' \subseteq shown' /\ span' \subseteq Events
    BY <1>2, RequestKeepsPromise DEF PageInv, DueIsVisible
  <2>2. QED
    BY <1>1, <1>2, <2>1 DEF PageInv, DueIsVisible, PagesSkipNothing
<1>3. CASE Open
  <2>1. due' = Visible /\ viewer' = "paging" /\ span = {}
    BY <1>3 DEF Open, PageInv, DueIsVisible
  <2>2. PICK cursor : GetRecentEvents(cursor)
    BY <1>3 DEF Open
  <2>3. QED
    BY <1>2, <2>1, <2>2
<1>4. CASE LoadOlder \/ LoadNewer
  <2>1. due' = due /\ viewer' = "paging"
    BY <1>4 DEF LoadOlder, LoadNewer
  <2>2. PICK cursor : GetRecentEvents(cursor)
    BY <1>4 DEF LoadOlder, LoadNewer
  <2>3. QED
    BY <1>2, <2>1, <2>2 DEF PageInv, DueIsVisible, PagesSkipNothing
<1>5. CASE Leave
  BY <1>5 DEF Leave, PageInv, DueIsVisible, PagesSkipNothing
<1>6. QED
  BY <1>3, <1>4, <1>5 DEF ClientStep

\* No step of the outbox hides a row but the one that deletes it.
LEMMA OutboxKeepsVisible ==
    ASSUME TypeOK, NEW e \in Visible,
           \/ \E d \in Events : BeginTransaction(d) \/ Insert(d) \/ Commit(d) \/ Complete(d)
           \/ \E dead \in SUBSET Events : Cleanup(dead),
           rows'[e] # "DELETED"
    PROVE  e \in Visible'
<1>1. ASSUME NEW d \in Events, BeginTransaction(d) \/ Insert(d) \/ Commit(d) \/ Complete(d)
      PROVE  e \in Visible'
  BY <1>1 DEF TypeOK, Visible, BeginTransaction, Insert, Commit, Complete
<1>2. ASSUME NEW dead \in SUBSET Events, Cleanup(dead)
      PROVE  e \in Visible'
  BY <1>2 DEF Visible, Cleanup
<1>3. QED
  BY <1>1, <1>2

LEMMA PageStep ==
    ASSUME TypeOK, PageInv, [DashboardNext]_dashboardVars
    PROVE  PageInv'
<1>1. CASE OutboxStep
  <2>1. due' \subseteq Visible'
    BY <1>1, OutboxKeepsVisible DEF OutboxStep, PageInv, DueIsVisible
  <2>2. QED
    BY <1>1, <2>1 DEF OutboxStep, PageInv, DueIsVisible, PagesSkipNothing
<1>2. CASE ReplaysStep
  <2>1. Visible' = Visible
    BY <1>2 DEF ReplaysStep, Replay, StreamPage, ReplayToState, FoldPage, Save, Abandon,
                DeleteSnapshot, Visible, outbox
  <2>2. QED
    BY <1>2, <2>1 DEF ReplaysStep, clientVars, PageInv, DueIsVisible, PagesSkipNothing
<1>3. CASE ClientStep
  BY <1>3, ClientKeepsPromise
<1>4. CASE UNCHANGED dashboardVars
  BY <1>4 DEF dashboardVars, vars, outbox, clientVars, PageInv, DueIsVisible, PagesSkipNothing,
              Visible
<1>5. QED
  BY <1>1, <1>2, <1>3, <1>4 DEF DashboardNext

\* A client reads and no more, so what is proved of the stream holds beside it.
THEOREM DashboardKeepsStream == DashboardSpec => Spec
<1>1. DashboardInit => Init
  BY DEF DashboardInit
<1>2. [DashboardNext]_dashboardVars => [Next]_vars
  BY DEF DashboardNext, OutboxStep, ReplaysStep, ClientStep, dashboardVars, Next
<1>3. QED
  BY <1>1, <1>2, PTL DEF DashboardSpec, Spec

\* Turning the pages of getRecentEvents (dashboard-api.ts:20-77) skips nothing
\* that was there all the time, for any table and page size.
THEOREM PagingSkipsNothing == DashboardSpec => []PagesSkipNothing
<1>1. DashboardInit => PageInv
  BY DEF DashboardInit, PageInv, DueIsVisible, PagesSkipNothing
<1>2. TypeOK /\ PageInv /\ [DashboardNext]_dashboardVars => PageInv'
  BY PageStep
<1>3. PageInv => PagesSkipNothing
  BY DEF PageInv
<1>4. QED
  BY <1>1, <1>2, <1>3, DashboardKeepsStream, StreamTypeCorrect, PTL DEF DashboardSpec

------------------------------------------------------------------------------
(***************************************************************************)
(* The policy's loop.  A place it has passed is missed if no rule it looked *)
(* at stands there, be it that the list has become shorter than that.      *)
(***************************************************************************)
Missed(list, n, found) == {i \in 1..n : i \in 1..Len(list) => list[i] \notin found}

ListInv ==
    /\ rules \in Seq(Rules)
    /\ applying \in [Applies -> {"no", "waiting", "returned"}]
    /\ passed \in [Applies -> Nat]
    /\ seen \in [Applies -> SUBSET Rules]
    /\ dropped \in [Applies -> Nat]

MissedForRemovals ==
    \A a \in Applies :
        applying[a] = "waiting" =>
            Cardinality(Missed(rules, passed[a], seen[a])) <= dropped[a]

PolicyInv == ListInv /\ MissedForRemovals

LEMMA MissedIsFinite ==
    ASSUME NEW list, NEW n \in Nat, NEW found
    PROVE  IsFiniteSet(Missed(list, n, found)) /\ Cardinality(Missed(list, n, found)) \in Nat
<1>1. IsFiniteSet(1..n)
  BY FS_Interval
<1>2. Missed(list, n, found) \in SUBSET (1..n)
  BY DEF Missed
<1>3. QED
  BY <1>1, <1>2, FS_Subset, FS_CardinalityType

\* What is missed of a smaller set of places is no more.
LEMMA FewerAreMissed ==
    ASSUME NEW list, NEW n \in Nat, NEW found,
           NEW S, S \subseteq Missed(list, n, found)
    PROVE  Cardinality(S) <= Cardinality(Missed(list, n, found))
BY MissedIsFinite, FS_Subset

\* A removal moves the rules behind it up, one of them perhaps past the loop.
LEMMA RemovalMissesOneMore ==
    ASSUME rules \in Seq(Rules), NEW i \in DOMAIN rules, NEW n \in Nat, NEW found
    PROVE  Cardinality(Missed(Without(i), n, found))
               <= Cardinality(Missed(rules, n, found)) + 1
<1> DEFINE S == Missed(Without(i), n, found)
           M == Missed(rules, n, found)
           T == M \cup {n + 1}
           f == [j \in S |-> IF j < i THEN j ELSE j + 1]
<1>1. /\ Len(rules) \in Nat /\ DOMAIN rules = 1..Len(rules)
      /\ i \in 1..Len(rules)
  OBVIOUS
<1>2. Len(Without(i)) = Len(rules) - 1
  BY <1>1 DEF Without
<1>3. ASSUME NEW j \in S
      PROVE  f[j] \in T
  <2>1. j \in 1..n /\ (j \in 1..(Len(rules) - 1) => Without(i)[j] \notin found)
    BY <1>2 DEF Missed
  <2>2. CASE j < i
    <3>1. j \in 1..(Len(rules) - 1) /\ j \in 1..Len(rules)
      BY <1>1, <2>1, <2>2
    <3>2. rules[j] \notin found
      BY <2>1, <2>2, <3>1 DEF Without
    <3>3. j \in M
      BY <2>1, <3>2 DEF Missed
    <3>4. QED
      BY <2>2, <3>3
  <2>3. CASE ~(j < i)
    <3>1. j + 1 \in 1..(n + 1) /\ f[j] = j + 1
      BY <2>1, <2>3
    <3>2. ASSUME j + 1 \in 1..Len(rules)
          PROVE  rules[j + 1] \notin found
      <4>1. j \in 1..(Len(rules) - 1)
        BY <1>1, <2>1, <3>2
      <4>2. QED
        BY <2>1, <2>3, <4>1 DEF Without
    <3>3. CASE j + 1 = n + 1
      BY <3>1, <3>3
    <3>4. CASE j + 1 # n + 1
      <4>1. j + 1 \in 1..n
        BY <2>1, <3>4
      <4>2. j + 1 \in M
        BY <3>2, <4>1 DEF Missed
      <4>3. QED
        BY <3>1, <4>2
    <3>5. QED
      BY <3>3, <3>4
  <2>4. QED
    BY <2>2, <2>3
<1>4. ASSUME NEW j \in S, NEW k \in S, f[j] = f[k]
      PROVE  j = k
  <2>1. j \in Nat /\ k \in Nat /\ i \in Nat
    BY <1>1 DEF Missed
  <2>2. QED
    BY <1>4, <2>1
<1>5. f \in Injection(S, T)
  <2>1. f \in [S -> T]
    BY <1>3
  <2>2. QED
    BY <1>4, <2>1 DEF Injection, IsInjective
<1>6. /\ IsFiniteSet(T) /\ Cardinality(T) \in Nat
      /\ Cardinality(M) \in Nat /\ Cardinality(T) <= Cardinality(M) + 1
  <2>1. IsFiniteSet(M) /\ Cardinality(M) \in Nat
    BY MissedIsFinite
  <2> HIDE DEF M
  <2>2. IsFiniteSet(T) /\ (Cardinality(T) = Cardinality(M) \/ Cardinality(T) = Cardinality(M) + 1)
    BY <2>1, FS_AddElement
  <2>3. QED
    BY <2>1, <2>2
<1>7. Cardinality(S) <= Cardinality(T) /\ Cardinality(S) \in Nat
  BY <1>5, <1>6, FS_Injection, MissedIsFinite
<1>8. QED
  BY <1>6, <1>7

\* Nothing that is added is missed on the way so far.
LEMMA AdditionMissesNoMore ==
    ASSUME rules \in Seq(Rules), NEW x \in Rules, ~Listed(x), NEW n \in Nat, NEW found
    PROVE  Missed(Append(rules, x), n, found \ {x}) \subseteq Missed(rules, n, found)
<1>1. Len(Append(rules, x)) = Len(rules) + 1
  OBVIOUS
<1>2. \A i \in 1..Len(rules) : Append(rules, x)[i] = rules[i]
  OBVIOUS
<1>3. 1..Len(rules) \subseteq 1..(Len(rules) + 1)
  OBVIOUS
<1>4. \A i \in 1..Len(rules) : rules[i] # x
  BY DEF Listed
<1>5. QED
  BY <1>1, <1>2, <1>3, <1>4 DEF Missed

\* The loop looks at every rule on its way to place n.
LEMMA LookingMissesNoMore ==
    ASSUME rules \in Seq(Rules), NEW a \in Applies, passed[a] \in Nat,
           NEW n \in 0..Len(rules), NEW i \in 1..n,
           rules[i] \notin seen[a] \cup LookedAt(a, n)
    PROVE  i \in Missed(rules, passed[a], seen[a])
<1>1. DOMAIN rules = 1..Len(rules) /\ i \in 1..Len(rules) /\ i <= n
  OBVIOUS
<1>2. ~(passed[a] < i)
  BY <1>1 DEF LookedAt
<1>3. i \in 1..passed[a]
  BY <1>2
<1>4. QED
  BY <1>3 DEF Missed

LEMMA LookedAtAreRules ==
    ASSUME rules \in Seq(Rules), NEW a \in Applies, NEW n
    PROVE  LookedAt(a, n) \subseteq Rules
<1>1. ASSUME NEW i \in DOMAIN rules
      PROVE  rules[i] \in Rules
  OBVIOUS
<1>2. ASSUME NEW x \in LookedAt(a, n)
      PROVE  x \in Rules
  <2>1. PICK i \in DOMAIN rules : x = rules[i]
    BY DEF LookedAt
  <2>2. QED
    BY <1>1, <2>1
<1>3. QED
  BY <1>2

LEMMA NextRuleKeepsPolicy ==
    ASSUME PolicyInv, NEW a \in Applies, applying[a] = "waiting", NextRule(a),
           UNCHANGED rules
    PROVE  PolicyInv'
<1>1. PICK n \in 1..Len(rules) :
          /\ passed' = [passed EXCEPT ![a] = n]
          /\ seen' = [seen EXCEPT ![a] = @ \cup LookedAt(a, n)]
  <2>1. PICK n \in DOMAIN rules :
            /\ passed' = [passed EXCEPT ![a] = n]
            /\ seen' = [seen EXCEPT ![a] = @ \cup LookedAt(a, n)]
    BY Zenon DEF NextRule
  <2>2. DOMAIN rules = 1..Len(rules)
    BY DEF PolicyInv, ListInv
  <2>3. QED
    BY <2>1, <2>2, Zenon
<1>2. LookedAt(a, n) \subseteq Rules
  BY LookedAtAreRules DEF PolicyInv, ListInv
<1>3. UNCHANGED <<rules, applying, dropped>>
  BY DEF NextRule
<1>4. ListInv'
  BY <1>1, <1>2, <1>3 DEF PolicyInv, ListInv
<1>5. /\ passed'[a] = n /\ n \in Nat /\ n \in 0..Len(rules) /\ passed[a] \in Nat
      /\ seen'[a] = seen[a] \cup LookedAt(a, n)
      /\ rules \in Seq(Rules) /\ dropped[a] \in Nat
      /\ Cardinality(Missed(rules, passed[a], seen[a])) <= dropped[a]
  BY <1>1 DEF PolicyInv, ListInv, MissedForRemovals
<1>6. Missed(rules, passed'[a], seen'[a]) \subseteq Missed(rules, passed[a], seen[a])
  <2>1. SUFFICES ASSUME NEW i \in Missed(rules, n, seen[a] \cup LookedAt(a, n))
                 PROVE  i \in Missed(rules, passed[a], seen[a])
    BY <1>5
  <2>2. i \in 1..n /\ i \in 1..Len(rules) /\ rules[i] \notin seen[a] \cup LookedAt(a, n)
    BY <1>5 DEF Missed
  <2>3. QED
    BY <1>5, <2>2, LookingMissesNoMore
<1> DEFINE old == Cardinality(Missed(rules, passed[a], seen[a]))
           new == Cardinality(Missed(rules, passed'[a], seen'[a]))
<1>7. new <= old
  BY <1>5, <1>6, FewerAreMissed
<1>8. old \in Nat /\ new \in Nat
  BY <1>5, MissedIsFinite
<1>9. old <= dropped[a]
  BY <1>5
<1> HIDE DEF old, new
<1>10. new <= dropped[a]
  BY <1>5, <1>7, <1>8, <1>9
<1>11. Cardinality(Missed(rules, passed'[a], seen'[a])) <= dropped[a]
  BY <1>10 DEF new
<1>12. \A b \in Applies \ {a} : passed'[b] = passed[b] /\ seen'[b] = seen[b]
  BY <1>1 DEF PolicyInv, ListInv
<1>13. MissedForRemovals'
  BY <1>3, <1>11, <1>12 DEF PolicyInv, MissedForRemovals
<1>14. QED
  BY <1>4, <1>13 DEF PolicyInv

LEMMA RemovalKeepsPolicy ==
    ASSUME PolicyInv, NEW i \in DOMAIN rules, RemoveRule(i)
    PROVE  PolicyInv'
<1>1. /\ rules \in Seq(Rules) /\ i \in 1..Len(rules)
      /\ rules' = Without(i) /\ UNCHANGED <<applying, passed, seen>>
      /\ dropped' = [a \in Applies |->
                        IF applying[a] = "waiting" THEN dropped[a] + 1 ELSE dropped[a]]
  BY DEF RemoveRule, PolicyInv, ListInv
<1>2. Without(i) \in Seq(Rules)
  <2>1. \A j \in 1..(Len(rules) - 1) :
            (IF j < i THEN rules[j] ELSE rules[j + 1]) \in Rules
    BY <1>1
  <2>2. Len(rules) - 1 \in Nat
    BY <1>1
  <2>3. Without(i) \in [1..(Len(rules) - 1) -> Rules]
    BY <2>1 DEF Without
  <2>4. QED
    BY <2>2, <2>3
<1>3. ListInv'
  BY <1>1, <1>2 DEF PolicyInv, ListInv
<1>4. ASSUME NEW a \in Applies, applying[a] = "waiting"
      PROVE  Cardinality(Missed(rules', passed[a], seen[a])) <= dropped'[a]
  <2>1. /\ passed[a] \in Nat /\ dropped[a] \in Nat /\ dropped'[a] = dropped[a] + 1
        /\ Cardinality(Missed(rules, passed[a], seen[a])) <= dropped[a]
    BY <1>1, <1>4 DEF PolicyInv, ListInv, MissedForRemovals
  <2> DEFINE old == Cardinality(Missed(rules, passed[a], seen[a]))
             new == Cardinality(Missed(Without(i), passed[a], seen[a]))
  <2>2. new <= old + 1
    BY <1>1, <2>1, RemovalMissesOneMore
  <2>3. old \in Nat /\ new \in Nat
    BY <2>1, MissedIsFinite
  <2> HIDE DEF old, new
  <2>4. new <= dropped'[a]
    BY <2>1, <2>2, <2>3 DEF old
  <2>5. QED
    BY <1>1, <2>4 DEF new
<1>5. MissedForRemovals'
  BY <1>1, <1>4 DEF MissedForRemovals
<1>6. QED
  BY <1>3, <1>5 DEF PolicyInv

LEMMA AdditionKeepsPolicy ==
    ASSUME PolicyInv, NEW x \in Rules, AddRule(x)
    PROVE  PolicyInv'
<1>1. /\ rules \in Seq(Rules) /\ rules' = Append(rules, x)
      /\ ~Listed(x) /\ UNCHANGED <<applying, passed, dropped>>
      /\ seen' = [a \in Applies |-> seen[a] \ {x}]
  BY DEF AddRule, PolicyInv, ListInv
<1>2. Append(rules, x) \in Seq(Rules)
  BY <1>1
<1>3. ListInv'
  BY <1>1, <1>2 DEF PolicyInv, ListInv
<1>4. ASSUME NEW a \in Applies, applying[a] = "waiting"
      PROVE  Cardinality(Missed(rules', passed[a], seen'[a])) <= dropped[a]
  <2>1. /\ passed[a] \in Nat /\ dropped[a] \in Nat
        /\ Cardinality(Missed(rules, passed[a], seen[a])) <= dropped[a]
    BY <1>4 DEF PolicyInv, ListInv, MissedForRemovals
  <2>2. Missed(Append(rules, x), passed[a], seen[a] \ {x})
            \subseteq Missed(rules, passed[a], seen[a])
    BY <1>1, <2>1, AdditionMissesNoMore
  <2> DEFINE old == Cardinality(Missed(rules, passed[a], seen[a]))
             new == Cardinality(Missed(Append(rules, x), passed[a], seen[a] \ {x}))
  <2>3. new <= old
    BY <2>1, <2>2, FewerAreMissed
  <2>4. old \in Nat /\ new \in Nat
    BY <2>1, MissedIsFinite
  <2> HIDE DEF old, new
  <2>5. new <= dropped[a]
    BY <2>1, <2>3, <2>4 DEF old
  <2>6. QED
    BY <1>1, <2>5 DEF new
<1>5. MissedForRemovals'
  BY <1>1, <1>4 DEF MissedForRemovals
<1>6. QED
  BY <1>3, <1>5 DEF PolicyInv

LEMMA ApplyKeepsPolicy ==
    ASSUME PolicyInv, NEW a \in Applies, Apply(a)
    PROVE  PolicyInv'
<1>1. ListInv'
  BY DEF Apply, PolicyInv, ListInv
<1>2. Cardinality(Missed(rules', 0, seen'[a])) = 0
  <2>1. Missed(rules', 0, seen'[a]) = {}
    BY DEF Missed
  <2>2. QED
    BY <2>1, FS_EmptySet
<1>3. passed'[a] = 0 /\ dropped'[a] = 0
  BY DEF Apply, PolicyInv, ListInv
<1>4. ASSUME NEW b \in Applies \ {a}
      PROVE  /\ passed'[b] = passed[b] /\ seen'[b] = seen[b]
             /\ dropped'[b] = dropped[b] /\ applying'[b] = applying[b]
  BY DEF Apply, PolicyInv, ListInv
<1>5. rules' = rules
  BY DEF Apply
<1>6. Cardinality(Missed(rules', passed'[a], seen'[a])) <= dropped'[a]
  BY <1>2, <1>3
<1>7. MissedForRemovals'
  BY <1>4, <1>5, <1>6 DEF PolicyInv, MissedForRemovals
<1>8. QED
  BY <1>1, <1>7 DEF PolicyInv

\* A call that returns or rejects waits no longer.
LEMMA EndKeepsPolicy ==
    ASSUME PolicyInv, NEW a \in Applies, Returns(a) \/ Rejected(a), UNCHANGED rules
    PROVE  PolicyInv'
<1>1. LookedAt(a, Len(rules)) \subseteq Rules
  BY LookedAtAreRules DEF PolicyInv, ListInv
<1>2. ListInv'
  <2>1. CASE Returns(a)
    BY <1>1, <2>1 DEF Returns, PolicyInv, ListInv
  <2>2. CASE Rejected(a)
    BY <2>2 DEF Rejected, PolicyInv, ListInv
  <2>3. QED
    BY <2>1, <2>2
<1>3. applying'[a] # "waiting" /\ dropped' = dropped /\ rules' = rules
  BY DEF Returns, Rejected, PolicyInv, ListInv
<1>4. ASSUME NEW b \in Applies \ {a}
      PROVE  passed'[b] = passed[b] /\ seen'[b] = seen[b] /\ applying'[b] = applying[b]
  BY DEF Returns, Rejected, PolicyInv, ListInv
<1>5. MissedForRemovals'
  BY <1>3, <1>4 DEF PolicyInv, MissedForRemovals
<1>6. QED
  BY <1>2, <1>5 DEF PolicyInv

LEMMA PolicyStepKeepsInv ==
    ASSUME PolicyInv, [RetentionNext]_retentionVars
    PROVE  PolicyInv'
<1>1. CASE UNCHANGED policyVars
  BY <1>1 DEF policyVars, callVars, PolicyInv, ListInv, MissedForRemovals
<1>2. CASE \E x \in Rules : AddRule(x)
  BY <1>2, AdditionKeepsPolicy
<1>3. CASE \E i \in DOMAIN rules : RemoveRule(i)
  BY <1>3, RemovalKeepsPolicy
<1>4. CASE \E a \in Applies : Apply(a)
  BY <1>4, ApplyKeepsPolicy
<1>5. CASE \E a \in Applies : Deleted(a)
  BY <1>5, NextRuleKeepsPolicy, EndKeepsPolicy DEF Deleted
<1>6. CASE \E a \in Applies : Rejected(a)
  BY <1>6, EndKeepsPolicy DEF Rejected
<1>7. QED
  BY <1>1, <1>2, <1>3, <1>4, <1>5, <1>6
  DEF RetentionNext, WithoutPolicy, PolicyStep, retentionVars

\* Only Returns makes a waiting call a returned one.
LEMMA ReturnLooksAtTheRest ==
    ASSUME PolicyInv, [RetentionNext]_retentionVars, NEW a \in Applies,
           applying[a] = "waiting", applying'[a] = "returned"
    PROVE  Cardinality({i \in DOMAIN rules' : rules'[i] \notin seen'[a]}) <= dropped[a]
<1>1. Deleted(a) /\ Returns(a)
  <2>1. ASSUME NEW b \in Applies, Apply(b) \/ Rejected(b)
        PROVE  FALSE
    BY <2>1 DEF Apply, Rejected, PolicyInv, ListInv
  <2>2. ASSUME NEW b \in Applies, Deleted(b), ~(b = a /\ Returns(a))
        PROVE  FALSE
    BY <2>2 DEF Deleted, NextRule, Returns, PolicyInv, ListInv
  <2>3. QED
    BY <2>1, <2>2
    DEF RetentionNext, WithoutPolicy, PolicyStep, AddRule, RemoveRule, retentionVars,
        policyVars, callVars
<1>2. /\ rules' = rules /\ rules \in Seq(Rules) /\ DOMAIN rules = 1..Len(rules)
      /\ seen'[a] = seen[a] \cup LookedAt(a, Len(rules))
      /\ passed[a] \in Nat /\ dropped[a] \in Nat /\ Len(rules) \in 0..Len(rules)
      /\ Cardinality(Missed(rules, passed[a], seen[a])) <= dropped[a]
  BY <1>1 DEF Deleted, Returns, PolicyInv, ListInv, MissedForRemovals
<1> DEFINE rest == {i \in DOMAIN rules' : rules'[i] \notin seen'[a]}
           old == Cardinality(Missed(rules, passed[a], seen[a]))
<1>3. rest \subseteq Missed(rules, passed[a], seen[a])
  BY <1>2, LookingMissesNoMore
<1>4. Cardinality(rest) <= old
  BY <1>2, <1>3, FewerAreMissed
<1>5. old \in Nat /\ Cardinality(rest) \in Nat
  BY <1>2, <1>3, MissedIsFinite, FS_Subset, FS_CardinalityType
<1>6. old <= dropped[a] /\ dropped[a] \in Nat
  BY <1>2
<1> HIDE DEF rest, old
<1>7. Cardinality(rest) <= dropped[a]
  BY <1>4, <1>5, <1>6
<1>8. QED
  BY <1>7 DEF rest

LEMMA PolicyInit == RetentionInit => PolicyInv
<1>1. ASSUME RetentionInit
      PROVE  ListInv /\ \A a \in Applies : applying[a] # "waiting"
  BY <1>1 DEF RetentionInit, ListInv
<1>2. QED
  BY <1>1 DEF PolicyInv, MissedForRemovals

\* However rules are added and removed while apply() waits
\* (retention-policy.ts:54-68 and 100-118), the rules its loop does not look at
\* are no more than were removed.
THEOREM RulesAreMissedForNothingElse == RetentionSpec => RulesAreMissedForRemovals
<1>1. RetentionInit => PolicyInv
  BY PolicyInit
<1>2. PolicyInv /\ [RetentionNext]_retentionVars => PolicyInv'
  BY PolicyStepKeepsInv
<1>3. PolicyInv /\ [RetentionNext]_retentionVars =>
          [\A a \in Applies :
              applying[a] = "waiting" /\ applying'[a] = "returned" =>
                  Cardinality({i \in DOMAIN rules' : rules'[i] \notin seen'[a]})
                      <= dropped[a]]_retentionVars
  BY ReturnLooksAtTheRest
<1>4. QED
  BY <1>1, <1>2, <1>3, PTL DEF RetentionSpec, RulesAreMissedForRemovals

\* The policy deletes as any other cleanup does, so what is proved of the
\* stream and of the dashboard's pages holds beside it.
THEOREM RetentionKeepsDashboard == RetentionSpec => DashboardSpec
<1>1. RetentionInit => DashboardInit
  BY DEF RetentionInit
<1>2. [RetentionNext]_retentionVars => [DashboardNext]_dashboardVars
  BY DEF RetentionNext, WithoutPolicy, PolicyStep, AddRule, RemoveRule, Apply, Deleted,
         Rejected, CleanedUp, NothingToClean, DashboardNext, retentionVars
<1>3. QED
  BY <1>1, <1>2, PTL DEF RetentionSpec, DashboardSpec

\* The invariants of the streams run, of the specification that has all of it.
THEOREM AllOfItBesideRetention ==
    RetentionSpec => [](NoGaps /\ RepetitionIsBounded /\ PagesSkipNothing)
BY RetentionKeepsDashboard, DashboardKeepsStream, IteratorLeavesNoGaps,
   RepetitionFollowsLag, PagingSkipsNothing, PTL

------------------------------------------------------------------------------
(***************************************************************************)
(* The types of what Dashboard and Retention add.  The ids of a page are   *)
(* those at its ends, which exist if the page is not empty.                *)
(***************************************************************************)
LEMMA SmallestOf ==
    ASSUME NEW S, IsFiniteSet(S), NEW Bad \in SUBSET SUBSET S, Bad # {}
    PROVE  \E T \in Bad : \A x \in T : T \ {x} \notin Bad
<1>1. PICK T \in Bad : \A U \in Bad : <<U, T>> \notin StrictSubsetOrdering(S)
  BY FS_FiniteSubsetsOfFinite, FS_StrictSubsetOrderingWellFounded, WFMin
<1>2. ASSUME NEW x \in T, T \ {x} \in Bad
      PROVE  FALSE
  BY <1>1, <1>2 DEF StrictSubsetOrdering
<1>3. QED
  BY <1>2

LEMMA PagesHaveEnds ==
    ASSUME NEW S \in SUBSET Events, S # {}
    PROVE  NewestOf(S) # {} /\ OldestOf(S) # {}
<1> DEFINE Bad == {T \in SUBSET Events : T # {} /\ (NewestOf(T) = {} \/ OldestOf(T) = {})}
<1>1. SUFFICES ASSUME Bad # {}
               PROVE  FALSE
  OBVIOUS
<1>2. PICK T \in Bad : \A x \in T : T \ {x} \notin Bad
  BY <1>1, IdAssumption, SmallestOf
<1>3. PICK x \in T : TRUE
  BY <1>2
<1> DEFINE rest == T \ {x}
<1>4. \A e \in T : e \in Nat
  BY <1>2, IdAssumption
<1>5. CASE rest = {}
  <2>1. T = {x}
    BY <1>3, <1>5
  <2>2. x \in NewestOf(T) /\ x \in OldestOf(T)
    BY <1>4, <2>1 DEF NewestOf, OldestOf
  <2>3. QED
    BY <1>2, <2>2
<1>6. CASE rest # {}
  <2>1. NewestOf(rest) # {} /\ OldestOf(rest) # {}
    BY <1>2, <1>3, <1>6
  <2>2. PICK a \in rest : \A d \in rest : d <= a
    BY <2>1 DEF NewestOf
  <2>3. PICK b \in rest : \A d \in rest : b <= d
    BY <2>1 DEF OldestOf
  <2>4. x \in NewestOf(T) \/ a \in NewestOf(T)
    <3>1. CASE x <= a
      BY <1>4, <2>2, <3>1 DEF NewestOf
    <3>2. CASE ~(x <= a)
      BY <1>3, <1>4, <2>2, <3>2 DEF NewestOf
    <3>3. QED
      BY <3>1, <3>2
  <2>5. x \in OldestOf(T) \/ b \in OldestOf(T)
    <3>1. CASE b <= x
      BY <1>4, <2>3, <3>1 DEF OldestOf
    <3>2. CASE ~(b <= x)
      BY <1>3, <1>4, <2>3, <3>2 DEF OldestOf
    <3>3. QED
      BY <3>1, <3>2
  <2>6. QED
    BY <1>2, <2>4, <2>5
<1>7. QED
  BY <1>5, <1>6

PageTypeOK ==
    /\ viewer \in {"replays", "away", "paging"}
    /\ pagination \in [firstId : Events \cup {0}, lastId : Events \cup {0},
                       hasMore : BOOLEAN]
    /\ pagination.lastId <= pagination.firstId
    /\ span \in SUBSET Events
    /\ shown \in SUBSET Events
    /\ due \in SUBSET Events

LEMMA RequestKeepsTypes ==
    ASSUME PageTypeOK, NEW cursor, GetRecentEvents(cursor),
           viewer' \in {"replays", "away", "paging"}, due' \in SUBSET Events
    PROVE  PageTypeOK'
<1>1. PICK S \in FindRecent(cursor, Limit + 1) :
          LET more == Cardinality(S) > Limit
              items == Items(cursor, S)
          IN  /\ pagination' = [firstId |-> IdOf(NewestOf(items)),
                                lastId |-> IdOf(OldestOf(items)),
                                hasMore |-> more]
              /\ span' = span \cup Covered(cursor, items, more)
              /\ shown' = shown \cup items
  BY DEF GetRecentEvents
<1> DEFINE items == Items(cursor, S)
<1>2. items \in SUBSET Events
  BY DEF FindRecent, Sought, Visible, Items
<1>3. /\ IdOf(NewestOf(items)) \in Events \cup {0}
      /\ IdOf(OldestOf(items)) \in Events \cup {0}
      /\ IdOf(OldestOf(items)) <= IdOf(NewestOf(items))
  <2> HIDE DEF items
  <2>1. CASE items = {}
    BY <2>1 DEF NewestOf, OldestOf, IdOf
  <2>2. CASE items # {}
    <3>1. NewestOf(items) # {} /\ OldestOf(items) # {}
      BY <1>2, <2>2, PagesHaveEnds
    <3>2. IdOf(NewestOf(items)) \in NewestOf(items)
      BY <3>1 DEF IdOf
    <3>3. IdOf(OldestOf(items)) \in OldestOf(items)
      BY <3>1 DEF IdOf
    <3>4. QED
      BY <1>2, <3>2, <3>3 DEF NewestOf, OldestOf
  <2>3. QED
    BY <2>1, <2>2
<1>4. span' \in SUBSET Events /\ shown' \in SUBSET Events
  BY <1>1, <1>2 DEF PageTypeOK, Covered
<1>5. QED
  BY <1>1, <1>3, <1>4 DEF PageTypeOK

LEMMA PageTypesStep ==
    ASSUME PageTypeOK, [DashboardNext]_dashboardVars
    PROVE  PageTypeOK'
<1>1. CASE OutboxStep
  BY <1>1 DEF OutboxStep, PageTypeOK
<1>2. CASE ReplaysStep
  BY <1>2 DEF ReplaysStep, clientVars, PageTypeOK
<1>3. CASE Open
  BY <1>3, RequestKeepsTypes DEF Open, Visible
<1>4. CASE LoadOlder \/ LoadNewer
  BY <1>4, RequestKeepsTypes DEF LoadOlder, LoadNewer, PageTypeOK
<1>5. CASE Leave
  BY <1>5 DEF Leave, NoPage, PageTypeOK
<1>6. CASE UNCHANGED dashboardVars
  BY <1>6 DEF dashboardVars, clientVars, PageTypeOK
<1>7. QED
  BY <1>1, <1>2, <1>3, <1>4, <1>5, <1>6 DEF DashboardNext, ClientStep

\* The client's page keeps its shape: two ids of the outbox in their order, or
\* none, for any page size.
THEOREM DashboardTypeCorrect == DashboardSpec => []DashboardTypeOK
<1>1. DashboardInit => PageTypeOK
  BY DEF DashboardInit, NoPage, PageTypeOK
<1>2. TypeOK /\ PageTypeOK => DashboardTypeOK
  BY DEF PageTypeOK, DashboardTypeOK
<1>3. QED
  BY <1>1, <1>2, PageTypesStep, DashboardKeepsStream, StreamTypeCorrect, PTL
  DEF DashboardSpec

PolicyIsPlaced == policy \in {"elsewhere", "here"}

LEMMA PolicyStaysPlaced ==
    ASSUME PolicyIsPlaced, [RetentionNext]_retentionVars
    PROVE  PolicyIsPlaced'
  BY DEF PolicyIsPlaced, RetentionNext, WithoutPolicy, PolicyStep, AddRule, RemoveRule, Apply, Deleted,
         Rejected, policyVars, retentionVars

\* The streams, the dashboard and the policy keep the types of all their state.
THEOREM RetentionTypeCorrect == RetentionSpec => []RetentionTypeOK
<1>1. RetentionInit => PolicyInv /\ PolicyIsPlaced
  BY PolicyInit DEF RetentionInit, PolicyIsPlaced
<1>2. PolicyInv /\ PolicyIsPlaced /\ DashboardTypeOK => RetentionTypeOK
  BY DEF PolicyInv, PolicyIsPlaced, ListInv, RetentionTypeOK
<1>3. QED
  BY <1>1, <1>2, PolicyStepKeepsInv, PolicyStaysPlaced, RetentionKeepsDashboard,
     DashboardTypeCorrect, PTL DEF RetentionSpec
==============================================================================
