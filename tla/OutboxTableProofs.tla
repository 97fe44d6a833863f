-------------------------- MODULE OutboxTableProofs --------------------------
(***************************************************************************)
(* Lemmas about the statements of OutboxTable, shared by the proofs about  *)
(* the workers and the relays: each statement turns a table of well-locked *)
(* rows into one, moves the fate of a row as the abstract queue may, keeps *)
(* the claims it does not make or end, and counts retries one at a time.   *)
(***************************************************************************)
EXTENDS OutboxTable, TLAPS

SoundTable(table) ==
    /\ table \in [Events -> Row]
    /\ \A e \in Events : WellLocked(table[e])

LEMMA RowsAreTheirFields ==
    ASSUME NEW row \in Row, NEW other \in Row,
           row.status = other.status, row.retry_count = other.retry_count,
           row.lock_token = other.lock_token, row.locked_until = other.locked_until
    PROVE  row = other
BY DEF Row

LEMMA ReleaseIsSound ==
    ASSUME NEW row \in Row,
           NEW status \in {"PENDING", "FAILED", "COMPLETED", "DEAD_LETTER"}
    PROVE  /\ Release(row, status) \in Row
           /\ WellLocked(Release(row, status))
           /\ Release(row, status).status = status
           /\ Release(row, status).retry_count = row.retry_count
BY TokenAssumption DEF Release, Row, Status, Lease, WellLocked

LEMMA CountIsSound ==
    ASSUME NEW row \in Row, WellLocked(row), NEW n \in Nat
    PROVE  /\ [row EXCEPT !.retry_count = n] \in Row
           /\ WellLocked([row EXCEPT !.retry_count = n])
BY DEF Row, WellLocked

LEMMA BatchesAreEvents ==
    ASSUME NEW table, NEW S \in Batches(Claimable(table), BatchSize)
    PROVE  S \in SUBSET Claimable(table) /\ S \in SUBSET Events
BY DEF Batches, Claimable

LEMMA InsertIsSound ==
    ASSUME NEW table, SoundTable(table),
           NEW e \in Events, table[e].status = "NEW"
    PROVE  SoundTable(InsertRow(table, e))
BY DEF InsertRow, SoundTable, Row, Status, WellLocked

LEMMA ClaimIsSound ==
    ASSUME NEW table, SoundTable(table),
           NEW S \in SUBSET Events, NEW token \in Tokens
    PROVE  SoundTable(ClaimRows(table, S, token))
BY TokenAssumption DEF ClaimRows, SoundTable, Row, Status, Lease, WellLocked

LEMMA MarksAreSound ==
    ASSUME NEW table, SoundTable(table), NEW e \in Events, NEW token
    PROVE  /\ SoundTable(MarkCompleted(table, e, token))
           /\ SoundTable(MarkFailed(table, e, token))
           /\ SoundTable(MarkDeadLetter(table, e, token))
<1>1. SoundTable(MarkCompleted(table, e, token))
  BY ReleaseIsSound DEF MarkCompleted, SoundTable
<1>2. SoundTable(MarkFailed(table, e, token))
  <2> DEFINE released == Release(table[e], "FAILED")
             failed == [released EXCEPT !.retry_count = table[e].retry_count + 1]
  <2>1. released \in Row /\ WellLocked(released)
    BY ReleaseIsSound DEF SoundTable
  <2>2. table[e].retry_count + 1 \in Nat
    BY DEF SoundTable, Row
  <2>3. failed \in Row /\ WellLocked(failed)
    <3> HIDE DEF released
    <3> QED
      BY <2>1, <2>2, CountIsSound
  <2>4. MarkFailed(table, e, token) = IF Holds(table, e, token)
                                      THEN [table EXCEPT ![e] = failed]
                                      ELSE table
    BY DEF MarkFailed
  <2> QED
    <3> HIDE DEF failed
    <3> QED
      BY <2>3, <2>4 DEF SoundTable
<1>3. SoundTable(MarkDeadLetter(table, e, token))
  BY ReleaseIsSound DEF MarkDeadLetter, SoundTable
<1> QED
  BY <1>1, <1>2, <1>3

LEMMA RenewIsSound ==
    ASSUME NEW table, SoundTable(table), NEW e \in Events, NEW token
    PROVE  SoundTable(RenewLease(table, e, token))
BY DEF RenewLease, SoundTable, Row, Lease, WellLocked

LEMMA RecoverIsSound ==
    ASSUME NEW table, SoundTable(table)
    PROVE  SoundTable(RecoverStale(table))
BY ReleaseIsSound DEF RecoverStale, SoundTable

LEMMA RedriveIsSound ==
    ASSUME NEW table, SoundTable(table), NEW S \in SUBSET Events
    PROVE  SoundTable(RedriveRows(table, S))
<1>1. ASSUME NEW e \in Events
      PROVE  LET row == [Release(table[e], "PENDING") EXCEPT !.retry_count = 0]
             IN  row \in Row /\ WellLocked(row)
  <2> DEFINE released == Release(table[e], "PENDING")
  <2>1. released \in Row /\ WellLocked(released)
    BY ReleaseIsSound DEF SoundTable
  <2> HIDE DEF released
  <2>2. [released EXCEPT !.retry_count = 0] \in Row
        /\ WellLocked([released EXCEPT !.retry_count = 0])
    BY <2>1, CountIsSound
  <2> QED
    BY <2>2 DEF released
<1> QED
  BY <1>1 DEF RedriveRows, SoundTable

LEMMA CleanupIsSound ==
    ASSUME NEW table, SoundTable(table)
    PROVE  SoundTable(CleanupRows(table))
BY TokenAssumption DEF CleanupRows, Blank, SoundTable, Row, Lease, WellLocked

LEMMA ExpiryIsSound ==
    ASSUME NEW table, SoundTable(table), NEW e \in Events,
           table[e].locked_until = "live"
    PROVE  SoundTable([table EXCEPT ![e].locked_until = "expired"])
BY DEF SoundTable, Row, Lease, WellLocked

------------------------------------------------------------------------------
(***************************************************************************)
(* Progress(table, after, done): from one table to the next, no inserted   *)
(* row becomes "NEW" again, and only rows of done become COMPLETED.        *)
(***************************************************************************)
Progress(table, after, done) ==
    \A e \in Events :
        /\ table[e].status # "NEW" => after[e].status # "NEW"
        /\ after[e].status = "COMPLETED" => table[e].status = "COMPLETED" \/ e \in done

LEMMA ReapersProgress ==
    ASSUME NEW table, SoundTable(table), NEW S \in SUBSET Events
    PROVE  /\ Progress(table, RecoverStale(table), {})
           /\ Progress(table, RedriveRows(table, S), {})
           /\ Progress(table, CleanupRows(table), {})
BY DEF Progress, SoundTable, Row, RecoverStale, RedriveRows, CleanupRows, Blank,
       Release, Stale

LEMMA ClaimProgresses ==
    ASSUME NEW table, SoundTable(table), NEW S \in SUBSET Events, NEW token
    PROVE  Progress(table, ClaimRows(table, S, token), {})
BY DEF Progress, SoundTable, Row, ClaimRows

LEMMA RowStatementsProgress ==
    ASSUME NEW table, SoundTable(table), NEW e \in Events, NEW token
    PROVE  /\ Progress(table, InsertRow(table, e), {})
           /\ Progress(table, MarkCompleted(table, e, token), {e})
           /\ Progress(table, MarkFailed(table, e, token), {})
           /\ Progress(table, MarkDeadLetter(table, e, token), {})
           /\ Progress(table, RenewLease(table, e, token), {})
<1> USE DEF Progress, SoundTable
<1>1. Progress(table, InsertRow(table, e), {})
  BY DEF InsertRow, Row
<1>2. Progress(table, MarkCompleted(table, e, token), {e})
  BY ReleaseIsSound DEF MarkCompleted
<1>3. Progress(table, MarkFailed(table, e, token), {})
  <2> DEFINE released == Release(table[e], "FAILED")
             failed == [released EXCEPT !.retry_count = table[e].retry_count + 1]
  <2>1. released \in Row /\ released.status = "FAILED"
    BY ReleaseIsSound
  <2>2. failed.status = "FAILED"
    <3> HIDE DEF released
    <3> QED
      BY <2>1 DEF Row
  <2>3. MarkFailed(table, e, token) = IF Holds(table, e, token)
                                      THEN [table EXCEPT ![e] = failed]
                                      ELSE table
    BY DEF MarkFailed
  <2> QED
    <3> HIDE DEF failed
    <3> QED
      BY <2>2, <2>3
<1>4. Progress(table, MarkDeadLetter(table, e, token), {})
  BY ReleaseIsSound DEF MarkDeadLetter
<1>5. Progress(table, RenewLease(table, e, token), {})
  BY DEF RenewLease, Row
<1> QED
  BY <1>1, <1>2, <1>3, <1>4, <1>5

------------------------------------------------------------------------------
(***************************************************************************)
(* Which rows a statement leaves alone.                                    *)
(***************************************************************************)

\* A settled row is touched by maintenance only: no claim takes it, no token
\* matches its NULL, no lease of it is there to renew or to recover.
LEMMA SettledRowsStay ==
    ASSUME NEW table, SoundTable(table), NEW e \in Events,
           table[e].status \in {"COMPLETED", "DEAD_LETTER", "DELETED"}
    PROVE  /\ RecoverStale(table)[e] = table[e]
           /\ \A f \in Events :
                  table[f].status = "NEW" => InsertRow(table, f)[e] = table[e]
           /\ \A S \in SUBSET Claimable(table), token \in Tokens :
                  ClaimRows(table, S, token)[e] = table[e]
           /\ \A f \in Events, token \in Tokens :
                  RenewLease(table, f, token)[e] = table[e]
           /\ \A token \in Tokens : ~Holds(table, e, token)
<1>1. /\ \A token \in Tokens : ~Holds(table, e, token)
      /\ table[e].status # "PROCESSING"
  BY TokenAssumption DEF Holds, SoundTable, WellLocked
<1>2. \A f \in Events :
          table[f].status = "NEW" => InsertRow(table, f)[e] = table[e]
  BY DEF InsertRow, SoundTable
<1>3. \A S \in SUBSET Claimable(table), token \in Tokens :
          ClaimRows(table, S, token)[e] = table[e]
  BY DEF ClaimRows, Claimable
<1>4. \A f \in Events, token \in Tokens : RenewLease(table, f, token)[e] = table[e]
  BY <1>1 DEF RenewLease, SoundTable
<1>5. RecoverStale(table)[e] = table[e]
  BY <1>1 DEF RecoverStale, Stale
<1> QED
  BY <1>1, <1>2, <1>3, <1>4, <1>5

\* redrive makes of a dead row what insert makes of a blank one.
LEMMA RedriveOfDeadRow ==
    ASSUME NEW table, SoundTable(table), NEW e \in Events, NEW S \in SUBSET Events,
           e \in S, table[e].status = "DEAD_LETTER"
    PROVE  RedriveRows(table, S)[e] = [Blank EXCEPT !.status = "PENDING"]
<1> DEFINE released == Release(table[e], "PENDING")
           redriven == [released EXCEPT !.retry_count = 0]
           fresh == [Blank EXCEPT !.status = "PENDING"]
<1>1. released \in Row /\ released.status = "PENDING"
      /\ released.lock_token = NoToken /\ released.locked_until = "none"
  BY ReleaseIsSound DEF SoundTable, WellLocked
<1>2. redriven \in Row /\ redriven.status = "PENDING" /\ redriven.retry_count = 0
      /\ redriven.lock_token = NoToken /\ redriven.locked_until = "none"
  <2> HIDE DEF released
  <2> QED
    BY <1>1 DEF Row
<1>3. fresh \in Row /\ fresh.status = "PENDING" /\ fresh.retry_count = 0
      /\ fresh.lock_token = NoToken /\ fresh.locked_until = "none"
  BY DEF Blank, Row, Status, Lease
<1> HIDE DEF redriven, fresh
<1>4. redriven = fresh
  BY <1>2, <1>3, RowsAreTheirFields
<1> QED
  BY <1>4 DEF redriven, fresh, RedriveRows

\* What maintenance makes of a settled row.
LEMMA MaintenanceOfSettledRows ==
    ASSUME NEW table, SoundTable(table), NEW e \in Events,
           table[e].status \in {"COMPLETED", "DEAD_LETTER", "DELETED"}
    PROVE  /\ \A S \in SUBSET Events :
                  \/ RedriveRows(table, S)[e] = table[e]
                  \/ /\ table[e].status = "DEAD_LETTER"
                     /\ RedriveRows(table, S)[e] = [Blank EXCEPT !.status = "PENDING"]
           /\ \/ CleanupRows(table)[e] = table[e]
              \/ /\ table[e].status # "DELETED"
                 /\ CleanupRows(table)[e].status = "DELETED"
<1>1. \/ CleanupRows(table)[e] = table[e]
      \/ table[e].status # "DELETED" /\ CleanupRows(table)[e].status = "DELETED"
  BY DEF CleanupRows, Blank
<1> QED
  BY <1>1, RedriveOfDeadRow DEF RedriveRows

\* A row whose lease is live is touched only by a mark of its holder.
LEMMA LiveRowsStay ==
    ASSUME NEW table, SoundTable(table), NEW e \in Events,
           table[e].locked_until = "live"
    PROVE  /\ RecoverStale(table)[e] = table[e]
           /\ CleanupRows(table)[e] = table[e]
           /\ \A T \in SUBSET Events : RedriveRows(table, T)[e] = table[e]
           /\ \A f \in Events :
                  table[f].status = "NEW" => InsertRow(table, f)[e] = table[e]
           /\ \A S \in SUBSET Claimable(table), token \in Tokens :
                  ClaimRows(table, S, token)[e] = table[e]
           /\ \A f \in Events, token \in Tokens :
                  RenewLease(table, f, token)[e] = table[e]
<1>1. table[e].status = "PROCESSING"
  BY DEF SoundTable, WellLocked
<1>2. \A f \in Events :
          table[f].status = "NEW" => InsertRow(table, f)[e] = table[e]
  BY <1>1 DEF InsertRow, SoundTable
<1>3. \A S \in SUBSET Claimable(table), token \in Tokens :
          ClaimRows(table, S, token)[e] = table[e]
  BY <1>1 DEF ClaimRows, Claimable
<1>4. \A f \in Events, token \in Tokens : RenewLease(table, f, token)[e] = table[e]
  BY DEF RenewLease, SoundTable, Row
<1>5. /\ RecoverStale(table)[e] = table[e]
      /\ CleanupRows(table)[e] = table[e]
      /\ \A T \in SUBSET Events : RedriveRows(table, T)[e] = table[e]
  BY <1>1 DEF RecoverStale, Stale, RedriveRows, CleanupRows
<1> QED
  BY <1>2, <1>3, <1>4, <1>5

LEMMA MarksTouchOneRow ==
    ASSUME NEW table, SoundTable(table), NEW e \in Events, NEW f \in Events,
           NEW token, e # f \/ ~Holds(table, e, token)
    PROVE  /\ MarkCompleted(table, f, token)[e] = table[e]
           /\ MarkFailed(table, f, token)[e] = table[e]
           /\ MarkDeadLetter(table, f, token)[e] = table[e]
<1>1. /\ MarkCompleted(table, f, token)[e] = table[e]
      /\ MarkDeadLetter(table, f, token)[e] = table[e]
  BY DEF MarkCompleted, MarkDeadLetter, SoundTable
<1>2. MarkFailed(table, f, token)[e] = table[e]
  <2> DEFINE failed == [Release(table[f], "FAILED") EXCEPT
                            !.retry_count = table[f].retry_count + 1]
  <2>1. MarkFailed(table, f, token) = IF Holds(table, f, token)
                                      THEN [table EXCEPT ![f] = failed]
                                      ELSE table
    BY DEF MarkFailed
  <2> HIDE DEF failed
  <2> QED
    BY <2>1 DEF SoundTable
<1> QED
  BY <1>1, <1>2

------------------------------------------------------------------------------
(***************************************************************************)
(* The statements and the fates of the events: which of them leave every   *)
(* fate alone, which settle one event, and which move events back.         *)
(***************************************************************************)
LEMMA FateOfRow ==
    ASSUME NEW row \in Row
    PROVE  /\ Fate(row) = "absent" <=> row.status = "NEW"
           /\ Fate(row) = "waiting" <=> row.status \in {"PENDING", "PROCESSING", "FAILED"}
           /\ Fate(row) = "completed" <=> row.status = "COMPLETED"
           /\ Fate(row) = "dead" <=> row.status = "DEAD_LETTER"
           /\ Fate(row) = "removed" <=> row.status = "DELETED"
           /\ Fate(row) \in {"absent", "waiting", "completed", "dead", "removed"}
BY DEF Fate, Row, Status

\* The statements that move no event from one fate to another.
LEMMA StatementsThatStutter ==
    ASSUME NEW table, SoundTable(table), NEW e \in Events
    PROVE  /\ Fate(RecoverStale(table)[e]) = Fate(table[e])
           /\ \A S \in SUBSET Claimable(table), token \in Tokens :
                  Fate(ClaimRows(table, S, token)[e]) = Fate(table[e])
           /\ \A f \in Events, token \in Tokens :
                  /\ Fate(RenewLease(table, f, token)[e]) = Fate(table[e])
                  /\ Fate(MarkFailed(table, f, token)[e]) = Fate(table[e])
<1>0. table[e] \in Row /\ WellLocked(table[e])
  BY DEF SoundTable
<1>1. Fate(RecoverStale(table)[e]) = Fate(table[e])
  <2>1. CASE e \in Stale(table)
    BY <1>0, <2>1, ReleaseIsSound, FateOfRow DEF RecoverStale, Stale
  <2>2. CASE e \notin Stale(table)
    BY <2>2 DEF RecoverStale
  <2> QED
    BY <2>1, <2>2
<1>2. ASSUME NEW S \in SUBSET Claimable(table), NEW token \in Tokens
      PROVE  Fate(ClaimRows(table, S, token)[e]) = Fate(table[e])
  <2>1. SoundTable(ClaimRows(table, S, token))
    BY ClaimIsSound DEF Claimable
  <2>2. CASE e \in S
    <3>1. ClaimRows(table, S, token)[e].status = "PROCESSING"
      BY <1>0, <2>2 DEF ClaimRows, Row
    <3> QED
      BY <1>0, <2>1, <2>2, <3>1, FateOfRow DEF SoundTable, Claimable
  <2>3. CASE e \notin S
    BY <2>3 DEF ClaimRows
  <2> QED
    BY <2>2, <2>3
<1>3. ASSUME NEW f \in Events, NEW token \in Tokens
      PROVE  /\ Fate(RenewLease(table, f, token)[e]) = Fate(table[e])
             /\ Fate(MarkFailed(table, f, token)[e]) = Fate(table[e])
  <2>1. SoundTable(RenewLease(table, f, token)) /\ SoundTable(MarkFailed(table, f, token))
    BY RenewIsSound, MarksAreSound
  <2>2. RenewLease(table, f, token)[e].status = table[e].status
    BY <1>0 DEF RenewLease, SoundTable, Row
  <2>3. Fate(RenewLease(table, f, token)[e]) = Fate(table[e])
    BY <1>0, <2>1, <2>2, FateOfRow DEF SoundTable
  <2>4. CASE e = f /\ Holds(table, e, token)
    <3>1. table[e].status = "PROCESSING"
      BY <1>0, <2>4, TokenAssumption DEF Holds, WellLocked
    <3>2. MarkFailed(table, f, token)[e].status = "FAILED"
      <4> DEFINE released == Release(table[e], "FAILED")
                 failed == [released EXCEPT !.retry_count = table[e].retry_count + 1]
      <4>1. released \in Row /\ released.status = "FAILED"
        BY <1>0, ReleaseIsSound
      <4>2. failed.status = "FAILED"
        <5> HIDE DEF released
        <5> QED
          BY <4>1 DEF Row
      <4>3. MarkFailed(table, f, token) = [table EXCEPT ![e] = failed]
        BY <2>4 DEF MarkFailed
      <4> HIDE DEF failed
      <4> QED
        BY <4>2, <4>3 DEF SoundTable
    <3>3. Fate(MarkFailed(table, f, token)[e]) = Fate(table[e])
      BY <1>0, <2>1, <3>1, <3>2, FateOfRow DEF SoundTable
    <3> QED
      BY <2>3, <3>3
  <2>5. CASE e # f \/ ~Holds(table, e, token)
    BY <2>3, <2>5, MarksTouchOneRow
  <2> QED
    BY <2>3, <2>4, <2>5
<1> QED
  BY <1>1, <1>2, <1>3

\* The statements that settle an event, where their token matches.
LEMMA StatementsThatSettle ==
    ASSUME NEW table, SoundTable(table), NEW f \in Events, NEW token \in Tokens,
           Holds(table, f, token)
    PROVE  /\ Fate(table[f]) = "waiting"
           /\ \A e \in Events :
                 /\ Fate(MarkCompleted(table, f, token)[e]) =
                        IF e = f THEN "completed" ELSE Fate(table[e])
                 /\ Fate(MarkDeadLetter(table, f, token)[e]) =
                        IF e = f THEN "dead" ELSE Fate(table[e])
<1>1. table[f] \in Row /\ table[f].status = "PROCESSING"
  BY TokenAssumption DEF Holds, SoundTable, WellLocked
<1>2. /\ Fate(Release(table[f], "COMPLETED")) = "completed"
      /\ Fate(Release(table[f], "DEAD_LETTER")) = "dead"
  BY <1>1, ReleaseIsSound, FateOfRow
<1> QED
  BY <1>1, <1>2, FateOfRow DEF MarkCompleted, MarkDeadLetter, SoundTable

\* The statements of the application and of the operators.
LEMMA StatementsThatMove ==
    ASSUME NEW table, SoundTable(table), NEW e \in Events
    PROVE  /\ \A f \in Events : table[f].status = "NEW" =>
                  Fate(InsertRow(table, f)[e]) = IF e = f THEN "waiting" ELSE Fate(table[e])
           /\ \A S \in SUBSET Events :
                  Fate(RedriveRows(table, S)[e]) =
                      IF e \in S /\ Fate(table[e]) = "dead" THEN "waiting" ELSE Fate(table[e])
           /\ Fate(CleanupRows(table)[e]) =
                  IF Fate(table[e]) \in {"completed", "dead"} THEN "removed" ELSE Fate(table[e])
<1>0. table[e] \in Row
  BY DEF SoundTable
<1>1. ASSUME NEW f \in Events, table[f].status = "NEW"
      PROVE  Fate(InsertRow(table, f)[e]) = IF e = f THEN "waiting" ELSE Fate(table[e])
  <2>1. InsertRow(table, f)[e] \in Row
    BY <1>1, InsertIsSound DEF SoundTable
  <2>2. /\ e = f => InsertRow(table, f)[e].status = "PENDING"
        /\ e # f => InsertRow(table, f)[e] = table[e]
    BY <1>0 DEF InsertRow, SoundTable, Row
  <2> QED
    BY <2>1, <2>2, FateOfRow
<1>2. ASSUME NEW S \in SUBSET Events
      PROVE  Fate(RedriveRows(table, S)[e]) =
                 IF e \in S /\ Fate(table[e]) = "dead" THEN "waiting" ELSE Fate(table[e])
  <2>1. RedriveRows(table, S)[e] \in Row
    BY RedriveIsSound DEF SoundTable
  <2>2. CASE e \in S /\ table[e].status = "DEAD_LETTER"
    <3>1. RedriveRows(table, S)[e] = [Blank EXCEPT !.status = "PENDING"]
      BY <2>2, RedriveOfDeadRow
    <3>2. RedriveRows(table, S)[e].status = "PENDING"
      BY <3>1 DEF Blank
    <3> QED
      BY <1>0, <2>1, <2>2, <3>2, FateOfRow
  <2>3. CASE ~(e \in S /\ table[e].status = "DEAD_LETTER")
    BY <1>0, <2>3, FateOfRow DEF RedriveRows
  <2> QED
    BY <2>2, <2>3
<1>3. Fate(CleanupRows(table)[e]) =
          IF Fate(table[e]) \in {"completed", "dead"} THEN "removed" ELSE Fate(table[e])
  <2>1. CleanupRows(table)[e] \in Row
    BY CleanupIsSound DEF SoundTable
  <2>2. CASE table[e].status \in {"COMPLETED", "DEAD_LETTER"}
    <3>1. CleanupRows(table)[e].status = "DELETED"
      BY <2>2 DEF CleanupRows, Blank
    <3> QED
      BY <1>0, <2>1, <2>2, <3>1, FateOfRow
  <2>3. CASE table[e].status \notin {"COMPLETED", "DEAD_LETTER"}
    BY <1>0, <2>3, FateOfRow DEF CleanupRows
  <2> QED
    BY <2>2, <2>3
<1> QED
  BY <1>1, <1>2, <1>3

------------------------------------------------------------------------------
(***************************************************************************)
(* KeepsClaims(table, after): nobody gets a row, none becomes new again,   *)
(* and a row that is new or PENDING stays so.  All statements but the      *)
(* claim are of this kind.                                                 *)
(***************************************************************************)
KeepsClaims(table, after) ==
    \A e \in Events :
        /\ after[e].lock_token \in {table[e].lock_token, NoToken}
        /\ table[e].status # "NEW" => after[e].status # "NEW"
        /\ table[e].status \in {"NEW", "PENDING"} =>
               after[e].status \in {"NEW", "PENDING"}

LEMMA InsertKeepsClaims ==
    ASSUME NEW table, SoundTable(table), NEW e \in Events, table[e].status = "NEW"
    PROVE  KeepsClaims(table, InsertRow(table, e))
BY DEF KeepsClaims, InsertRow, SoundTable, Row

LEMMA ExpiryKeepsClaims ==
    ASSUME NEW table, SoundTable(table), NEW e \in Events
    PROVE  KeepsClaims(table, [table EXCEPT ![e].locked_until = "expired"])
BY DEF KeepsClaims, SoundTable, Row

LEMMA MaintenanceKeepsClaims ==
    ASSUME NEW table, SoundTable(table)
    PROVE  /\ KeepsClaims(table, RecoverStale(table))
           /\ KeepsClaims(table, CleanupRows(table))
           /\ \A S \in SUBSET Events : KeepsClaims(table, RedriveRows(table, S))
<1>1. KeepsClaims(table, RecoverStale(table))
  BY ReleaseIsSound DEF KeepsClaims, SoundTable, RecoverStale, Stale, Release, Row
<1>2. KeepsClaims(table, CleanupRows(table))
  BY DEF KeepsClaims, CleanupRows, Blank
<1>3. ASSUME NEW S \in SUBSET Events, NEW e \in Events
      PROVE  /\ RedriveRows(table, S)[e].lock_token \in {table[e].lock_token, NoToken}
             /\ table[e].status # "NEW" => RedriveRows(table, S)[e].status # "NEW"
             /\ table[e].status \in {"NEW", "PENDING"} =>
                    RedriveRows(table, S)[e].status \in {"NEW", "PENDING"}
  <2>1. CASE e \in S /\ table[e].status = "DEAD_LETTER"
    BY <2>1, RedriveOfDeadRow DEF Blank
  <2>2. CASE ~(e \in S /\ table[e].status = "DEAD_LETTER")
    BY <2>2 DEF RedriveRows
  <2> QED
    BY <2>1, <2>2
<1> QED
  BY <1>1, <1>2, <1>3 DEF KeepsClaims

LEMMA MarksKeepClaims ==
    ASSUME NEW table, SoundTable(table), NEW f \in Events, NEW token \in Tokens
    PROVE  /\ KeepsClaims(table, MarkCompleted(table, f, token))
           /\ KeepsClaims(table, MarkFailed(table, f, token))
           /\ KeepsClaims(table, MarkDeadLetter(table, f, token))
<1>1. CASE ~Holds(table, f, token)
  BY <1>1, MarksTouchOneRow DEF KeepsClaims
<1>2. CASE Holds(table, f, token)
  <2>1. table[f] \in Row /\ table[f].status = "PROCESSING"
    BY <1>2, TokenAssumption DEF Holds, SoundTable, WellLocked
  <2> DEFINE failed == [Release(table[f], "FAILED") EXCEPT
                            !.retry_count = table[f].retry_count + 1]
  <2>2. /\ MarkCompleted(table, f, token) = [table EXCEPT ![f] = Release(table[f], "COMPLETED")]
        /\ MarkFailed(table, f, token) = [table EXCEPT ![f] = failed]
        /\ MarkDeadLetter(table, f, token) = [table EXCEPT ![f] = Release(table[f], "DEAD_LETTER")]
    BY <1>2 DEF MarkCompleted, MarkFailed, MarkDeadLetter
  <2>3. failed.lock_token = NoToken /\ failed.status = "FAILED"
    BY <2>1 DEF Release, Row
  <2>4. \A status \in {"COMPLETED", "DEAD_LETTER"} :
            /\ Release(table[f], status).lock_token = NoToken
            /\ Release(table[f], status).status = status
    BY <2>1 DEF Release, Row
  <2> HIDE DEF failed
  <2> QED
    BY <2>1, <2>2, <2>3, <2>4 DEF KeepsClaims, SoundTable
<1> QED
  BY <1>1, <1>2

------------------------------------------------------------------------------
(***************************************************************************)
(* Counting attempts.  KeepsCounts(table, after): nobody gets a row, and   *)
(* one that stays locked keeps its count.  Counted(table): the bounds that *)
(* max_retries promises.                                                   *)
(***************************************************************************)
KeepsCounts(table, after) ==
    \A e \in Events :
        after[e].lock_token # NoToken =>
            /\ after[e].lock_token = table[e].lock_token
            /\ after[e].retry_count = table[e].retry_count

Counted(table) ==
    \A e \in Events :
        /\ table[e].retry_count <= MaxRetries
        /\ table[e].status = "DEAD_LETTER" => table[e].retry_count = MaxRetries

LEMMA RowStatementsCount ==
    ASSUME NEW table, SoundTable(table), NEW e \in Events, NEW token
    PROVE  /\ KeepsCounts(table, InsertRow(table, e))
           /\ Counted(table) => Counted(InsertRow(table, e))
           /\ KeepsCounts(table, [table EXCEPT ![e].locked_until = "expired"])
           /\ Counted(table) => Counted([table EXCEPT ![e].locked_until = "expired"])
           /\ KeepsCounts(table, RenewLease(table, e, token))
           /\ Counted(table) => Counted(RenewLease(table, e, token))
BY DEF KeepsCounts, Counted, InsertRow, RenewLease, SoundTable, Row

LEMMA MaintenanceCounts ==
    ASSUME NEW table, SoundTable(table), NEW S \in SUBSET Events
    PROVE  /\ KeepsCounts(table, RecoverStale(table))
           /\ Counted(table) => Counted(RecoverStale(table))
           /\ KeepsCounts(table, CleanupRows(table))
           /\ Counted(table) => Counted(CleanupRows(table))
           /\ KeepsCounts(table, RedriveRows(table, S))
           /\ Counted(table) => Counted(RedriveRows(table, S))
<1>1. ASSUME NEW e \in Events
      PROVE  \/ RecoverStale(table)[e] = table[e]
             \/ /\ RecoverStale(table)[e].lock_token = NoToken
                /\ RecoverStale(table)[e].status = "PENDING"
                /\ RecoverStale(table)[e].retry_count = table[e].retry_count
  BY DEF RecoverStale, Release, SoundTable, Row
<1>2. ASSUME NEW e \in Events
      PROVE  \/ CleanupRows(table)[e] = table[e]
             \/ /\ CleanupRows(table)[e].lock_token = NoToken
                /\ CleanupRows(table)[e].status = "DELETED"
                /\ CleanupRows(table)[e].retry_count = 0
  BY DEF CleanupRows, Blank
<1>3. ASSUME NEW e \in Events
      PROVE  \/ RedriveRows(table, S)[e] = table[e]
             \/ /\ RedriveRows(table, S)[e].lock_token = NoToken
                /\ RedriveRows(table, S)[e].status = "PENDING"
                /\ RedriveRows(table, S)[e].retry_count = 0
  <2>1. CASE e \in S /\ table[e].status = "DEAD_LETTER"
    BY <2>1, RedriveOfDeadRow DEF Blank
  <2>2. CASE ~(e \in S /\ table[e].status = "DEAD_LETTER")
    BY <2>2 DEF RedriveRows
  <2> QED
    BY <2>1, <2>2
<1>4. ASSUME NEW after,
             \A e \in Events : \/ after[e] = table[e]
                              \/ /\ after[e].lock_token = NoToken
                                 /\ after[e].status # "DEAD_LETTER"
                                 /\ after[e].retry_count \in {table[e].retry_count, 0}
      PROVE  KeepsCounts(table, after) /\ (Counted(table) => Counted(after))
  BY <1>4, RetryAssumption DEF KeepsCounts, Counted
<1> QED
  BY <1>1, <1>2, <1>3, <1>4

\* A mark counts right if it is of an attempt that asked canRetry() of the
\* row's own count.
LEMMA MarksCount ==
    ASSUME NEW table, SoundTable(table), NEW f \in Events, NEW token \in Tokens
    PROVE  /\ KeepsCounts(table, MarkCompleted(table, f, token))
           /\ Counted(table) => Counted(MarkCompleted(table, f, token))
           /\ KeepsCounts(table, MarkFailed(table, f, token))
           /\ /\ Counted(table)
              /\ Holds(table, f, token) => table[f].retry_count < MaxRetries
              => Counted(MarkFailed(table, f, token))
           /\ KeepsCounts(table, MarkDeadLetter(table, f, token))
           /\ /\ Counted(table)
              /\ Holds(table, f, token) => table[f].retry_count >= MaxRetries
              => Counted(MarkDeadLetter(table, f, token))
<1>1. CASE ~Holds(table, f, token)
  <2>1. /\ MarkCompleted(table, f, token) = table
        /\ MarkFailed(table, f, token) = table
        /\ MarkDeadLetter(table, f, token) = table
    BY <1>1 DEF MarkCompleted, MarkFailed, MarkDeadLetter
  <2> QED
    BY <1>1, <2>1 DEF KeepsCounts
<1>2. CASE Holds(table, f, token)
  <2>1. table[f] \in Row
    BY DEF SoundTable
  <2> DEFINE failed == [Release(table[f], "FAILED") EXCEPT
                            !.retry_count = table[f].retry_count + 1]
  <2>2. /\ MarkCompleted(table, f, token) = [table EXCEPT ![f] = Release(table[f], "COMPLETED")]
        /\ MarkFailed(table, f, token) = [table EXCEPT ![f] = failed]
        /\ MarkDeadLetter(table, f, token) = [table EXCEPT ![f] = Release(table[f], "DEAD_LETTER")]
    BY <1>2 DEF MarkCompleted, MarkFailed, MarkDeadLetter
  <2>3. /\ failed.lock_token = NoToken /\ failed.status = "FAILED"
        /\ failed.retry_count = table[f].retry_count + 1
    BY <2>1 DEF Release, Row
  <2>4. \A status \in {"COMPLETED", "DEAD_LETTER"} :
            /\ Release(table[f], status).lock_token = NoToken
            /\ Release(table[f], status).status = status
            /\ Release(table[f], status).retry_count = table[f].retry_count
    BY <2>1 DEF Release, Row
  <2>5. table[f].retry_count \in Nat /\ MaxRetries \in Nat
    BY <2>1, RetryAssumption DEF Row
  <2>6. KeepsCounts(table, [table EXCEPT ![f] = failed])
    <3> HIDE DEF failed
    <3> QED
      BY <2>3 DEF KeepsCounts, SoundTable
  <2>7. \A status \in {"COMPLETED", "DEAD_LETTER"} :
            KeepsCounts(table, [table EXCEPT ![f] = Release(table[f], status)])
    BY <2>4 DEF KeepsCounts, SoundTable
  <2>8. Counted(table) => Counted([table EXCEPT ![f] = Release(table[f], "COMPLETED")])
    BY <2>4 DEF Counted, SoundTable
  <2>9. Counted(table) /\ table[f].retry_count < MaxRetries
           => Counted([table EXCEPT ![f] = failed])
    <3> HIDE DEF failed
    <3> QED
      BY <2>3, <2>5 DEF Counted, SoundTable
  <2>10. Counted(table) /\ table[f].retry_count >= MaxRetries
           => Counted([table EXCEPT ![f] = Release(table[f], "DEAD_LETTER")])
    BY <2>4, <2>5 DEF Counted, SoundTable
  <2> HIDE DEF failed
  <2> QED
    BY <1>2, <2>2, <2>6, <2>7, <2>8, <2>9, <2>10
<1> QED
  BY <1>1, <1>2

LEMMA ClaimCounts ==
    ASSUME NEW table, SoundTable(table), NEW S \in SUBSET Events, NEW token \in Tokens,
           NEW e \in Events
    PROVE  LET after == ClaimRows(table, S, token)
           IN  /\ after[e].retry_count = table[e].retry_count
               /\ Counted(table) => Counted(after)
               /\ IF e \in S
                  THEN after[e].lock_token = token /\ after[e].locked_until = "live"
                  ELSE after[e] = table[e]
BY DEF ClaimRows, Counted, SoundTable, Row
==============================================================================
