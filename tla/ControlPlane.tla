----------------------------- MODULE ControlPlane -----------------------------
(***************************************************************************)
(* main.ts: the process that connects to the database, serves the control  *)
(* plane's HTTP endpoints beside the worker, and shuts down; and the       *)
(* EventSimulator behind its endpoints.                                    *)
(*                                                                         *)
(* Of the handlers the module keeps which of them catch a statement that   *)
(* throws.  In one that does not, the async callback of createServer       *)
(* rejects, nobody handles that, and Node ends the process.  Of the rows   *)
(* they write it keeps those of simulate-bloat.  toggle-cdc is that of     *)
(* Replication; the readers of the log and this process meet in the slot   *)
(* only, so a behaviour follows either Replication, with toggle-cdc served *)
(* "elsewhere", or this process.                                           *)
(***************************************************************************)
EXTENDS Replication

CONSTANTS
    Requests,      \* requests that wait for a statement at the same time
    Bloats,        \* requests to simulate-bloat (both are model bounds)
    Retries,       \* the attempts of checkConnection, 15
    MaxProducers,  \* producers that are added (a model bound)
    MaxRemovals    \* producers that are removed (a model bound)

ASSUME RetriesAssumption == Retries \in Nat \ {0}
ASSUME ProducersAssumption ==
    /\ MaxProducers \in Nat /\ MaxProducers >= 3
    /\ MaxRemovals \in Nat

VARIABLES
    life,        \* of the process
    attempts,    \* i of checkConnection
    serving,     \* what a request waits for
    traffic,     \* what generates events beside the requests
    bloat,       \* how far a request to simulate-bloat is
    timers,      \* its timers that have not fired
    bloatRows,   \* the requests whose rows are in the outbox
    abandoned,   \* those that failed, or were left behind by their process
    producers,   \* the length of EventSimulator.producers
    producerIndex,
    removals,    \* producers removed in this process
    orphans      \* events generated in it whose producerId was undefined

simulatorVars == <<producers, producerIndex, removals, orphans>>
bloatVars == <<bloat, timers, bloatRows, abandoned>>
processVars == <<life, attempts, serving, traffic>>
planeVars == <<vars, processVars, bloatVars, simulatorVars>>

\* Statements of handlers without, and with, a catch block.
Unguarded == {"read", "insert", "cleanup"}
Guarded == {"admin"}

PlaneTypeOK ==
    /\ TypeOK
    /\ life \in {"elsewhere", "connecting", "up", "stopping", "down"}
    /\ attempts \in 0..Retries
    /\ serving \in [Requests -> {"nothing"} \cup Unguarded \cup Guarded]
    /\ traffic \in SUBSET {"interval", "burst"}
    /\ bloat \in [Bloats -> {"none", "insert", "analyze"}]
    /\ timers \in [Bloats -> SUBSET {"update", "delete"}]
    /\ bloatRows \in SUBSET Bloats
    /\ abandoned \in SUBSET Bloats
    /\ producers \in 1..MaxProducers
    /\ producerIndex \in 0..MaxProducers
    /\ removals \in 0..MaxRemovals
    /\ orphans \in Nat

PlaneInit ==
    /\ Init
    /\ life \in {"elsewhere", "connecting"}
    /\ life = "connecting" => reader = "adapter"
    /\ attempts = 0
    /\ serving = [q \in Requests |-> "nothing"]
    /\ traffic = {}
    /\ bloat = [b \in Bloats |-> "none"]
    /\ timers = [b \in Bloats |-> {}]
    /\ bloatRows = {}
    /\ abandoned = {}
    /\ producers = 3
    /\ producerIndex = 0
    /\ removals = 0
    /\ orphans = 0

------------------------------------------------------------------------------
(***************************************************************************)
(* The life of the process.                                                *)
(***************************************************************************)
CheckConnection ==
    /\ life = "connecting"
    /\ \/ life' = "up" /\ attempts' = 0
       \/ /\ attempts' = attempts + 1
          /\ life' = IF attempts' = Retries THEN "down" ELSE life
    /\ UNCHANGED <<vars, serving, traffic, bloatVars, simulatorVars>>

\* Whatever the process remembered is gone.  A statement the server has
\* already may take effect all the same.
Die ==
    /\ life' = "down"
    /\ attempts' = 0
    /\ serving' = [q \in Requests |-> "nothing"]
    /\ traffic' = {}
    /\ toggle' = [t \in Toggles |-> "idle"]
    /\ bloat' = [b \in Bloats |-> "none"]
    /\ timers' = [b \in Bloats |-> {}]
    /\ \E late \in SUBSET {b \in Bloats : bloat[b] = "insert"} :
            bloatRows' = bloatRows \cup late
    /\ abandoned' = bloatRows'
    /\ producers' = 3 /\ producerIndex' = 0 /\ removals' = 0 /\ orphans' = 0
    /\ UNCHANGED <<reader, log, slot, owed, adapterVars, debeziumVars>>

Alive == life \in {"up", "stopping"}

Kill == life \in {"connecting", "up", "stopping"} /\ Die

\* The handler of SIGINT and SIGTERM: worker.stop() and server.close() are not
\* worth a wait, pool.end() refuses every statement that is not under way yet.
Shutdown ==
    /\ life = "up"
    /\ life' = "stopping"
    /\ UNCHANGED <<vars, attempts, serving, traffic, bloatVars, simulatorVars>>

\* No statement is under way any more.
Exit ==
    /\ life = "stopping"
    /\ \A q \in Requests : serving[q] = "nothing"
    /\ \A b \in Bloats : bloat[b] \notin {"insert", "analyze"}
    /\ \A t \in Toggles : toggle[t] = "idle"
    /\ Die

\* A second signal: pool.end() may not be called twice.
SecondSignal == life = "stopping" /\ Die

Restart ==
    /\ life = "down"
    /\ life' = "connecting"
    /\ attempts' = 0
    /\ UNCHANGED <<vars, serving, traffic, bloatVars, simulatorVars>>

------------------------------------------------------------------------------
(***************************************************************************)
(* The simulator.                                                          *)
(***************************************************************************)
\* Mutant of NextIndex: the remainder is taken before the step.
NextIndexBeyond(i) == (i % producers) + 1

NextIndex(i) == (i + 1) % producers

\* getNextProducerId, for each of n events generated at once.
GenerateEvents(n) ==
    /\ orphans' = IF producerIndex < producers THEN orphans ELSE orphans + 1
    /\ producerIndex' = NextIndex(producerIndex + n - 1)
    /\ UNCHANGED <<producers, removals>>

AddProducer ==
    /\ Alive /\ producers < MaxProducers
    /\ producers' = producers + 1
    /\ UNCHANGED <<vars, processVars, bloatVars, producerIndex, removals, orphans>>

\* The last of the list goes; the index stays, even if it was the last's.
RemoveProducer ==
    /\ Alive /\ removals < MaxRemovals
    /\ producers > 1
    /\ producers' = producers - 1
    /\ removals' = removals + 1
    /\ UNCHANGED <<vars, processVars, bloatVars, producerIndex, orphans>>

\* toggle-traffic sets or clears the interval.
ToggleTraffic ==
    /\ Alive
    /\ traffic' = IF "interval" \in traffic THEN traffic \ {"interval"}
                                           ELSE traffic \cup {"interval"}
    /\ UNCHANGED <<vars, life, attempts, serving, bloatVars, simulatorVars>>

\* simulate-burst answers and goes on publishing; bursts may overlap.
SimulateBurst ==
    /\ Alive
    /\ traffic' = traffic \cup {"burst"}
    /\ UNCHANGED <<vars, life, attempts, serving, bloatVars, simulatorVars>>

\* The interval fires, or a burst publishes its next event, perhaps its last:
\* nobody waits for the insert or hears of its failure.
PublishAside ==
    /\ Alive
    /\ \/ traffic # {} /\ traffic' = traffic
       \/ "burst" \in traffic /\ traffic' = traffic \ {"burst"}
    /\ GenerateEvents(1)
    /\ UNCHANGED <<vars, life, attempts, serving, bloatVars>>

------------------------------------------------------------------------------
(***************************************************************************)
(* Requests that wait for statements.                                      *)
(***************************************************************************)
BurstSize == 20

\* A handler is called and issues its first statement: stats, events, metrics
\* and simulation-state read, simulate and simulate-concurrency insert; the
\* guarded ones here are simulate-sequence-stress and simulate-partitions.
Serve(q) ==
    /\ life = "up"
    /\ serving[q] = "nothing"
    /\ \E statement \in Unguarded \cup Guarded :
        /\ serving' = [serving EXCEPT ![q] = statement]
        /\ IF statement = "insert" THEN GenerateEvents(1) \/ GenerateEvents(BurstSize)
                                  ELSE UNCHANGED simulatorVars
    /\ UNCHANGED <<vars, life, attempts, traffic, bloatVars>>

\* The statements succeed and the request is answered.  A cleanup deletes the
\* rows of simulate-bloat as well: they are COMPLETED.
Answered(q) ==
    /\ serving[q] # "nothing"
    /\ serving' = [serving EXCEPT ![q] = "nothing"]
    /\ IF serving[q] = "cleanup" THEN bloatRows' = {} /\ abandoned' = {}
                                 ELSE UNCHANGED <<bloatRows, abandoned>>
    /\ UNCHANGED <<vars, life, attempts, traffic, bloat, timers, simulatorVars>>

AnsweredWith500(q) ==
    /\ serving[q] \in Guarded
    /\ serving' = [serving EXCEPT ![q] = "nothing"]
    /\ UNCHANGED <<vars, life, attempts, traffic, bloatVars, simulatorVars>>

\* A statement of another handler throws, or is refused by the pool that ends.
Rejects ==
    /\ (\E q \in Requests : serving[q] \in Unguarded) \/ life = "stopping"
    /\ Die

\* toggle-cdc; a connection that is still open may use it during the shutdown.
ToggleCdc ==
    /\ \E t \in Toggles :
        \/ life = "up" /\ ReadSlots(t)
        \/ Alive /\ (CreateSlot(t) \/ DropSlot(t) \/ ToggleFails(t))
    /\ UNCHANGED <<processVars, bloatVars, simulatorVars>>

\* Its second statement throws, or is refused by the pool: 500.
ToggleThrows(t) ==
    /\ Alive /\ toggle[t] # "idle"
    /\ toggle' = [toggle EXCEPT ![t] = "idle"]
    /\ UNCHANGED <<reader, log, slot, owed, adapterVars, debeziumVars, processVars,
                   bloatVars, simulatorVars>>

------------------------------------------------------------------------------
(***************************************************************************)
(* simulate-bloat: INSERT, ANALYZE, two timers, and the answer.            *)
(***************************************************************************)
SimulateBloat(b) ==
    /\ life = "up"
    /\ bloat[b] = "none" /\ timers[b] = {} /\ b \notin bloatRows
    /\ bloat' = [bloat EXCEPT ![b] = "insert"]
    /\ UNCHANGED <<vars, processVars, timers, bloatRows, abandoned, simulatorVars>>

BloatInserted(b) ==
    /\ bloat[b] = "insert"
    /\ bloatRows' = bloatRows \cup {b}
    /\ bloat' = [bloat EXCEPT ![b] = "analyze"]
    /\ UNCHANGED <<vars, processVars, timers, abandoned, simulatorVars>>

\* Either statement throws: 500.  The rows are there all the same if it was
\* ANALYZE, or only the answer of INSERT that was lost.
BloatThrows(b) ==
    /\ bloat[b] \in {"insert", "analyze"}
    /\ bloat' = [bloat EXCEPT ![b] = "none"]
    /\ \/ bloatRows' = bloatRows \cup {b} /\ bloat[b] = "insert"
       \/ UNCHANGED bloatRows
    /\ abandoned' = abandoned \cup ({b} \cap bloatRows')
    /\ UNCHANGED <<vars, processVars, timers, simulatorVars>>

BloatScheduled(b) ==
    /\ bloat[b] = "analyze"
    /\ bloat' = [bloat EXCEPT ![b] = "none"]
    /\ timers' = [timers EXCEPT ![b] = {"update", "delete"}]
    /\ UNCHANGED <<vars, processVars, bloatRows, abandoned, simulatorVars>>

\* Mutant of UpdateBloat: an update that throws takes the other timer with it.
UpdateBloatOrStop(b) ==
    /\ "update" \in timers[b]
    /\ timers' = [timers EXCEPT ![b] = {}]
    /\ UNCHANGED <<vars, processVars, bloat, bloatRows, abandoned, simulatorVars>>

\* After 15 s; whether it throws makes no difference.
UpdateBloat(b) ==
    /\ "update" \in timers[b]
    /\ timers' = [timers EXCEPT ![b] = @ \ {"update"}]
    /\ UNCHANGED <<vars, processVars, bloat, bloatRows, abandoned, simulatorVars>>

\* After 30 s: the rows of every request go, or the statement throws.
DeleteBloat(b) ==
    /\ timers[b] = {"delete"}
    /\ timers' = [timers EXCEPT ![b] = {}]
    /\ \/ life = "up" /\ bloatRows' = {} /\ abandoned' = {}
       \/ bloatRows' = bloatRows /\ abandoned' = abandoned \cup ({b} \cap bloatRows)
    /\ UNCHANGED <<vars, processVars, bloat, simulatorVars>>

------------------------------------------------------------------------------
ProcessStep ==
    \/ CheckConnection \/ Kill \/ Shutdown \/ Exit \/ SecondSignal \/ Restart
    \/ AddProducer \/ RemoveProducer
    \/ ToggleTraffic \/ SimulateBurst \/ PublishAside
    \/ \E q \in Requests : Serve(q) \/ Answered(q) \/ AnsweredWith500(q)
    \/ Rejects
    \/ ToggleCdc
    \/ \E t \in Toggles : ToggleThrows(t)
    \/ \E b \in Bloats :
        \/ SimulateBloat(b) \/ BloatInserted(b) \/ BloatThrows(b) \/ BloatScheduled(b)
        \/ UpdateBloat(b) \/ DeleteBloat(b)

ElsewhereStep ==
    /\ life = "elsewhere"
    /\ Next
    /\ UNCHANGED <<processVars, bloatVars, simulatorVars>>

PlaneNext == ElsewhereStep \/ ProcessStep

PlaneSpec == PlaneInit /\ [][PlaneNext]_planeVars

------------------------------------------------------------------------------
(***************************************************************************)
(* Properties.                                                             *)
(***************************************************************************)

\* The rows of simulate-bloat do not stay: as long as they are in the outbox
\* the request is still being served or its delete timer is pending, however
\* such requests, cleanups and each other's timers interleave, unless it was
\* answered 500 after its INSERT, its DELETE threw, or the process ended.
BloatIsTransient ==
    \A b \in bloatRows :
        bloat[b] = "analyze" \/ "delete" \in timers[b] \/ b \in abandoned

\* removeProducer does not look at producerIndex, so the next event may have
\* no producer; but there are never more such events than removals.
OrphansAreBounded == orphans <= removals
==============================================================================
