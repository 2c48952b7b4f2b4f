------------------------------ MODULE Migration ------------------------------
(***************************************************************************)
(* Schema migrations run by several replicas against one database          *)
(* (framework/database/migrator.go, migration_lock.go,                     *)
(* migration_revert.go, migration_version.go, sql_migration.go).           *)
(*                                                                         *)
(* A migration is a name with its numeric version and its rank among the   *)
(* names as strings.  What its Up and Down do to the schema is one number  *)
(* per migration, how often Up was committed less how often Down was; a    *)
(* transaction is one step, as the databases with transactional DDL give.  *)
(*                                                                         *)
(* One unit of time is one heartbeat interval.  A replica is stalled when  *)
(* its heartbeat, a goroutine beside the one that migrates, is late.  Only *)
(* Migrate may stall here: the other operations are taken to keep their    *)
(* lock (README section 4).                                                *)
(***************************************************************************)
EXTENDS Integers, Sequences, FiniteSets, SequencesExt

CONSTANTS
  Replicas,
  Names,        \* migrations known to some replica
  Parts, Rank,  \* per name: numeric version, place in the order of strings
  Coded,        \* per replica: migrations registered by Go code, in order
  CodedDown,    \* those that define Down
  Files,        \* per replica: SQL files found, [stem, undo]
  Sum,          \* per replica and name: checksum, 0 when there is none
  Baseline,     \* baseline-version, in the domain of Parts and Rank
  Existing,     \* migrations whose tables a database to be baselined has
  OutOfOrder,   \* out-of-order
  Timeout, MaxWait,           \* lock timeout and maxWait, in intervals
  MaxTime, MaxOps, MaxCrashes, MaxStalls,  \* bounds
  Nil

ASSUME MigrationAssumption ==
  /\ Parts \in [Names \cup {Baseline} -> Seq(Nat)]
  /\ Rank \in [Names \cup {Baseline} -> Nat]
  /\ IsFiniteSet(Names)
  /\ Coded \in [Replicas -> Seq(Names)] /\ CodedDown \subseteq Names
  /\ \A r \in Replicas : IsInjective(Coded[r])
  /\ Files \in [Replicas -> SUBSET [stem : Names, undo : BOOLEAN]]
  /\ Sum \in [Replicas -> [Names -> Nat]]
  /\ Existing \subseteq Names /\ OutOfOrder \in BOOLEAN
  /\ {Timeout, MaxWait} \subseteq Nat \ {0} /\ Nil \notin Replicas

VARIABLES
  now,
  lock,        \* row of springo_migrations_lock
  records,     \* springo_migrations, by ascending id
  nextId,
  effect,      \* per migration: Ups less Downs committed
  registered,  \* per replica: registeredMigrations
  baselineOn,  \* baseline-on-migrate
  run,         \* per replica: its operation
  stalled,     \* replicas whose heartbeat is late
  faults       \* operations started, crashes, stalls

vars == <<now, lock, records, nextId, effect, registered, baselineOn, run, stalled, faults>>
dbVars == <<records, nextId, effect>>
confVars == <<registered, baselineOn>>

Idle == [pc |-> "idle", kind |-> Nil, steps |-> 0, deadline |-> 0, t |-> 0,
         at |-> 0, seen |-> {}, todo |-> <<>>, batch |-> 0]
Critical == {"read", "baseline", "plan", "up", "count", "desc", "down", "release"}

Init ==
  /\ now = 0
  /\ lock = [locked |-> FALSE, at |-> 0, by |-> Nil]
  /\ records = <<>> /\ nextId = 1
  /\ baselineOn \in BOOLEAN
  /\ effect = [m \in Names |-> IF baselineOn /\ m \in Existing THEN 1 ELSE 0]
  /\ registered = Coded
  /\ run = [r \in Replicas |-> Idle]
  /\ stalled = {}
  /\ faults = [ops |-> 0, crashes |-> 0, stalls |-> 0]

-----------------------------------------------------------------------------
(* Names, versions and what a replica has registered.                      *)

VersionLess(p, q) ==
  \/ IsStrictPrefix(p, q)
  \/ \E i \in 1..Len(p) : /\ i <= Len(q) /\ p[i] < q[i]
                          /\ \A j \in 1..(i - 1) : p[j] = q[j]

compareMigrationNames(a, b) ==
  LET p == Parts[a]
      q == Parts[b]
  IN IF p # <<>> /\ q # <<>> /\ p # q THEN VersionLess(p, q) ELSE Rank[a] < Rank[b]

isVersionLTE(name, version) == ~compareMigrationNames(version, name)

\* The orders of S in which each member comes before the next one; there is
\* one such order when before is a strict order of S.
Orders(S, before) ==
  {s \in [1..Cardinality(S) -> S] :
     /\ IsInjective(s)
     /\ \A i \in 1..(Cardinality(S) - 1) : <<s[i], s[i + 1]>> \in before}
Sorted(S) == Orders(S, {p \in S \X S : compareMigrationNames(p[1], p[2])})

\* The undo file beside a forward file becomes its Down; a name that is
\* already registered is not registered again.
DiscoverSQLMigrations(r) == {f.stem : f \in {g \in Files[r] : ~g.undo}}
AutoDiscover(r) ==
  \E found \in Sorted(DiscoverSQLMigrations(r) \ Range(registered[r])) :
    registered' = [registered EXCEPT ![r] = @ \o found]
HasDown(r, m) ==
  IF m \in Range(Coded[r]) THEN m \in CodedDown ELSE [stem |-> m, undo |-> TRUE] \in Files[r]

Recorded == {records[i].name : i \in DOMAIN records}

Tampered(r) ==
  \E rec \in run[r].seen :
    rec.name \in Range(registered[r]) /\ Sum[r][rec.name] \notin {0, rec.sum}

RegisteredBefore(r) ==
  LET list == registered[r]
  IN {p \in Range(list) \X Range(list) :
        \E i, j \in DOMAIN list : i < j /\ list[i] = p[1] /\ list[j] = p[2]}
Baselined(r) == {m \in Range(registered[r]) : isVersionLTE(m, Baseline)}
BaselineOf(r) == Orders(Baselined(r), RegisteredBefore(r))

OutOfOrderIn(pending, seen) ==
  /\ ~OutOfOrder
  /\ \E rec \in seen :
       /\ \A other \in seen : ~compareMigrationNames(rec.name, other.name)
       /\ \E p \in pending : compareMigrationNames(p, rec.name)

NextBatch == IF records = <<>> THEN 1
             ELSE 1 + (CHOOSE b \in {records[i].batch : i \in DOMAIN records} :
                         \A i \in DOMAIN records : records[i].batch <= b)

Record(r, m, id, batch) == [id |-> id, name |-> m, batch |-> batch, sum |-> Sum[r][m]]

-----------------------------------------------------------------------------
(* Time, and the faults of a replica.  A replica that is not stalled beats *)
(* every interval, and reads the clock and the lock row within one.        *)

Holding(r) == run[r].pc \in Critical

Tick ==
  /\ now < MaxTime
  /\ \A r \in Replicas \ stalled :
       /\ Holding(r) /\ lock.by = r => lock.at = now
       /\ run[r].pc \in {"look", "break"} => run[r].t = now
  /\ now' = now + 1
  /\ UNCHANGED <<lock, dbVars, confVars, run, stalled, faults>>

updateLockHeartbeat(r) ==
  /\ Holding(r) /\ lock.by = r /\ lock.at # now
  /\ lock' = [lock EXCEPT !.at = now]
  /\ UNCHANGED <<now, dbVars, confVars, run, stalled, faults>>

Stall(r) ==
  /\ Holding(r) /\ run[r].kind = "migrate" /\ r \notin stalled
  /\ faults.stalls < MaxStalls
  /\ stalled' = stalled \cup {r}
  /\ faults' = [faults EXCEPT !.stalls = @ + 1]
  /\ UNCHANGED <<now, lock, dbVars, confVars, run>>

\* The lock row of a crashed replica stays; its transaction rolls back.  A
\* restarted process would draw another lock token: it is another replica.
Crash(r) ==
  /\ run[r].pc \notin {"idle", "crashed"} /\ faults.crashes < MaxCrashes
  /\ run' = [run EXCEPT ![r] = [Idle EXCEPT !.pc = "crashed"]]
  /\ stalled' = stalled \ {r}
  /\ faults' = [faults EXCEPT !.crashes = @ + 1]
  /\ UNCHANGED <<now, lock, dbVars, confVars>>

-----------------------------------------------------------------------------
(* waitForLock and acquireLock.                                            *)

Goto(r, pc) == run' = [run EXCEPT ![r].pc = pc]

\* A database to be baselined sees Migrate first: Refresh does not baseline,
\* and would run every Up on the tables that exist.
Start(r, kind, steps) ==
  /\ run[r].pc = "idle" /\ faults.ops < MaxOps
  /\ kind = "migrate" \/ ~baselineOn \/ records # <<>>
  /\ AutoDiscover(r)
  /\ run' = [run EXCEPT ![r] = [Idle EXCEPT !.pc = "wait", !.kind = kind, !.steps = steps,
                                            !.deadline = now + MaxWait]]
  /\ faults' = [faults EXCEPT !.ops = @ + 1]
  /\ UNCHANGED <<now, lock, dbVars, baselineOn, stalled>>

FirstStep(kind) ==
  CASE kind = "migrate" -> "read"
    [] kind = "rollback" -> "desc"
    [] kind \in {"reset", "refresh"} -> "count"

Own(r, t) ==
  /\ lock' = [locked |-> TRUE, at |-> t, by |-> r]
  /\ run' = [run EXCEPT ![r] = [Idle EXCEPT !.pc = FirstStep(run[r].kind),
                                            !.kind = run[r].kind, !.steps = run[r].steps]]

TryLock(r) ==
  /\ run[r].pc = "wait" /\ now < run[r].deadline
  /\ IF lock.locked
     THEN /\ run' = [run EXCEPT ![r].pc = "look", ![r].t = now]
          /\ UNCHANGED lock
     ELSE Own(r, now)
  /\ UNCHANGED <<now, dbVars, confVars, stalled, faults>>

Look(r) ==
  /\ run[r].pc = "look"
  /\ IF lock.locked /\ run[r].t - lock.at > Timeout
     THEN run' = [run EXCEPT ![r].pc = "break", ![r].at = lock.at]
     ELSE run' = [run EXCEPT ![r].pc = "wait", ![r].t = 0]
  /\ UNCHANGED <<now, lock, dbVars, confVars, stalled, faults>>

BreakUnseen(r) ==
  /\ run[r].pc = "break"
  /\ IF lock.locked THEN Own(r, run[r].t) ELSE Goto(r, "wait") /\ UNCHANGED lock
  /\ UNCHANGED <<now, dbVars, confVars, stalled, faults>>

Break(r) ==
  /\ run[r].pc = "break"
  /\ IF lock.locked /\ lock.at = run[r].at
     THEN Own(r, run[r].t)
     ELSE run' = [run EXCEPT ![r].pc = "wait", ![r].t = 0, ![r].at = 0] /\ UNCHANGED lock
  /\ UNCHANGED <<now, dbVars, confVars, stalled, faults>>

GiveUp(r) ==
  /\ run[r].pc = "wait" /\ now >= run[r].deadline
  /\ run' = [run EXCEPT ![r] = Idle]
  /\ UNCHANGED <<now, lock, dbVars, confVars, stalled, faults>>

\* The deferred stop: the heartbeat ends, then the row is released if it
\* still names this operation.
Release(r) ==
  /\ run[r].pc = "release"
  /\ lock' = IF lock.by = r THEN [lock EXCEPT !.locked = FALSE, !.by = Nil] ELSE lock
  /\ run' = [run EXCEPT ![r] = Idle]
  /\ stalled' = stalled \ {r}
  /\ UNCHANGED <<now, dbVars, confVars, faults>>

-----------------------------------------------------------------------------
(* Migrate, and the second half of Refresh.                                *)

ReadExecuted(r) ==
  LET seen == Range(records)
      baselines == /\ run[r].kind = "migrate" /\ baselineOn
                   /\ seen = {} /\ Baselined(r) # {}
  IN /\ run[r].pc = "read"
     /\ run' = [run EXCEPT ![r].pc = IF baselines THEN "baseline" ELSE "plan", ![r].seen = seen]
     /\ UNCHANGED <<now, lock, dbVars, confVars, stalled, faults>>

\* One transaction; the unique index on the name refuses a second record.
ApplyBaseline(r) ==
  /\ run[r].pc = "baseline"
  /\ IF Baselined(r) \cap Recorded = {}
     THEN \E names \in BaselineOf(r) :
            /\ records' = records \o
                 [i \in DOMAIN names |-> Record(r, names[i], nextId + i - 1, 1)]
            /\ nextId' = nextId + Len(names)
            /\ run' = [run EXCEPT ![r].pc = "plan", ![r].seen = Range(records')]
     ELSE Goto(r, "release") /\ UNCHANGED <<records, nextId>>
  /\ UNCHANGED <<now, lock, effect, confVars, stalled, faults>>

Plan(r) ==
  LET pending == {m \in Range(registered[r]) : \A rec \in run[r].seen : rec.name # m}
      refused == \/ Tampered(r) \/ pending = {}
                 \/ run[r].kind = "migrate" /\ OutOfOrderIn(pending, run[r].seen)
  IN /\ run[r].pc = "plan"
     /\ IF refused
        THEN Goto(r, "release")
        ELSE \E todo \in Sorted(pending) :
               run' = [run EXCEPT ![r].pc = "up", ![r].todo = todo,
                                  ![r].batch = NextBatch, ![r].seen = {}]
     /\ UNCHANGED <<now, lock, dbVars, confVars, stalled, faults>>

Fails(r, pc) ==
  /\ run[r].pc = pc
  /\ run' = [run EXCEPT ![r].pc = "release", ![r].todo = <<>>]
  /\ UNCHANGED <<now, lock, dbVars, confVars, stalled, faults>>

\* Up fails when a statement does or its file was edited after discovery.
UpFails(r) == Fails(r, "up")

Advance(r, last) ==
  LET rest == Tail(run[r].todo)
  IN run' = [run EXCEPT ![r].todo = rest, ![r].pc = IF rest = <<>> THEN last ELSE @]

\* Without the transaction around Up and its record.
UpOutsideTx(r) ==
  LET m == Head(run[r].todo)
  IN /\ run[r].pc = "up"
     /\ effect' = [effect EXCEPT ![m] = @ + 1]
     /\ IF m \in Recorded
        THEN Goto(r, "release") /\ UNCHANGED <<records, nextId>>
        ELSE /\ records' = Append(records, Record(r, m, nextId, run[r].batch))
             /\ nextId' = nextId + 1
             /\ Advance(r, "release")
     /\ UNCHANGED <<now, lock, confVars, stalled, faults>>

Up(r) ==
  LET m == Head(run[r].todo)
  IN /\ run[r].pc = "up"
     /\ IF m \in Recorded
        THEN Goto(r, "release") /\ UNCHANGED dbVars
        ELSE /\ effect' = [effect EXCEPT ![m] = @ + 1]
             /\ records' = Append(records, Record(r, m, nextId, run[r].batch))
             /\ nextId' = nextId + 1
             /\ Advance(r, "release")
     /\ UNCHANGED <<now, lock, confVars, stalled, faults>>

-----------------------------------------------------------------------------
(* Rollback, Reset, and the first half of Refresh.                         *)

Count(r) ==
  /\ run[r].pc = "count"
  /\ run' = [run EXCEPT
       ![r].steps = Len(records),
       ![r].pc = IF records # <<>> THEN "desc"
                 ELSE IF run[r].kind = "refresh" THEN "read" ELSE "release"]
  /\ UNCHANGED <<now, lock, dbVars, confVars, stalled, faults>>

\* steps = 0 stands for the last batch, as far as it is contiguous.
MigrationsToRevert(executed, steps) ==
  LET lastBatch == {n \in 1..Len(executed) :
                      \A i \in 1..n : executed[i].batch = executed[1].batch}
      n == IF steps = 0 THEN Cardinality(lastBatch)
           ELSE IF steps > Len(executed) THEN Len(executed) ELSE steps
  IN SubSeq(executed, 1, n)

AfterDown(r) == IF run[r].kind = "refresh" THEN "read" ELSE "release"

ReadDescending(r) ==
  LET todo == MigrationsToRevert(Reverse(records), run[r].steps)
  IN /\ run[r].pc = "desc"
     /\ run' = [run EXCEPT ![r].todo = todo,
                           ![r].pc = IF todo = <<>> THEN AfterDown(r) ELSE "down"]
     /\ UNCHANGED <<now, lock, dbVars, confVars, stalled, faults>>

DownFails(r) == Fails(r, "down")

\* The record is deleted by its id; no row affected is no error.
Down(r) ==
  LET rec == Head(run[r].todo)
      at == {i \in DOMAIN records : records[i].id = rec.id}
  IN /\ run[r].pc = "down"
     /\ rec.name \in Range(registered[r]) /\ HasDown(r, rec.name)
     /\ effect' = [effect EXCEPT ![rec.name] = @ - 1]
     /\ IF at = {} THEN UNCHANGED records
                   ELSE \E i \in at : records' = RemoveAt(records, i)
     /\ Advance(r, AfterDown(r))
     /\ UNCHANGED <<now, lock, nextId, confVars, stalled, faults>>

-----------------------------------------------------------------------------
Operation(r) ==
  \/ TryLock(r) \/ Look(r) \/ Break(r) \/ GiveUp(r) \/ Release(r)
  \/ ReadExecuted(r) \/ ApplyBaseline(r) \/ Plan(r) \/ Up(r) \/ UpFails(r)
  \/ Count(r) \/ ReadDescending(r) \/ Down(r) \/ DownFails(r)

Next ==
  \/ Tick
  \/ \E r \in Replicas :
       \/ \E kind \in {"migrate", "reset", "refresh"} : Start(r, kind, 0)
       \/ \E steps \in {0, 1} : Start(r, "rollback", steps)
       \/ Operation(r) \/ updateLockHeartbeat(r) \/ Stall(r) \/ Crash(r)

Spec == Init /\ [][Next]_vars

-----------------------------------------------------------------------------
(* Properties.                                                             *)

\* The lock is one replica's at a time: of two replicas inside an operation,
\* one has let its heartbeat lapse, however acquisitions, breaks of a stale
\* lock, heartbeats, releases and crashes are interleaved (acquireLock).
OneMigrator ==
  \A r, s \in Replicas : Holding(r) /\ Holding(s) /\ r # s => r \in stalled \/ s \in stalled

\* The control table tells the truth about the schema: a recorded migration
\* was applied once more than it was reverted and any other was not, even
\* when a replica that lost its lock goes on migrating beside the new holder
\* (the unique index undoes the second Up with its transaction).
SchemaMatchesRecords ==
  /\ \A m \in Recorded : effect[m] = 1
  /\ \A m \in Names \ Recorded : effect[m] = 0 \/ (effect[m] = 1 /\ baselineOn /\ m \in Existing)
  /\ Cardinality(Recorded) = Len(records)
=============================================================================
