-------------------------- MODULE ApplicationProofs --------------------------
(***************************************************************************)
(* Proofs about Application: for any datasources, beans, hooks, requests   *)
(* and callers of Shutdown, the primary database outlives what uses it,    *)
(* and a bootstrap that failed as a Start that returned have closed what   *)
(* they opened.                                                            *)
(*                                                                         *)
(* The argument.  The shutdown hooks that were run are the first of their  *)
(* order (Prefix), and tasks are in an open pool only (Pooled).  While the *)
(* bootstrap is under way, every open handle it is answerable for has a    *)
(* cleanup, so have the shutdown hooks once they are due, and the cleanup  *)
(* of the database lies below those of the pool and of the hooks, so it    *)
(* runs after them (Booting).  Afterwards the stages of doShutdown take    *)
(* over: nobody enters it before Run serves, one goroutine enters it once  *)
(* (Entered), and each stage leaves its resource closed behind it, which   *)
(* nothing opens again (Stopped).                                          *)
(***************************************************************************)
EXTENDS Application, FiniteSetTheorems, SequenceTheorems, TLAPS

-----------------------------------------------------------------------------
(* The invariant.                                                          *)

BootPcs == {"config", "telemetry", "connect", "schema", "eventBus", "datasources",
            "beans", "initializers", "startupTasks", "cleanup", "exited"}
\* Run, before and once Ready is closed.
Starting == {"background", "runners", "listen", "ready"}
Late == {"serve", "serving", "notReady", "stopping", "returned"}

Stages == {"new", "http", "drain", "scheduler", "pool", "hooks", "telemetry", "beans",
           "db", "done"}
\* The stages behind some of them.
AfterHTTP == Stages \ {"new", "http"}
AfterDrain == Stages \ {"new", "http", "drain"}
AfterScheduler == {"pool", "hooks", "telemetry", "beans", "db", "done"}
AfterPool == {"hooks", "telemetry", "beans", "db", "done"}
AfterHooks == {"telemetry", "beans", "db", "done"}
AfterTelemetry == {"beans", "db", "done"}
AfterBeans == {"db", "done"}

Cleanups == {"telemetry", "db", "pool", "hooks"} \cup DataSources
Registered(r) == \E i \in 1..Len(cleanups) : cleanups[i] = r

\* The types of what the bootstrap works on, and of the rest.
BootTypes ==
  /\ enabled \in SUBSET Optional
  /\ resource \in [Resources -> {"new", "open", "closed"}]
  /\ lost \subseteq DataSources \cup {"db"} /\ pending \subseteq DataSources
  /\ cleanups \in Seq(Cleanups)
  /\ hooksDue \in BOOLEAN

RunTypes ==
  /\ pc \in BootPcs \cup Starting \cup Late
  /\ watcher \in {"new", "waiting", "stopping", "gone"}
  /\ caller \in [Callers -> {"idle", "stopping", "returned"}]
  /\ stage \in Stages
  /\ server \in {"new", "published", "serving", "down"}
  /\ forced \in BOOLEAN /\ running \in BOOLEAN
  /\ tasks \in Nat

\* What was run of the shutdown hooks is the beginning of their order.
Prefix ==
  /\ done = [k \in Kinds |-> done[k]]
  /\ \E n \in 0..Len(HooksOf("shutdown")) :
       done["shutdown"] = [i \in 1..n |-> HooksOf("shutdown")[i]]
  /\ done["shutdown"] # <<>> => hooksDue

Pooled == tasks # 0 => resource["pool"] = "open"

Entered ==
  /\ once = Nobody => stage = "new"
  /\ pc \notin Late =>
       stage = "new" /\ watcher = "new" /\ \A c \in Callers : caller[c] = "idle"
  /\ pc = "returned" => stage = "done"

\* The cleanups of the pool and of the hooks lie above that of the database.
Layered ==
  \A i, j \in 1..Len(cleanups) :
    cleanups[i] = "db" /\ cleanups[j] \in {"pool", "hooks"} => i < j
\* Only telemetry was begun before the database.
Lowest == \A i \in 1..Len(cleanups) : cleanups[i] = "telemetry"
\* What is open has a cleanup.
Covered ==
  \A r \in Resources : resource[r] = "open" => r \in Closers \cup lost \/ Registered(r)

\* While the bootstrap is under way, or its cleanups are.
Booting ==
  pc \in BootPcs =>
    /\ resource["scheduler"] = "new" /\ ~running
    /\ pc \in {"config", "telemetry", "connect"} => Lowest
    /\ Layered /\ Covered
    /\ hooksDue => Finished("shutdown") \/ Registered("hooks")
    /\ Registered("hooks") => hooksDue
    /\ pc \in {"initializers", "startupTasks"} => hooksDue
    /\ resource["db"] = "closed" =>
         pc \in {"cleanup", "exited"} /\ ~Registered("pool") /\ ~Registered("hooks")
    /\ pc = "exited" => cleanups = << >>

\* What the stages leave behind.
Stopped ==
  pc \notin BootPcs =>
    /\ hooksDue
    /\ stage \in AfterScheduler => resource["scheduler"] # "open" /\ ~running
    /\ stage \in AfterPool => resource["pool"] # "open"
    /\ stage \in AfterHooks => Finished("shutdown")
    /\ stage \in AfterTelemetry => resource["telemetry"] # "open"
    /\ stage \in AfterBeans => \A r \in DataSources \cup Closers : resource[r] # "open"
    /\ stage = "done" => resource["db"] # "open"
    /\ resource["db"] = "closed" => stage = "done"

\* The server and its listener.
Served ==
  /\ pc \in BootPcs \cup {"background", "runners", "listen"} =>
       server = "new" /\ resource["listener"] = "new"
  /\ server = "new" => inflight = {}
  /\ stage \in AfterHTTP => server \in {"new", "down"}
  /\ stage \in AfterDrain => inflight = {} \/ forced
  /\ pc = "notReady" => Hooks["ready"] # {}
  /\ pc \in {"stopping", "returned"} /\ resource["listener"] = "open" => Hooks["ready"] # {}

ApplicationInv ==
  /\ BootTypes /\ RunTypes
  /\ Prefix /\ Pooled /\ Entered /\ Booting /\ Stopped /\ Served

-----------------------------------------------------------------------------
(* What the helpers do.                                                    *)

LEMMA OpenedEffect ==
  ASSUME BootTypes, NEW r \in Resources, Opened(r)
  PROVE  /\ resource' \in [Resources -> {"new", "open", "closed"}]
         /\ resource'[r] = "open"
         /\ \A q \in Resources \ {r} : resource'[q] = resource[q]
BY DEF BootTypes, Opened

LEMMA ClosedEffect ==
  ASSUME BootTypes, NEW S, Closed(S)
  PROVE  /\ resource' \in [Resources -> {"new", "open", "closed"}]
         /\ \A q \in Resources : resource'[q] = "open" => resource[q] = "open"
         /\ \A q \in Resources : q \in S => resource'[q] # "open"
         /\ \A q \in Resources : q \notin S => resource'[q] = resource[q]
         /\ \A q \in Resources : resource[q] = "new" => resource'[q] = "new"
BY DEF BootTypes, Closed

LEMMA CleanupEffect ==
  ASSUME BootTypes, NEW r \in Cleanups, Cleanup(r)
  PROVE  /\ cleanups' \in Seq(Cleanups)
         /\ Len(cleanups) \in Nat /\ Len(cleanups') = Len(cleanups) + 1
         /\ cleanups'[Len(cleanups')] = r
         /\ \A i \in 1..Len(cleanups) : cleanups'[i] = cleanups[i]
         /\ Registered(r)'
         /\ \A q : Registered(q)' <=> q = r \/ Registered(q)
<1>1. /\ cleanups' \in Seq(Cleanups)
      /\ Len(cleanups) \in Nat /\ Len(cleanups') = Len(cleanups) + 1
      /\ cleanups'[Len(cleanups')] = r
      /\ \A i \in 1..Len(cleanups) : cleanups'[i] = cleanups[i]
  BY DEF BootTypes, Cleanup
<1>2. \A i \in 1..Len(cleanups') : i = Len(cleanups') \/ i \in 1..Len(cleanups)
  BY <1>1
<1>3. Len(cleanups') \in 1..Len(cleanups') /\ 1..Len(cleanups) \subseteq 1..Len(cleanups')
  BY <1>1
<1> QED
  BY <1>1, <1>2, <1>3 DEF Registered

\* The last cleanup is taken off.
LEMMA PopEffect ==
  ASSUME BootTypes, cleanups # << >>, cleanups' = SubSeq(cleanups, 1, Len(cleanups) - 1)
  PROVE  /\ cleanups' \in Seq(Cleanups)
         /\ Len(cleanups) \in Nat \ {0} /\ Len(cleanups') = Len(cleanups) - 1
         /\ cleanups[Len(cleanups)] \in Cleanups
         /\ \A i \in 1..Len(cleanups') : cleanups'[i] = cleanups[i]
         /\ \A q : Registered(q)' => Registered(q)
         /\ \A q : Registered(q) => q = cleanups[Len(cleanups)] \/ Registered(q)'
         /\ Registered(cleanups[Len(cleanups)])
<1>1. /\ cleanups' \in Seq(Cleanups)
      /\ Len(cleanups) \in Nat \ {0} /\ Len(cleanups') = Len(cleanups) - 1
      /\ cleanups[Len(cleanups)] \in Cleanups
      /\ \A i \in 1..Len(cleanups') : cleanups'[i] = cleanups[i]
  <2>1. cleanups \in Seq(Cleanups) /\ Len(cleanups) \in Nat
    BY DEF BootTypes
  <2>2. Len(cleanups) # 0
    BY <2>1, EmptySeq
  <2>3. 0 <= Len(cleanups) - 1 /\ Len(cleanups) - 1 <= Len(cleanups)
    BY <2>1, <2>2
  <2>4. \A i \in 1..Len(cleanups) : cleanups[i] \in Cleanups
    BY <2>1
  <2>5. \A i \in 1..Len(cleanups) - 1 : cleanups[i] \in Cleanups
    BY <2>1, <2>4
  <2> DEFINE m == Len(cleanups) - 1
  <2>6. m \in Int /\ 1 \in Int /\ \A i \in 1..m : cleanups[i] \in Cleanups
    BY <2>1, <2>5
  <2> HIDE DEF m
  <2>7. /\ SubSeq(cleanups, 1, m) \in Seq(Cleanups)
        /\ Len(SubSeq(cleanups, 1, m)) = IF 1 <= m THEN m - 1 + 1 ELSE 0
        /\ \A i \in 1..(m - 1 + 1) : SubSeq(cleanups, 1, m)[i] = cleanups[1 + i - 1]
    BY <2>6, SubSeqProperties
  <2>8. m - 1 + 1 = m /\ \A i \in 1..m : 1 + i - 1 = i
    BY <2>6
  <2> QED
    BY <2>1, <2>2, <2>3, <2>4, <2>7, <2>8 DEF m
<1>2. \A i \in 1..Len(cleanups) : i = Len(cleanups) \/ i \in 1..Len(cleanups')
  BY <1>1
<1>3. Len(cleanups) \in 1..Len(cleanups) /\ 1..Len(cleanups') \subseteq 1..Len(cleanups)
  BY <1>1
<1> QED
  BY <1>1, <1>2, <1>3 DEF Registered

\* The forward order (runForward, RunCommandLineRunners) is that of Order, and of
\* Name between components of the same order: whatever registered hooks of a
\* kind is in it, and stands before those it comes before.
THEOREM HooksInOrder ==
  ASSUME NEW S \in SUBSET Components
  PROVE  LET n == Cardinality(S) IN
         /\ n \in Nat /\ Forward(S) \in [1..n -> S]
         /\ \A c \in S : \E i \in 1..n : Forward(S)[i] = c
         /\ \A i, j \in 1..n : i < j => Before(Forward(S)[i], Forward(S)[j])
<1> DEFINE n == Cardinality(S)
           below(c) == {d \in S : Before(d, c)}
           rank(c) == Cardinality(below(c))
           f == [c \in S |-> rank(c)]
           e(i) == CHOOSE c \in S : rank(c) = i - 1
<1>1. IsFiniteSet(S) /\ n \in Nat
  BY ApplicationAssumption, FS_Subset, FS_CardinalityType
<1>2. /\ \A c \in S : ~Before(c, c)
      /\ \A c, d, b \in S : Before(b, c) /\ Before(c, d) => Before(b, d)
      /\ \A c, d \in S : c = d \/ Before(c, d) \/ Before(d, c)
  <2>1. \A c \in S : Order[c] \in Int /\ Name[c] \in Int
    BY ApplicationAssumption
  <2>2. \A c, d \in S : Name[c] = Name[d] => c = d
    BY ApplicationAssumption
  <2> QED
    BY <2>1, <2>2 DEF Before
<1>3. \A c \in S : IsFiniteSet(below(c)) /\ rank(c) \in Nat
  <2> TAKE c \in S
  <2>1. below(c) \in SUBSET S
    OBVIOUS
  <2> QED
    BY <2>1, <1>1, FS_Subset, FS_CardinalityType
<1>4. \A c \in S : rank(c) \in 0..(n - 1)
  <2> TAKE c \in S
  <2>1. below(c) \in SUBSET S /\ below(c) # S
    BY <1>2
  <2>2. rank(c) <= n /\ (n = rank(c) => S = below(c))
    BY <2>1, <1>1, FS_Subset
  <2> HIDE DEF n, rank, below
  <2> QED
    BY <2>1, <2>2, <1>1, <1>3
<1>5. \A c, d \in S : Before(c, d) => rank(c) < rank(d)
  <2> SUFFICES ASSUME NEW c \in S, NEW d \in S, Before(c, d)
               PROVE  rank(c) < rank(d)
    OBVIOUS
  <2>1. below(c) \in SUBSET below(d) /\ c \in below(d) /\ c \notin below(c)
    BY <1>2
  <2>2. rank(c) <= rank(d) /\ (rank(d) = rank(c) => below(d) = below(c))
    BY <2>1, <1>3, FS_Subset
  <2>3. rank(c) \in Nat /\ rank(d) \in Nat
    BY <1>3
  <2> HIDE DEF rank, below
  <2> QED
    BY <2>1, <2>2, <2>3
<1>6. Forward(S) = [i \in 1..n |-> e(i)]
  BY DEF Forward
<1>7. \A i \in 1..n : (\E c \in S : rank(c) = i - 1) => e(i) \in S /\ rank(e(i)) = i - 1
  OBVIOUS
<1> HIDE DEF n, rank, e, below
<1>8. f \in Injection(S, 0..(n - 1))
  <2>1. f \in [S -> 0..(n - 1)]
    BY <1>4
  <2>2. ASSUME NEW c \in S, NEW d \in S, rank(c) = rank(d)
        PROVE  c = d
    BY <2>2, <1>2, <1>3, <1>5
  <2> QED
    BY <2>1, <2>2 DEF Injection, IsInjective
<1>9. f \in Surjection(S, 0..(n - 1))
  <2>1. 0 \in Int /\ n - 1 \in Int /\ (0 > n - 1 => n = 0)
    BY <1>1
  <2>2. IsFiniteSet(0..(n - 1)) /\ Cardinality(0..(n - 1)) = n
    BY <2>1, <1>1, FS_Interval
  <2> HIDE DEF f
  <2> QED
    BY <2>2, <1>8, FS_Injection DEF n
<1>10. \A k \in 0..(n - 1) : \E c \in S : rank(c) = k
  BY <1>9 DEF Surjection
<1>11. \A i \in 1..n : e(i) \in S /\ rank(e(i)) = i - 1
  <2> TAKE i \in 1..n
  <2>1. i - 1 \in 0..(n - 1)
    BY <1>1
  <2> QED
    BY <2>1, <1>7, <1>10
<1>12. \A c \in S : \E i \in 1..n : e(i) = c
  <2> TAKE c \in S
  <2>1. rank(c) + 1 \in 1..n /\ (rank(c) + 1) - 1 = rank(c)
    BY <1>1, <1>4
  <2>2. e(rank(c) + 1) \in S /\ rank(e(rank(c) + 1)) = rank(c)
    BY <2>1, <1>11
  <2>3. e(rank(c) + 1) = c
    BY <2>2, <1>2, <1>3, <1>5
  <2> QED
    BY <2>1, <2>3
<1>13. \A i, j \in 1..n : i < j => Before(e(i), e(j))
  <2> SUFFICES ASSUME NEW i \in 1..n, NEW j \in 1..n, i < j
               PROVE  Before(e(i), e(j))
    OBVIOUS
  <2>1. /\ e(i) \in S /\ e(j) \in S
        /\ rank(e(i)) = i - 1 /\ rank(e(j)) = j - 1
    BY <1>11
  <2>2. e(i) # e(j) /\ ~(rank(e(j)) < rank(e(i)))
    BY <2>1, <1>1
  <2> QED
    BY <2>1, <2>2, <1>2, <1>5
<1> QED
  BY <1>1, <1>6, <1>11, <1>12, <1>13 DEF n

\* The order of the hooks is a sequence of them.
LEMMA HooksLength ==
  /\ Len(HooksOf("shutdown")) \in Nat
  /\ HooksOf("shutdown") = [i \in 1..Len(HooksOf("shutdown")) |-> HooksOf("shutdown")[i]]
  /\ HooksOf("shutdown") = Backward(Hooks["shutdown"])
<1> DEFINE S == Hooks["shutdown"]
           n == Cardinality(S)
           H == HooksOf("shutdown")
           e(i) == CHOOSE c \in S : Cardinality({d \in S : Before(d, c)}) = i - 1
<1>1. IsFiniteSet(S)
  BY ApplicationAssumption, FS_Subset DEF Kinds
<1>2. n \in Nat
  BY <1>1, FS_CardinalityType
<1>3. H = Reverse(Forward(S))
  BY DEF HooksOf, Backward
<1>4. Forward(S) = [i \in 1..n |-> e(i)]
  BY DEF Forward
<1> HIDE DEF n, S, H, e
<1>5. Len(Forward(S)) = n
  BY <1>2, <1>4
<1>6. H = [i \in 1..n |-> Forward(S)[(n - i) + 1]]
  BY <1>3, <1>5 DEF Reverse
<1>7. Len(H) = n
  BY <1>2, <1>6
<1>8. H = [i \in 1..n |-> H[i]]
  BY <1>6
<1> QED
  BY <1>2, <1>3, <1>7, <1>8 DEF H, Backward, S

\* The next hook is run.
LEMMA RunHookEffect ==
  ASSUME Prefix, NEW k \in Kinds, RunHook(k)
  PROVE  /\ done' = [j \in Kinds |-> done'[j]]
         /\ \A j \in Kinds \ {k} : done'[j] = done[j]
         /\ \E n \in 0..Len(HooksOf("shutdown")) :
              done'["shutdown"] = [i \in 1..n |-> HooksOf("shutdown")[i]]
<1> DEFINE H == HooksOf("shutdown")
<1>1. /\ done' = [done EXCEPT ![k] = Append(done[k], HooksOf(k)[Len(done[k]) + 1])]
      /\ Len(done[k]) # Len(HooksOf(k))
  BY DEF RunHook, Finished
<1>2. done = [j \in Kinds |-> done[j]] /\ "shutdown" \in Kinds
  BY DEF Prefix, Kinds
<1>3. /\ done' = [j \in Kinds |-> done'[j]]
      /\ \A j \in Kinds \ {k} : done'[j] = done[j]
      /\ done'[k] = Append(done[k], HooksOf(k)[Len(done[k]) + 1])
  BY <1>1, <1>2
<1>4. PICK n \in 0..Len(H) : done["shutdown"] = [i \in 1..n |-> H[i]]
  BY DEF Prefix
<1> HIDE DEF H
<1>5. Len(H) \in Nat
  BY HooksLength DEF H
<1>6. CASE k = "shutdown"
  <2>1. n \in Nat /\ Len(done[k]) = n
    BY <1>4, <1>5, <1>6
  <2>2. n + 1 \in 0..Len(H)
    BY <2>1, <1>1, <1>4, <1>5, <1>6 DEF H
  <2>3. done'[k] = Append([i \in 1..n |-> H[i]], H[n + 1])
    BY <1>3, <1>4, <1>6, <2>1 DEF H
  <2>4. done'[k] = [i \in 1..(n + 1) |-> H[i]]
    BY <2>1, <2>3
  <2> QED
    BY <1>3, <1>6, <2>2, <2>4 DEF H
<1>7. CASE k # "shutdown"
  BY <1>2, <1>3, <1>4, <1>7 DEF H
<1> QED
  BY <1>6, <1>7

\* A cleanup is added on top: that of the database before all but telemetry's.
LEMMA LayeredStays ==
  ASSUME BootTypes, Layered, NEW r \in Cleanups, Cleanup(r), r = "db" => Lowest
  PROVE  Layered'
<1> DEFINE n == Len(cleanups)
<1>1. /\ n \in Nat /\ Len(cleanups') = n + 1 /\ cleanups'[n + 1] = r
      /\ \A i \in 1..n : cleanups'[i] = cleanups[i]
  BY CleanupEffect
<1> SUFFICES ASSUME NEW i \in 1..(n + 1), NEW j \in 1..(n + 1),
                    cleanups'[i] = "db", cleanups'[j] \in {"pool", "hooks"}
             PROVE  i < j
  BY <1>1 DEF Layered
<1>2. i # j
  OBVIOUS
<1>3. CASE i \in 1..n /\ j \in 1..n
  BY <1>1, <1>3 DEF Layered
<1>4. CASE j = n + 1
  BY <1>1, <1>2, <1>4
<1>5. CASE i = n + 1 /\ j \in 1..n
  BY <1>1, <1>5 DEF Lowest
<1> QED
  BY <1>1, <1>3, <1>4, <1>5

\* What opens r and adds its cleanup.
LEMMA CoveredStays ==
  ASSUME BootTypes, Covered, NEW r \in Cleanups, r \in Resources,
         Opened(r), Cleanup(r), UNCHANGED lost
  PROVE  Covered'
<1>1. \A q \in Resources \ {r} : resource'[q] = resource[q]
  BY OpenedEffect
<1>2. Registered(r)' /\ \A q : Registered(q) => Registered(q)'
  BY CleanupEffect
<1> QED
  BY <1>1, <1>2 DEF Covered

\* The last cleanup runs.
LEMMA PopStays ==
  ASSUME BootTypes, Layered, Covered, NEW r, r = cleanups[Len(cleanups)],
         cleanups # << >>, cleanups' = SubSeq(cleanups, 1, Len(cleanups) - 1),
         UNCHANGED lost, Closed({r}) \/ (r = "hooks" /\ UNCHANGED resource)
  PROVE  /\ Layered' /\ Covered'
         /\ r = "db" => ~Registered("pool")' /\ ~Registered("hooks")'
<1> DEFINE n == Len(cleanups)
<1>1. /\ n \in Nat \ {0} /\ Len(cleanups') = n - 1
      /\ \A i \in 1..Len(cleanups') : cleanups'[i] = cleanups[i]
      /\ \A q : Registered(q) => q = r \/ Registered(q)'
  BY PopEffect
<1>2. /\ 1..Len(cleanups') \subseteq 1..n /\ n \in 1..n
      /\ \A i \in 1..Len(cleanups') : i < n /\ ~(n < i)
  BY <1>1
<1>3. Layered'
  BY <1>1, <1>2 DEF Layered
<1>4. Covered'
  <2>1. CASE Closed({r})
    BY <1>1, <2>1, ClosedEffect DEF Covered
  <2>2. CASE r = "hooks" /\ UNCHANGED resource
    <3>1. "hooks" \notin Resources
      BY ApplicationAssumption DEF Resources, Optional
    <3> QED
      BY <1>1, <2>2, <3>1 DEF Covered
  <2> QED
    BY <2>1, <2>2
<1>5. r = "db" => ~Registered("pool")' /\ ~Registered("hooks")'
  BY <1>1, <1>2 DEF Layered, Registered
<1> QED
  BY <1>3, <1>4, <1>5

-----------------------------------------------------------------------------
(* Every step keeps the invariant.                                         *)

\* What the bootstrap works on keeps its type.
LEMMA BootTypesStep ==
  ASSUME ApplicationInv, [Next]_vars
  PROVE  BootTypes'
<1> USE DEF ApplicationInv, BootTypes, Resources, Optional, Cleanups,
           Kinds, vars, boot, run, stop, work
<1>1. ASSUME LoadConfiguration
      PROVE  BootTypes'
  BY <1>1 DEF LoadConfiguration, Abort, Continue
<1>2. ASSUME InitTelemetry
      PROVE  BootTypes'
  BY <1>2, OpenedEffect, CleanupEffect DEF InitTelemetry, Continue
<1>3. ASSUME ConnectPrimary
      PROVE  BootTypes'
  <2>1. CASE ConnectFails("db")
    <3>1. resource' \in [Resources -> {"new", "open", "closed"}]
      BY <1>3, <2>1, OpenedEffect DEF ConnectFails
    <3> QED
      BY <1>3, <2>1, <3>1 DEF ConnectFails
  <2>2. CASE ~ConnectFails("db")
    <3>1. resource' \in [Resources -> {"new", "open", "closed"}]
      BY <1>3, <2>2, OpenedEffect DEF ConnectPrimary
    <3>2. cleanups' \in Seq(Cleanups)
      BY <1>3, <2>2, CleanupEffect DEF ConnectPrimary
    <3> QED
      BY <1>3, <2>2, <3>1, <3>2 DEF ConnectPrimary
  <2> QED
    BY <2>1, <2>2
<1>4. ASSUME PrepareSchema
      PROVE  BootTypes'
  BY <1>4 DEF PrepareSchema, Abort, Continue
<1>5. ASSUME InitEventBus
      PROVE  BootTypes'
  BY <1>5, OpenedEffect, CleanupEffect DEF InitEventBus, Continue
<1>6. ASSUME NEW d \in DataSources, InitSingleDataSource(d)
      PROVE  BootTypes'
  <2>1. CASE ConnectFails(d)
    <3>1. resource' \in [Resources -> {"new", "open", "closed"}]
      BY <1>6, <2>1, OpenedEffect DEF ConnectFails
    <3> QED
      BY <1>6, <2>1, <3>1 DEF ConnectFails
  <2>2. CASE ~ConnectFails(d)
    <3>1. resource' \in [Resources -> {"new", "open", "closed"}]
      BY <1>6, <2>2, OpenedEffect DEF InitSingleDataSource
    <3>2. cleanups' \in Seq(Cleanups)
      BY <1>6, <2>2, CleanupEffect DEF InitSingleDataSource
    <3> QED
      BY <1>6, <2>2, <3>1, <3>2 DEF InitSingleDataSource
  <2> QED
    BY <2>1, <2>2
<1>7. ASSUME InitAdditionalDataSources
      PROVE  BootTypes'
  BY <1>7 DEF InitAdditionalDataSources, Continue
<1>8. ASSUME InitializeAllBeans
      PROVE  BootTypes'
  BY <1>8, CleanupEffect DEF InitializeAllBeans, Continue, Abort
<1>9. ASSUME RunInitializers
      PROVE  BootTypes'
  BY <1>9 DEF RunInitializers, Continue
<1>10. ASSUME RunStartupTasks
      PROVE  BootTypes'
  BY <1>10 DEF RunStartupTasks, Abort, Continue
<1>11. ASSUME ExecuteCleanups
      PROVE  BootTypes'
  BY <1>11, ClosedEffect, PopEffect DEF ExecuteCleanups
<1>12. ASSUME StartBackgroundJobs
      PROVE  BootTypes'
  BY <1>12, OpenedEffect DEF StartBackgroundJobs
<1>13. ASSUME RunCommandLineRunners
      PROVE  BootTypes'
  BY <1>13 DEF RunCommandLineRunners
<1>14. ASSUME BuildServer
      PROVE  BootTypes'
  BY <1>14, OpenedEffect DEF BuildServer
<1>15. ASSUME RunReady
      PROVE  BootTypes'
  BY <1>15 DEF RunReady
<1>16. ASSUME Serve
      PROVE  BootTypes'
  BY <1>16, ClosedEffect DEF Serve
<1>17. ASSUME AcceptFails
      PROVE  BootTypes'
  BY <1>17, ClosedEffect DEF AcceptFails
<1>18. ASSUME Watch
      PROVE  BootTypes'
  BY <1>18 DEF Watch
<1>19. ASSUME Signal
      PROVE  BootTypes'
  BY <1>19 DEF Signal
<1>20. ASSUME NEW c \in Callers, CallShutdown(c)
      PROVE  BootTypes'
  BY <1>20 DEF CallShutdown
<1>21. ASSUME NEW g \in Goroutines, Enter(g)
      PROVE  BootTypes'
  BY <1>21 DEF Enter, InShutdown
<1>22. ASSUME NEW g \in Goroutines, Leave(g)
      PROVE  BootTypes'
  BY <1>22 DEF Leave, InShutdown
<1>23. ASSUME StopHTTPServer
      PROVE  BootTypes'
  BY <1>23, ClosedEffect DEF StopHTTPServer, Stage
<1>24. ASSUME Drain
      PROVE  BootTypes'
  BY <1>24 DEF Drain, Stage
<1>25. ASSUME StopScheduler
      PROVE  BootTypes'
  BY <1>25, ClosedEffect DEF StopScheduler, Stage
<1>26. ASSUME StopPool
      PROVE  BootTypes'
  BY <1>26, ClosedEffect DEF StopPool, Stage
<1>27. ASSUME RunShutdownHooks
      PROVE  BootTypes'
  BY <1>27 DEF RunShutdownHooks, Stage
<1>28. ASSUME CloseResources
      PROVE  BootTypes'
  BY <1>28, ClosedEffect DEF CloseResources, Stage
<1>29. ASSUME NEW q \in Requests, Arrive(q)
      PROVE  BootTypes'
  BY <1>29 DEF Arrive
<1>30. ASSUME NEW q \in Requests, Answer(q)
      PROVE  BootTypes'
  BY <1>30 DEF Answer
<1>31. ASSUME StartJob
      PROVE  BootTypes'
  BY <1>31 DEF StartJob
<1>32. ASSUME EndJob
      PROVE  BootTypes'
  BY <1>32 DEF EndJob
<1>33. ASSUME Publish
      PROVE  BootTypes'
  BY <1>33 DEF Publish
<1>34. ASSUME EndTask
      PROVE  BootTypes'
  BY <1>34 DEF EndTask
<1>35. ASSUME UNCHANGED vars
      PROVE  BootTypes'
  BY <1>35
<1> QED
  BY <1>1, <1>2, <1>3, <1>4, <1>5, <1>6, <1>7, <1>8, <1>9, <1>10, <1>11, <1>12, <1>13, <1>14, <1>15, <1>16,
     <1>17, <1>18, <1>19, <1>20, <1>21, <1>22, <1>23, <1>24, <1>25, <1>26, <1>27, <1>28,
     <1>29, <1>30, <1>31, <1>32, <1>33, <1>34, <1>35
     DEF Next, Bootstrap, Shutdown

\* So does the rest.
LEMMA RunTypesStep ==
  ASSUME ApplicationInv, [Next]_vars
  PROVE  RunTypes'
<1> USE DEF ApplicationInv, RunTypes, BootPcs, Starting, Late, Stages, Goroutines,
           vars, boot, run, stop, work
<1>1. ASSUME LoadConfiguration
      PROVE  RunTypes'
  BY <1>1 DEF LoadConfiguration, Abort, Continue
<1>2. ASSUME InitTelemetry
      PROVE  RunTypes'
  BY <1>2 DEF InitTelemetry, Continue
<1>3. ASSUME ConnectPrimary
      PROVE  RunTypes'
  BY <1>3 DEF ConnectPrimary, ConnectFails, Abort, Continue
<1>4. ASSUME PrepareSchema
      PROVE  RunTypes'
  BY <1>4 DEF PrepareSchema, Abort, Continue
<1>5. ASSUME InitEventBus
      PROVE  RunTypes'
  BY <1>5 DEF InitEventBus, Continue
<1>6. ASSUME NEW d \in DataSources, InitSingleDataSource(d)
      PROVE  RunTypes'
  BY <1>6 DEF InitSingleDataSource, ConnectFails, Abort, Continue
<1>7. ASSUME InitAdditionalDataSources
      PROVE  RunTypes'
  BY <1>7 DEF InitAdditionalDataSources, Continue
<1>8. ASSUME InitializeAllBeans
      PROVE  RunTypes'
  BY <1>8 DEF InitializeAllBeans, Continue, Abort
<1>9. ASSUME RunInitializers
      PROVE  RunTypes'
  BY <1>9 DEF RunInitializers, Continue
<1>10. ASSUME RunStartupTasks
      PROVE  RunTypes'
  BY <1>10 DEF RunStartupTasks, Abort, Continue
<1>11. ASSUME ExecuteCleanups
      PROVE  RunTypes'
  BY <1>11 DEF ExecuteCleanups
<1>12. ASSUME StartBackgroundJobs
      PROVE  RunTypes'
  BY <1>12 DEF StartBackgroundJobs
<1>13. ASSUME RunCommandLineRunners
      PROVE  RunTypes'
  BY <1>13 DEF RunCommandLineRunners
<1>14. ASSUME BuildServer
      PROVE  RunTypes'
  BY <1>14 DEF BuildServer
<1>15. ASSUME RunReady
      PROVE  RunTypes'
  BY <1>15 DEF RunReady
<1>16. ASSUME Serve
      PROVE  RunTypes'
  BY <1>16 DEF Serve
<1>17. ASSUME AcceptFails
      PROVE  RunTypes'
  BY <1>17 DEF AcceptFails
<1>18. ASSUME Watch
      PROVE  RunTypes'
  BY <1>18 DEF Watch
<1>19. ASSUME Signal
      PROVE  RunTypes'
  BY <1>19 DEF Signal
<1>20. ASSUME NEW c \in Callers, CallShutdown(c)
      PROVE  RunTypes'
  BY <1>20 DEF CallShutdown
<1>21. ASSUME NEW g \in Goroutines, Enter(g)
      PROVE  RunTypes'
  BY <1>21 DEF Enter, InShutdown
<1>22. ASSUME NEW g \in Goroutines, Leave(g)
      PROVE  RunTypes'
  BY <1>22 DEF Leave, InShutdown
<1>23. ASSUME StopHTTPServer
      PROVE  RunTypes'
  BY <1>23 DEF StopHTTPServer, Stage
<1>24. ASSUME Drain
      PROVE  RunTypes'
  BY <1>24 DEF Drain, Stage
<1>25. ASSUME StopScheduler
      PROVE  RunTypes'
  BY <1>25 DEF StopScheduler, Stage
<1>26. ASSUME StopPool
      PROVE  RunTypes'
  BY <1>26 DEF StopPool, Stage
<1>27. ASSUME RunShutdownHooks
      PROVE  RunTypes'
  BY <1>27 DEF RunShutdownHooks, Stage
<1>28. ASSUME CloseResources
      PROVE  RunTypes'
  BY <1>28 DEF CloseResources, Stage
<1>29. ASSUME NEW q \in Requests, Arrive(q)
      PROVE  RunTypes'
  BY <1>29 DEF Arrive
<1>30. ASSUME NEW q \in Requests, Answer(q)
      PROVE  RunTypes'
  BY <1>30 DEF Answer
<1>31. ASSUME StartJob
      PROVE  RunTypes'
  BY <1>31 DEF StartJob
<1>32. ASSUME EndJob
      PROVE  RunTypes'
  BY <1>32 DEF EndJob
<1>33. ASSUME Publish
      PROVE  RunTypes'
  BY <1>33 DEF Publish
<1>34. ASSUME EndTask
      PROVE  RunTypes'
  BY <1>34 DEF EndTask
<1>35. ASSUME UNCHANGED vars
      PROVE  RunTypes'
  BY <1>35
<1> QED
  BY <1>1, <1>2, <1>3, <1>4, <1>5, <1>6, <1>7, <1>8, <1>9, <1>10, <1>11, <1>12, <1>13, <1>14, <1>15, <1>16,
     <1>17, <1>18, <1>19, <1>20, <1>21, <1>22, <1>23, <1>24, <1>25, <1>26, <1>27, <1>28,
     <1>29, <1>30, <1>31, <1>32, <1>33, <1>34, <1>35
     DEF Next, Bootstrap, Shutdown

\* A hook that is run is the next one, and is run when hooks are due.
LEMMA PrefixStep ==
  ASSUME ApplicationInv, [Next]_vars
  PROVE  Prefix'
<1> USE DEF ApplicationInv, Prefix, Kinds, vars, boot, run, stop, work
<1>1. ASSUME LoadConfiguration
      PROVE  Prefix'
  BY <1>1 DEF LoadConfiguration, Abort, Continue
<1>2. ASSUME InitTelemetry
      PROVE  Prefix'
  BY <1>2 DEF InitTelemetry, Continue
<1>3. ASSUME ConnectPrimary
      PROVE  Prefix'
  BY <1>3 DEF ConnectPrimary, ConnectFails, Abort, Continue
<1>4. ASSUME PrepareSchema
      PROVE  Prefix'
  BY <1>4 DEF PrepareSchema, Abort, Continue
<1>5. ASSUME InitEventBus
      PROVE  Prefix'
  BY <1>5 DEF InitEventBus, Continue
<1>6. ASSUME NEW d \in DataSources, InitSingleDataSource(d)
      PROVE  Prefix'
  <2>1. UNCHANGED <<done, hooksDue>>
    BY <1>6 DEF InitSingleDataSource, ConnectFails, Abort, Continue, Cleanup
  <2> QED
    BY <2>1
<1>7. ASSUME InitAdditionalDataSources
      PROVE  Prefix'
  BY <1>7 DEF InitAdditionalDataSources, Continue
<1>8. ASSUME InitializeAllBeans
      PROVE  Prefix'
  <2>1. done' = done /\ (hooksDue => hooksDue')
    BY <1>8 DEF InitializeAllBeans, Abort, Continue
  <2> QED
    BY <2>1
<1>9. ASSUME RunInitializers
      PROVE  Prefix'
  BY <1>9, RunHookEffect DEF RunInitializers, Continue
<1>10. ASSUME RunStartupTasks
      PROVE  Prefix'
  BY <1>10 DEF RunStartupTasks, Abort, Continue
<1>11. ASSUME ExecuteCleanups
      PROVE  Prefix'
  <2>1. CASE UNCHANGED done
    BY <1>11, <2>1 DEF ExecuteCleanups
  <2>2. CASE done' # done
    <3>1. /\ pc = "cleanup" /\ cleanups # << >> /\ cleanups[Len(cleanups)] = "hooks"
          /\ RunHook("shutdown") /\ UNCHANGED hooksDue
      BY <1>11, <2>2 DEF ExecuteCleanups, boot
    <3>2. Len(cleanups) \in Nat \ {0}
      BY <3>1, EmptySeq DEF BootTypes
    <3>3. Registered("hooks")
      BY <3>1, <3>2 DEF Registered
    <3>4. hooksDue
      BY <3>1, <3>3 DEF Booting, BootPcs
    <3> QED
      BY <3>1, <3>4, RunHookEffect
  <2> QED
    BY <2>1, <2>2
<1>12. ASSUME StartBackgroundJobs
      PROVE  Prefix'
  BY <1>12 DEF StartBackgroundJobs
<1>13. ASSUME RunCommandLineRunners
      PROVE  Prefix'
  BY <1>13, RunHookEffect DEF RunCommandLineRunners
<1>14. ASSUME BuildServer
      PROVE  Prefix'
  BY <1>14 DEF BuildServer
<1>15. ASSUME RunReady
      PROVE  Prefix'
  BY <1>15, RunHookEffect DEF RunReady
<1>16. ASSUME Serve
      PROVE  Prefix'
  BY <1>16 DEF Serve
<1>17. ASSUME AcceptFails
      PROVE  Prefix'
  BY <1>17 DEF AcceptFails
<1>18. ASSUME Watch
      PROVE  Prefix'
  BY <1>18 DEF Watch
<1>19. ASSUME Signal
      PROVE  Prefix'
  BY <1>19 DEF Signal
<1>20. ASSUME NEW c \in Callers, CallShutdown(c)
      PROVE  Prefix'
  BY <1>20 DEF CallShutdown
<1>21. ASSUME NEW g \in Goroutines, Enter(g)
      PROVE  Prefix'
  BY <1>21 DEF Enter, InShutdown
<1>22. ASSUME NEW g \in Goroutines, Leave(g)
      PROVE  Prefix'
  BY <1>22 DEF Leave, InShutdown
<1>23. ASSUME StopHTTPServer
      PROVE  Prefix'
  BY <1>23 DEF StopHTTPServer, Stage
<1>24. ASSUME Drain
      PROVE  Prefix'
  BY <1>24 DEF Drain, Stage
<1>25. ASSUME StopScheduler
      PROVE  Prefix'
  BY <1>25 DEF StopScheduler, Stage
<1>26. ASSUME StopPool
      PROVE  Prefix'
  BY <1>26 DEF StopPool, Stage
<1>27. ASSUME RunShutdownHooks
      PROVE  Prefix'
  <2>1. CASE UNCHANGED done
    BY <1>27, <2>1 DEF RunShutdownHooks, Stage
  <2>2. CASE RunHook("shutdown") /\ UNCHANGED hooksDue
    <3>1. stage = "hooks"
      BY <1>27 DEF RunShutdownHooks, Stage
    <3>2. hooksDue
      BY <3>1 DEF Entered, Stopped, BootPcs, Late
    <3> QED
      BY <2>2, <3>2, RunHookEffect
  <2> QED
    BY <1>27, <2>1, <2>2 DEF RunShutdownHooks, Stage
<1>28. ASSUME CloseResources
      PROVE  Prefix'
  BY <1>28 DEF CloseResources, Stage
<1>29. ASSUME NEW q \in Requests, Arrive(q)
      PROVE  Prefix'
  BY <1>29 DEF Arrive
<1>30. ASSUME NEW q \in Requests, Answer(q)
      PROVE  Prefix'
  BY <1>30 DEF Answer
<1>31. ASSUME StartJob
      PROVE  Prefix'
  BY <1>31 DEF StartJob
<1>32. ASSUME EndJob
      PROVE  Prefix'
  BY <1>32 DEF EndJob
<1>33. ASSUME Publish
      PROVE  Prefix'
  BY <1>33 DEF Publish
<1>34. ASSUME EndTask
      PROVE  Prefix'
  BY <1>34 DEF EndTask
<1>35. ASSUME UNCHANGED vars
      PROVE  Prefix'
  BY <1>35
<1> QED
  BY <1>1, <1>2, <1>3, <1>4, <1>5, <1>6, <1>7, <1>8, <1>9, <1>10, <1>11, <1>12, <1>13, <1>14, <1>15, <1>16,
     <1>17, <1>18, <1>19, <1>20, <1>21, <1>22, <1>23, <1>24, <1>25, <1>26, <1>27, <1>28,
     <1>29, <1>30, <1>31, <1>32, <1>33, <1>34, <1>35
     DEF Next, Bootstrap, Shutdown

\* The pool takes tasks while it is open, and is closed when it has none.
LEMMA PooledStep ==
  ASSUME ApplicationInv, [Next]_vars
  PROVE  Pooled'
<1> USE ApplicationAssumption DEF ApplicationInv, Pooled, BootTypes, RunTypes, Resources,
           Optional,
           vars, boot, run, stop, work
<1>1. ASSUME LoadConfiguration
      PROVE  Pooled'
  BY <1>1 DEF LoadConfiguration, Abort, Continue
<1>2. ASSUME InitTelemetry
      PROVE  Pooled'
  BY <1>2 DEF InitTelemetry, Continue, Opened
<1>3. ASSUME ConnectPrimary
      PROVE  Pooled'
  BY <1>3 DEF ConnectPrimary, ConnectFails, Abort, Continue, Opened
<1>4. ASSUME PrepareSchema
      PROVE  Pooled'
  BY <1>4 DEF PrepareSchema, Abort, Continue
<1>5. ASSUME InitEventBus
      PROVE  Pooled'
  BY <1>5 DEF InitEventBus, Continue, Opened
<1>6. ASSUME NEW d \in DataSources, InitSingleDataSource(d)
      PROVE  Pooled'
  BY <1>6 DEF InitSingleDataSource, ConnectFails, Abort, Continue, Opened
<1>7. ASSUME InitAdditionalDataSources
      PROVE  Pooled'
  BY <1>7 DEF InitAdditionalDataSources, Continue
<1>8. ASSUME InitializeAllBeans
      PROVE  Pooled'
  BY <1>8 DEF InitializeAllBeans, Continue, Abort
<1>9. ASSUME RunInitializers
      PROVE  Pooled'
  BY <1>9 DEF RunInitializers, Continue
<1>10. ASSUME RunStartupTasks
      PROVE  Pooled'
  BY <1>10 DEF RunStartupTasks, Abort, Continue
<1>11. ASSUME ExecuteCleanups
      PROVE  Pooled'
  BY <1>11 DEF ExecuteCleanups, Closed
<1>12. ASSUME StartBackgroundJobs
      PROVE  Pooled'
  BY <1>12 DEF StartBackgroundJobs, Opened
<1>13. ASSUME RunCommandLineRunners
      PROVE  Pooled'
  BY <1>13 DEF RunCommandLineRunners
<1>14. ASSUME BuildServer
      PROVE  Pooled'
  BY <1>14 DEF BuildServer, Opened
<1>15. ASSUME RunReady
      PROVE  Pooled'
  BY <1>15 DEF RunReady
<1>16. ASSUME Serve
      PROVE  Pooled'
  BY <1>16 DEF Serve, Closed
<1>17. ASSUME AcceptFails
      PROVE  Pooled'
  BY <1>17 DEF AcceptFails, Closed
<1>18. ASSUME Watch
      PROVE  Pooled'
  BY <1>18 DEF Watch
<1>19. ASSUME Signal
      PROVE  Pooled'
  BY <1>19 DEF Signal
<1>20. ASSUME NEW c \in Callers, CallShutdown(c)
      PROVE  Pooled'
  BY <1>20 DEF CallShutdown
<1>21. ASSUME NEW g \in Goroutines, Enter(g)
      PROVE  Pooled'
  BY <1>21 DEF Enter, InShutdown
<1>22. ASSUME NEW g \in Goroutines, Leave(g)
      PROVE  Pooled'
  BY <1>22 DEF Leave, InShutdown
<1>23. ASSUME StopHTTPServer
      PROVE  Pooled'
  BY <1>23 DEF StopHTTPServer, Stage, Closed
<1>24. ASSUME Drain
      PROVE  Pooled'
  BY <1>24 DEF Drain, Stage
<1>25. ASSUME StopScheduler
      PROVE  Pooled'
  BY <1>25 DEF StopScheduler, Stage, Closed
<1>26. ASSUME StopPool
      PROVE  Pooled'
  BY <1>26 DEF StopPool, Stage, Closed
<1>27. ASSUME RunShutdownHooks
      PROVE  Pooled'
  BY <1>27 DEF RunShutdownHooks, Stage
<1>28. ASSUME CloseResources
      PROVE  Pooled'
  <2>1. CASE Stage("telemetry", "beans") /\ Closed({"telemetry"})
    BY <1>28, <2>1 DEF CloseResources, Stage, Closed
  <2>2. CASE Stage("beans", "db") /\ Closed(DataSources \cup Closers)
    BY <1>28, <2>2 DEF CloseResources, Stage, Closed
  <2>3. CASE Stage("db", "done") /\ Closed({"db"})
    BY <1>28, <2>3 DEF CloseResources, Stage, Closed
  <2> QED
    BY <1>28, <2>1, <2>2, <2>3 DEF CloseResources
<1>29. ASSUME NEW q \in Requests, Arrive(q)
      PROVE  Pooled'
  BY <1>29 DEF Arrive
<1>30. ASSUME NEW q \in Requests, Answer(q)
      PROVE  Pooled'
  BY <1>30 DEF Answer
<1>31. ASSUME StartJob
      PROVE  Pooled'
  BY <1>31 DEF StartJob
<1>32. ASSUME EndJob
      PROVE  Pooled'
  BY <1>32 DEF EndJob
<1>33. ASSUME Publish
      PROVE  Pooled'
  BY <1>33 DEF Publish
<1>34. ASSUME EndTask
      PROVE  Pooled'
  BY <1>34 DEF EndTask
<1>35. ASSUME UNCHANGED vars
      PROVE  Pooled'
  BY <1>35
<1> QED
  BY <1>1, <1>2, <1>3, <1>4, <1>5, <1>6, <1>7, <1>8, <1>9, <1>10, <1>11, <1>12, <1>13, <1>14, <1>15, <1>16,
     <1>17, <1>18, <1>19, <1>20, <1>21, <1>22, <1>23, <1>24, <1>25, <1>26, <1>27, <1>28,
     <1>29, <1>30, <1>31, <1>32, <1>33, <1>34, <1>35
     DEF Next, Bootstrap, Shutdown

\* Nobody is in Shutdown before Run serves, and doShutdown is entered once.
LEMMA EnteredStep ==
  ASSUME ApplicationInv, [Next]_vars
  PROVE  Entered'
<1> USE ApplicationAssumption DEF ApplicationInv, Entered, RunTypes, Late, Goroutines,
           vars, boot, run, stop, work
<1>1. ASSUME LoadConfiguration
      PROVE  Entered'
  BY <1>1 DEF LoadConfiguration, Abort, Continue
<1>2. ASSUME InitTelemetry
      PROVE  Entered'
  BY <1>2 DEF InitTelemetry, Continue
<1>3. ASSUME ConnectPrimary
      PROVE  Entered'
  BY <1>3 DEF ConnectPrimary, ConnectFails, Abort, Continue
<1>4. ASSUME PrepareSchema
      PROVE  Entered'
  BY <1>4 DEF PrepareSchema, Abort, Continue
<1>5. ASSUME InitEventBus
      PROVE  Entered'
  BY <1>5 DEF InitEventBus, Continue
<1>6. ASSUME NEW d \in DataSources, InitSingleDataSource(d)
      PROVE  Entered'
  BY <1>6 DEF InitSingleDataSource, ConnectFails, Abort, Continue
<1>7. ASSUME InitAdditionalDataSources
      PROVE  Entered'
  BY <1>7 DEF InitAdditionalDataSources, Continue
<1>8. ASSUME InitializeAllBeans
      PROVE  Entered'
  BY <1>8 DEF InitializeAllBeans, Continue, Abort
<1>9. ASSUME RunInitializers
      PROVE  Entered'
  BY <1>9 DEF RunInitializers, Continue
<1>10. ASSUME RunStartupTasks
      PROVE  Entered'
  BY <1>10 DEF RunStartupTasks, Abort, Continue
<1>11. ASSUME ExecuteCleanups
      PROVE  Entered'
  BY <1>11 DEF ExecuteCleanups
<1>12. ASSUME StartBackgroundJobs
      PROVE  Entered'
  BY <1>12 DEF StartBackgroundJobs
<1>13. ASSUME RunCommandLineRunners
      PROVE  Entered'
  BY <1>13 DEF RunCommandLineRunners
<1>14. ASSUME BuildServer
      PROVE  Entered'
  BY <1>14 DEF BuildServer
<1>15. ASSUME RunReady
      PROVE  Entered'
  BY <1>15 DEF RunReady
<1>16. ASSUME Serve
      PROVE  Entered'
  BY <1>16 DEF Serve
<1>17. ASSUME AcceptFails
      PROVE  Entered'
  BY <1>17 DEF AcceptFails
<1>18. ASSUME Watch
      PROVE  Entered'
  BY <1>18 DEF Watch
<1>19. ASSUME Signal
      PROVE  Entered'
  BY <1>19 DEF Signal
<1>20. ASSUME NEW c \in Callers, CallShutdown(c)
      PROVE  Entered'
  BY <1>20 DEF CallShutdown
<1>21. ASSUME NEW g \in Goroutines, Enter(g)
      PROVE  Entered'
  BY <1>21 DEF Enter, InShutdown
<1>22. ASSUME NEW g \in Goroutines, Leave(g)
      PROVE  Entered'
  BY <1>22 DEF Leave, InShutdown
<1>23. ASSUME StopHTTPServer
      PROVE  Entered'
  BY <1>23 DEF StopHTTPServer, Stage
<1>24. ASSUME Drain
      PROVE  Entered'
  BY <1>24 DEF Drain, Stage
<1>25. ASSUME StopScheduler
      PROVE  Entered'
  BY <1>25 DEF StopScheduler, Stage
<1>26. ASSUME StopPool
      PROVE  Entered'
  BY <1>26 DEF StopPool, Stage
<1>27. ASSUME RunShutdownHooks
      PROVE  Entered'
  BY <1>27 DEF RunShutdownHooks, Stage
<1>28. ASSUME CloseResources
      PROVE  Entered'
  BY <1>28 DEF CloseResources, Stage
<1>29. ASSUME NEW q \in Requests, Arrive(q)
      PROVE  Entered'
  BY <1>29 DEF Arrive
<1>30. ASSUME NEW q \in Requests, Answer(q)
      PROVE  Entered'
  BY <1>30 DEF Answer
<1>31. ASSUME StartJob
      PROVE  Entered'
  BY <1>31 DEF StartJob
<1>32. ASSUME EndJob
      PROVE  Entered'
  BY <1>32 DEF EndJob
<1>33. ASSUME Publish
      PROVE  Entered'
  BY <1>33 DEF Publish
<1>34. ASSUME EndTask
      PROVE  Entered'
  BY <1>34 DEF EndTask
<1>35. ASSUME UNCHANGED vars
      PROVE  Entered'
  BY <1>35
<1> QED
  BY <1>1, <1>2, <1>3, <1>4, <1>5, <1>6, <1>7, <1>8, <1>9, <1>10, <1>11, <1>12, <1>13, <1>14, <1>15, <1>16,
     <1>17, <1>18, <1>19, <1>20, <1>21, <1>22, <1>23, <1>24, <1>25, <1>26, <1>27, <1>28,
     <1>29, <1>30, <1>31, <1>32, <1>33, <1>34, <1>35
     DEF Next, Bootstrap, Shutdown

\* Whatever the bootstrap opens it adds a cleanup for, and a cleanup that is
\* taken off has closed it.
LEMMA BootingStep ==
  ASSUME ApplicationInv, [Next]_vars
  PROVE  Booting'
<1> USE ApplicationAssumption DEF ApplicationInv, Booting, BootTypes, RunTypes, BootPcs,
           Starting, Late, Entered,
           Resources, Optional, Cleanups, vars, boot, run, stop, work
<1>1. ASSUME LoadConfiguration
      PROVE  Booting'
  BY <1>1
  DEF LoadConfiguration, Abort, Continue, Layered, Covered, Lowest, Registered, Finished
<1>2. ASSUME InitTelemetry
      PROVE  Booting'
  <2>1. CASE "telemetry" \in enabled
    <3>1. /\ Opened("telemetry") /\ Cleanup("telemetry")
          /\ pc = "telemetry" /\ pc' \in {"connect", "datasources"}
          /\ UNCHANGED <<lost, hooksDue, done, running>>
      BY <1>2, <2>1 DEF InitTelemetry, Continue
    <3>2. /\ \A q \in Resources \ {"telemetry"} : resource'[q] = resource[q]
          /\ \A q : Registered(q)' <=> q = "telemetry" \/ Registered(q)
      BY <3>1, OpenedEffect, CleanupEffect
    <3>3. Layered' /\ Covered'
      BY <3>1, LayeredStays, CoveredStays
    <3>4. Lowest'
      BY <3>1, CleanupEffect DEF Lowest
    <3> QED
      BY <3>1, <3>2, <3>3, <3>4 DEF Finished
  <2>2. CASE "telemetry" \notin enabled
    BY <1>2, <2>2
    DEF InitTelemetry, Continue, Layered, Covered, Lowest, Registered, Finished
  <2> QED
    BY <2>1, <2>2
<1>3. ASSUME ConnectPrimary
      PROVE  Booting'
  <2>1. CASE ConnectFails("db")
    <3>1. /\ pc = "connect" /\ pc' = "cleanup" /\ lost \subseteq lost'
          /\ UNCHANGED <<cleanups, hooksDue, done, running>>
      BY <1>3, <2>1 DEF ConnectPrimary, ConnectFails, Abort
    <3>2. \/ Opened("db") /\ lost' = lost \cup {"db"}
          \/ UNCHANGED resource
      BY <2>1 DEF ConnectFails
    <3>3. /\ \A q \in Resources \ {"db"} : resource'[q] = resource[q]
          /\ resource'["db"] # "closed"
          /\ resource'["db"] = "open" => resource["db"] = "open" \/ "db" \in lost'
      BY <3>1, <3>2, OpenedEffect
    <3>4. Covered' /\ Layered'
      BY <3>1, <3>3 DEF Covered, Layered, Registered
    <3> QED
      BY <3>1, <3>3, <3>4 DEF Finished, Registered
  <2>2. CASE ~ConnectFails("db")
    <3>1. /\ Opened("db") /\ Cleanup("db")
          /\ pc = "connect" /\ pc' = "schema"
          /\ UNCHANGED <<lost, hooksDue, done, running>>
      BY <1>3, <2>2 DEF ConnectPrimary, Continue
    <3>2. /\ \A q \in Resources \ {"db"} : resource'[q] = resource[q]
          /\ resource'["db"] = "open"
          /\ \A q : Registered(q)' <=> q = "db" \/ Registered(q)
      BY <3>1, OpenedEffect, CleanupEffect
    <3>3. Layered' /\ Covered'
      BY <3>1, LayeredStays, CoveredStays
    <3> QED
      BY <3>1, <3>2, <3>3 DEF Finished
  <2> QED
    BY <2>1, <2>2
<1>4. ASSUME PrepareSchema
      PROVE  Booting'
  BY <1>4 DEF PrepareSchema, Abort, Continue, Layered, Covered, Lowest, Registered, Finished
<1>5. ASSUME InitEventBus
      PROVE  Booting'
  <2>1. CASE "pool" \in enabled
    <3>1. /\ Opened("pool") /\ Cleanup("pool")
          /\ pc = "eventBus" /\ pc' = "datasources"
          /\ UNCHANGED <<lost, hooksDue, done, running>>
      BY <1>5, <2>1 DEF InitEventBus, Continue
    <3>2. /\ \A q \in Resources \ {"pool"} : resource'[q] = resource[q]
          /\ \A q : Registered(q)' <=> q = "pool" \/ Registered(q)
      BY <3>1, OpenedEffect, CleanupEffect
    <3>3. Layered' /\ Covered'
      BY <3>1, LayeredStays, CoveredStays
    <3> QED
      BY <3>1, <3>2, <3>3 DEF Finished
  <2>2. CASE "pool" \notin enabled
    BY <1>5, <2>2 DEF InitEventBus, Continue, Layered, Covered, Lowest, Registered, Finished
  <2> QED
    BY <2>1, <2>2
<1>6. ASSUME NEW d \in DataSources, InitSingleDataSource(d)
      PROVE  Booting'
  <2> d \in Resources /\ d \in Cleanups /\ d \notin Optional \cup {"listener", "hooks"}
    OBVIOUS
  <2>1. CASE ConnectFails(d)
    <3>1. /\ pc = "datasources" /\ pc' = "cleanup" /\ lost \subseteq lost'
          /\ UNCHANGED <<cleanups, hooksDue, done, running>>
      BY <1>6, <2>1 DEF InitSingleDataSource, ConnectFails, Abort
    <3>2. \/ Opened(d) /\ lost' = lost \cup {d}
          \/ UNCHANGED resource
      BY <2>1 DEF ConnectFails
    <3>3. /\ \A q \in Resources \ {d} : resource'[q] = resource[q]
          /\ resource'[d] = "open" => resource[d] = "open" \/ d \in lost'
      BY <3>1, <3>2, OpenedEffect
    <3>4. Covered' /\ Layered'
      BY <3>1, <3>3 DEF Covered, Layered, Registered
    <3> QED
      BY <3>1, <3>3, <3>4 DEF Finished, Registered
  <2>2. CASE ~ConnectFails(d)
    <3>1. /\ Opened(d) /\ Cleanup(d)
          /\ pc = "datasources" /\ pc' \in {"datasources", "cleanup"}
          /\ UNCHANGED <<lost, hooksDue, done, running>>
      BY <1>6, <2>2 DEF InitSingleDataSource, Continue, Abort
    <3>2. /\ \A q \in Resources \ {d} : resource'[q] = resource[q]
          /\ \A q : Registered(q)' <=> q = d \/ Registered(q)
      BY <3>1, OpenedEffect, CleanupEffect
    <3>3. Layered' /\ Covered'
      BY <3>1, LayeredStays, CoveredStays
    <3> QED
      BY <3>1, <3>2, <3>3 DEF Finished
  <2> QED
    BY <2>1, <2>2
<1>7. ASSUME InitAdditionalDataSources
      PROVE  Booting'
  BY <1>7
  DEF InitAdditionalDataSources, Continue, Layered, Covered, Lowest, Registered, Finished
<1>8. ASSUME InitializeAllBeans
      PROVE  Booting'
  <2>1. /\ pc = "beans" /\ pc' \in {"initializers", "cleanup"}
        /\ UNCHANGED <<lost, done, running>>
        /\ \A q \in Resources \ Closers : resource'[q] = resource[q]
    BY <1>8 DEF InitializeAllBeans, Continue, Abort
  <2>2. CASE Cleanup("hooks") /\ hooksDue' = TRUE
    <3>1. \A q : Registered(q)' <=> q = "hooks" \/ Registered(q)
      BY <2>2, CleanupEffect
    <3>2. Layered'
      BY <2>1, <2>2, LayeredStays
    <3>3. Covered'
      BY <2>1, <3>1 DEF Covered
    <3> QED
      BY <2>1, <2>2, <3>1, <3>2, <3>3 DEF Finished
  <2>3. CASE UNCHANGED <<cleanups, hooksDue>> /\ pc' = "cleanup"
    <3>1. Layered'
      BY <2>1, <2>3 DEF Layered
    <3>2. Covered'
      BY <2>1, <2>3 DEF Covered, Registered
    <3> QED
      BY <2>1, <2>3, <3>1, <3>2 DEF Finished, Registered
  <2> QED
    BY <1>8, <2>2, <2>3 DEF InitializeAllBeans, Continue, Abort
<1>9. ASSUME RunInitializers
      PROVE  Booting'
  <2>1. /\ pc = "initializers" /\ pc' \in {"initializers", "startupTasks", "cleanup"}
        /\ UNCHANGED <<boot, resource, running>>
        /\ UNCHANGED done \/ RunHook("initializer")
    BY <1>9 DEF RunInitializers, Continue
  <2>2. done'["shutdown"] = done["shutdown"]
    BY <2>1, RunHookEffect DEF Kinds
  <2>3. Layered' /\ Covered'
    BY <2>1 DEF Layered, Covered, Registered
  <2> QED
    BY <2>1, <2>2, <2>3 DEF Finished, Registered
<1>10. ASSUME RunStartupTasks
      PROVE  Booting'
  BY <1>10
  DEF RunStartupTasks, Abort, Continue, Layered, Covered, Lowest, Registered, Finished
<1>11. ASSUME ExecuteCleanups
      PROVE  Booting'
  <2> DEFINE r == cleanups[Len(cleanups)]
  <2>1. pc = "cleanup" /\ UNCHANGED <<lost, hooksDue, running>>
    BY <1>11 DEF ExecuteCleanups
  <2>2. CASE cleanups = << >> /\ pc' = "exited" /\ UNCHANGED <<boot, resource, done>>
    BY <2>1, <2>2 DEF Layered, Covered, Registered, Finished
  <2>3. CASE /\ pc' = pc /\ RunHook("shutdown") /\ UNCHANGED <<boot, resource>>
             /\ cleanups # << >> /\ r = "hooks"
    <3>1. Registered("hooks")'
      BY <2>3, PopEffect, EmptySeq DEF Registered
    <3>2. Layered' /\ Covered'
      BY <2>1, <2>3 DEF Layered, Covered, Registered
    <3> QED
      BY <2>1, <2>3, <3>1, <3>2 DEF Registered
  <2>4. CASE /\ pc' = pc /\ cleanups # << >> /\ UNCHANGED done
             /\ cleanups' = SubSeq(cleanups, 1, Len(cleanups) - 1)
             /\ \/ r = "hooks" /\ Finished("shutdown") /\ UNCHANGED resource
                \/ r # "hooks" /\ Closed({r})
    <3>1. /\ Layered' /\ Covered'
          /\ r = "db" => ~Registered("pool")' /\ ~Registered("hooks")'
      BY <2>1, <2>4, PopStays
    <3>2. /\ \A q : Registered(q)' => Registered(q)
          /\ \A q : Registered(q) => q = r \/ Registered(q)'
      BY <2>4, PopEffect
    <3>3. \A q \in Resources : q # r => resource'[q] = resource[q]
      BY <2>4, ClosedEffect
    <3>4. resource'["scheduler"] = "new"
      BY <2>1, <2>4, ClosedEffect
    <3> QED
      BY <2>1, <2>4, <3>1, <3>2, <3>3, <3>4 DEF Finished
  <2> QED
    BY <1>11, <2>2, <2>3, <2>4 DEF ExecuteCleanups
<1>12. ASSUME StartBackgroundJobs
      PROVE  Booting'
  BY <1>12 DEF StartBackgroundJobs, Opened, Layered, Covered, Lowest, Registered, Finished
<1>13. ASSUME RunCommandLineRunners
      PROVE  Booting'
  BY <1>13 DEF RunCommandLineRunners, Layered, Covered, Lowest, Registered, Finished
<1>14. ASSUME BuildServer
      PROVE  Booting'
  BY <1>14 DEF BuildServer, Opened, Layered, Covered, Lowest, Registered, Finished
<1>15. ASSUME RunReady
      PROVE  Booting'
  BY <1>15 DEF RunReady, Layered, Covered, Lowest, Registered, Finished
<1>16. ASSUME Serve
      PROVE  Booting'
  BY <1>16 DEF Serve, Closed, Layered, Covered, Lowest, Registered, Finished
<1>17. ASSUME AcceptFails
      PROVE  Booting'
  BY <1>17 DEF AcceptFails, Closed, Layered, Covered, Lowest, Registered, Finished
<1>18. ASSUME Watch
      PROVE  Booting'
  BY <1>18 DEF Watch, Layered, Covered, Lowest, Registered, Finished
<1>19. ASSUME Signal
      PROVE  Booting'
  BY <1>19 DEF Signal, Layered, Covered, Lowest, Registered, Finished
<1>20. ASSUME NEW c \in Callers, CallShutdown(c)
      PROVE  Booting'
  BY <1>20 DEF CallShutdown, Layered, Covered, Lowest, Registered, Finished
<1>21. ASSUME NEW g \in Goroutines, Enter(g)
      PROVE  Booting'
  BY <1>21 DEF Enter, InShutdown, Layered, Covered, Lowest, Registered, Finished
<1>22. ASSUME NEW g \in Goroutines, Leave(g)
      PROVE  Booting'
  BY <1>22 DEF Leave, InShutdown, Layered, Covered, Lowest, Registered, Finished
<1>23. ASSUME StopHTTPServer
      PROVE  Booting'
  BY <1>23 DEF StopHTTPServer, Stage, Closed, Layered, Covered, Lowest, Registered, Finished
<1>24. ASSUME Drain
      PROVE  Booting'
  BY <1>24 DEF Drain, Stage, Layered, Covered, Lowest, Registered, Finished
<1>25. ASSUME StopScheduler
      PROVE  Booting'
  BY <1>25 DEF StopScheduler, Stage, Closed, Layered, Covered, Lowest, Registered, Finished
<1>26. ASSUME StopPool
      PROVE  Booting'
  BY <1>26 DEF StopPool, Stage, Closed, Layered, Covered, Lowest, Registered, Finished
<1>27. ASSUME RunShutdownHooks
      PROVE  Booting'
  BY <1>27 DEF RunShutdownHooks, Stage, Layered, Covered, Lowest, Registered, Finished
<1>28. ASSUME CloseResources
      PROVE  Booting'
  BY <1>28 DEF CloseResources, Stage, Closed, Layered, Covered, Lowest, Registered, Finished
<1>29. ASSUME NEW q \in Requests, Arrive(q)
      PROVE  Booting'
  BY <1>29 DEF Arrive, Layered, Covered, Lowest, Registered, Finished
<1>30. ASSUME NEW q \in Requests, Answer(q)
      PROVE  Booting'
  BY <1>30 DEF Answer, Layered, Covered, Lowest, Registered, Finished
<1>31. ASSUME StartJob
      PROVE  Booting'
  BY <1>31 DEF StartJob, Layered, Covered, Lowest, Registered, Finished
<1>32. ASSUME EndJob
      PROVE  Booting'
  BY <1>32 DEF EndJob, Layered, Covered, Lowest, Registered, Finished
<1>33. ASSUME Publish
      PROVE  Booting'
  BY <1>33 DEF Publish, Layered, Covered, Lowest, Registered, Finished
<1>34. ASSUME EndTask
      PROVE  Booting'
  BY <1>34 DEF EndTask, Layered, Covered, Lowest, Registered, Finished
<1>35. ASSUME UNCHANGED vars
      PROVE  Booting'
  BY <1>35 DEF Layered, Covered, Lowest, Registered, Finished
<1> QED
  BY <1>1, <1>2, <1>3, <1>4, <1>5, <1>6, <1>7, <1>8, <1>9, <1>10, <1>11, <1>12, <1>13, <1>14, <1>15, <1>16,
     <1>17, <1>18, <1>19, <1>20, <1>21, <1>22, <1>23, <1>24, <1>25, <1>26, <1>27, <1>28,
     <1>29, <1>30, <1>31, <1>32, <1>33, <1>34, <1>35
     DEF Next, Bootstrap, Shutdown

\* A stage closes its resource, and nothing opens it again.
LEMMA StoppedStep ==
  ASSUME ApplicationInv, [Next]_vars
  PROVE  Stopped'
<1> USE ApplicationAssumption DEF ApplicationInv, Stopped, BootTypes, RunTypes, Entered,
           Booting, Finished, BootPcs, Late, Starting,
           Resources, Optional, AfterHTTP, AfterDrain, AfterScheduler, AfterPool, AfterHooks,
           AfterTelemetry, AfterBeans, Stages, vars, boot, run, stop, work
<1>1. ASSUME LoadConfiguration
      PROVE  Stopped'
  BY <1>1 DEF LoadConfiguration, Abort, Continue
<1>2. ASSUME InitTelemetry
      PROVE  Stopped'
  BY <1>2 DEF InitTelemetry, Continue, Opened
<1>3. ASSUME ConnectPrimary
      PROVE  Stopped'
  BY <1>3 DEF ConnectPrimary, ConnectFails, Abort, Continue, Opened
<1>4. ASSUME PrepareSchema
      PROVE  Stopped'
  BY <1>4 DEF PrepareSchema, Abort, Continue
<1>5. ASSUME InitEventBus
      PROVE  Stopped'
  BY <1>5 DEF InitEventBus, Continue, Opened
<1>6. ASSUME NEW d \in DataSources, InitSingleDataSource(d)
      PROVE  Stopped'
  BY <1>6 DEF InitSingleDataSource, ConnectFails, Abort, Continue, Opened
<1>7. ASSUME InitAdditionalDataSources
      PROVE  Stopped'
  BY <1>7 DEF InitAdditionalDataSources, Continue
<1>8. ASSUME InitializeAllBeans
      PROVE  Stopped'
  BY <1>8 DEF InitializeAllBeans, Continue, Abort
<1>9. ASSUME RunInitializers
      PROVE  Stopped'
  BY <1>9, RunHookEffect DEF RunInitializers, Continue
<1>10. ASSUME RunStartupTasks
      PROVE  Stopped'
  <2>1. hooksDue /\ stage = "new" /\ resource["db"] # "closed"
    BY <1>10 DEF RunStartupTasks
  <2> QED
    BY <1>10, <2>1 DEF RunStartupTasks, Abort, Continue
<1>11. ASSUME ExecuteCleanups
      PROVE  Stopped'
  BY <1>11, RunHookEffect DEF ExecuteCleanups, Closed
<1>12. ASSUME StartBackgroundJobs
      PROVE  Stopped'
  BY <1>12 DEF StartBackgroundJobs, Opened
<1>13. ASSUME RunCommandLineRunners
      PROVE  Stopped'
  BY <1>13, RunHookEffect DEF RunCommandLineRunners
<1>14. ASSUME BuildServer
      PROVE  Stopped'
  BY <1>14 DEF BuildServer, Opened
<1>15. ASSUME RunReady
      PROVE  Stopped'
  BY <1>15, RunHookEffect DEF RunReady
<1>16. ASSUME Serve
      PROVE  Stopped'
  <2>1. CASE pc = "serve" /\ pc' = "serving" /\ UNCHANGED resource
    BY <1>16, <2>1 DEF Serve
  <2>2. CASE pc \in {"serve", "serving"} /\ pc' = "stopping" /\ Closed({"listener"})
    BY <1>16, <2>2 DEF Serve, Closed
  <2> QED
    BY <1>16, <2>1, <2>2 DEF Serve
<1>17. ASSUME AcceptFails
      PROVE  Stopped'
  BY <1>17 DEF AcceptFails, Closed
<1>18. ASSUME Watch
      PROVE  Stopped'
  BY <1>18 DEF Watch
<1>19. ASSUME Signal
      PROVE  Stopped'
  BY <1>19 DEF Signal
<1>20. ASSUME NEW c \in Callers, CallShutdown(c)
      PROVE  Stopped'
  BY <1>20 DEF CallShutdown
<1>21. ASSUME NEW g \in Goroutines, Enter(g)
      PROVE  Stopped'
  BY <1>21 DEF Enter, InShutdown
<1>22. ASSUME NEW g \in Goroutines, Leave(g)
      PROVE  Stopped'
  BY <1>22 DEF Leave, InShutdown
<1>23. ASSUME StopHTTPServer
      PROVE  Stopped'
  BY <1>23 DEF StopHTTPServer, Stage, Closed
<1>24. ASSUME Drain
      PROVE  Stopped'
  BY <1>24 DEF Drain, Stage
<1>25. ASSUME StopScheduler
      PROVE  Stopped'
  BY <1>25 DEF StopScheduler, Stage, Closed
<1>26. ASSUME StopPool
      PROVE  Stopped'
  BY <1>26 DEF StopPool, Stage, Closed
<1>27. ASSUME RunShutdownHooks
      PROVE  Stopped'
  BY <1>27, RunHookEffect DEF RunShutdownHooks, Stage
<1>28. ASSUME CloseResources
      PROVE  Stopped'
  <2>1. CASE Stage("telemetry", "beans") /\ Closed({"telemetry"})
    BY <1>28, <2>1 DEF CloseResources, Stage, Closed
  <2>2. CASE Stage("beans", "db") /\ Closed(DataSources \cup Closers)
    BY <1>28, <2>2 DEF CloseResources, Stage, Closed
  <2>3. CASE Stage("db", "done") /\ Closed({"db"})
    BY <1>28, <2>3 DEF CloseResources, Stage, Closed
  <2> QED
    BY <1>28, <2>1, <2>2, <2>3 DEF CloseResources
<1>29. ASSUME NEW q \in Requests, Arrive(q)
      PROVE  Stopped'
  BY <1>29 DEF Arrive
<1>30. ASSUME NEW q \in Requests, Answer(q)
      PROVE  Stopped'
  BY <1>30 DEF Answer
<1>31. ASSUME StartJob
      PROVE  Stopped'
  BY <1>31 DEF StartJob
<1>32. ASSUME EndJob
      PROVE  Stopped'
  BY <1>32 DEF EndJob
<1>33. ASSUME Publish
      PROVE  Stopped'
  BY <1>33 DEF Publish
<1>34. ASSUME EndTask
      PROVE  Stopped'
  BY <1>34 DEF EndTask
<1>35. ASSUME UNCHANGED vars
      PROVE  Stopped'
  BY <1>35
<1> QED
  BY <1>1, <1>2, <1>3, <1>4, <1>5, <1>6, <1>7, <1>8, <1>9, <1>10, <1>11, <1>12, <1>13, <1>14, <1>15, <1>16,
     <1>17, <1>18, <1>19, <1>20, <1>21, <1>22, <1>23, <1>24, <1>25, <1>26, <1>27, <1>28,
     <1>29, <1>30, <1>31, <1>32, <1>33, <1>34, <1>35
     DEF Next, Bootstrap, Shutdown

\* The server is down behind its stage, and the listener is closed by Serve.
LEMMA ServedStep ==
  ASSUME ApplicationInv, [Next]_vars
  PROVE  Served'
<1> USE ApplicationAssumption DEF ApplicationInv, Served, BootTypes, RunTypes, Entered,
           BootPcs, Late, Resources, Optional,
           AfterHTTP, AfterDrain, AfterScheduler, AfterPool, AfterHooks,
           AfterTelemetry, AfterBeans, Stages, vars, boot, run, stop, work
<1>1. ASSUME LoadConfiguration
      PROVE  Served'
  BY <1>1 DEF LoadConfiguration, Abort, Continue
<1>2. ASSUME InitTelemetry
      PROVE  Served'
  BY <1>2 DEF InitTelemetry, Continue, Opened
<1>3. ASSUME ConnectPrimary
      PROVE  Served'
  BY <1>3 DEF ConnectPrimary, ConnectFails, Abort, Continue, Opened
<1>4. ASSUME PrepareSchema
      PROVE  Served'
  BY <1>4 DEF PrepareSchema, Abort, Continue
<1>5. ASSUME InitEventBus
      PROVE  Served'
  BY <1>5 DEF InitEventBus, Continue, Opened
<1>6. ASSUME NEW d \in DataSources, InitSingleDataSource(d)
      PROVE  Served'
  BY <1>6 DEF InitSingleDataSource, ConnectFails, Abort, Continue, Opened
<1>7. ASSUME InitAdditionalDataSources
      PROVE  Served'
  BY <1>7 DEF InitAdditionalDataSources, Continue
<1>8. ASSUME InitializeAllBeans
      PROVE  Served'
  BY <1>8 DEF InitializeAllBeans, Continue, Abort
<1>9. ASSUME RunInitializers
      PROVE  Served'
  BY <1>9 DEF RunInitializers, Continue
<1>10. ASSUME RunStartupTasks
      PROVE  Served'
  BY <1>10 DEF RunStartupTasks, Abort, Continue
<1>11. ASSUME ExecuteCleanups
      PROVE  Served'
  BY <1>11 DEF ExecuteCleanups, Closed
<1>12. ASSUME StartBackgroundJobs
      PROVE  Served'
  BY <1>12 DEF StartBackgroundJobs, Opened
<1>13. ASSUME RunCommandLineRunners
      PROVE  Served'
  BY <1>13 DEF RunCommandLineRunners
<1>14. ASSUME BuildServer
      PROVE  Served'
  BY <1>14 DEF BuildServer, Opened
<1>15. ASSUME RunReady
      PROVE  Served'
  BY <1>15 DEF RunReady
<1>16. ASSUME Serve
      PROVE  Served'
  BY <1>16 DEF Serve, Closed
<1>17. ASSUME AcceptFails
      PROVE  Served'
  BY <1>17 DEF AcceptFails, Closed
<1>18. ASSUME Watch
      PROVE  Served'
  BY <1>18 DEF Watch
<1>19. ASSUME Signal
      PROVE  Served'
  BY <1>19 DEF Signal
<1>20. ASSUME NEW c \in Callers, CallShutdown(c)
      PROVE  Served'
  BY <1>20 DEF CallShutdown
<1>21. ASSUME NEW g \in Goroutines, Enter(g)
      PROVE  Served'
  BY <1>21 DEF Enter, InShutdown
<1>22. ASSUME NEW g \in Goroutines, Leave(g)
      PROVE  Served'
  BY <1>22 DEF Leave, InShutdown
<1>23. ASSUME StopHTTPServer
      PROVE  Served'
  BY <1>23 DEF StopHTTPServer, Stage, Closed
<1>24. ASSUME Drain
      PROVE  Served'
  BY <1>24 DEF Drain, Stage
<1>25. ASSUME StopScheduler
      PROVE  Served'
  BY <1>25 DEF StopScheduler, Stage, Closed
<1>26. ASSUME StopPool
      PROVE  Served'
  BY <1>26 DEF StopPool, Stage, Closed
<1>27. ASSUME RunShutdownHooks
      PROVE  Served'
  BY <1>27 DEF RunShutdownHooks, Stage
<1>28. ASSUME CloseResources
      PROVE  Served'
  BY <1>28 DEF CloseResources, Stage, Closed
<1>29. ASSUME NEW q \in Requests, Arrive(q)
      PROVE  Served'
  BY <1>29 DEF Arrive
<1>30. ASSUME NEW q \in Requests, Answer(q)
      PROVE  Served'
  BY <1>30 DEF Answer
<1>31. ASSUME StartJob
      PROVE  Served'
  BY <1>31 DEF StartJob
<1>32. ASSUME EndJob
      PROVE  Served'
  BY <1>32 DEF EndJob
<1>33. ASSUME Publish
      PROVE  Served'
  BY <1>33 DEF Publish
<1>34. ASSUME EndTask
      PROVE  Served'
  BY <1>34 DEF EndTask
<1>35. ASSUME UNCHANGED vars
      PROVE  Served'
  BY <1>35
<1> QED
  BY <1>1, <1>2, <1>3, <1>4, <1>5, <1>6, <1>7, <1>8, <1>9, <1>10, <1>11, <1>12, <1>13, <1>14, <1>15, <1>16,
     <1>17, <1>18, <1>19, <1>20, <1>21, <1>22, <1>23, <1>24, <1>25, <1>26, <1>27, <1>28,
     <1>29, <1>30, <1>31, <1>32, <1>33, <1>34, <1>35
     DEF Next, Bootstrap, Shutdown

-----------------------------------------------------------------------------
(* The theorems.                                                           *)

LEMMA ApplicationInit == Init => ApplicationInv
<1> SUFFICES ASSUME Init PROVE ApplicationInv
  OBVIOUS
<1>1. BootTypes /\ RunTypes
  BY EmptySeq DEF Init, BootTypes, RunTypes, Cleanups, BootPcs, Stages
<1>2. Prefix
  <2>1. 0 \in 0..Len(HooksOf("shutdown"))
    BY HooksLength
  <2>2. << >> = [i \in 1..0 |-> HooksOf("shutdown")[i]]
    OBVIOUS
  <2>3. done = [k \in Kinds |-> done[k]] /\ done["shutdown"] = << >>
    BY DEF Init, Kinds
  <2> QED
    BY <2>1, <2>2, <2>3 DEF Prefix
<1>3. Booting
  BY EmptySeq
  DEF Init, Booting, Resources, Optional, BootPcs, Lowest, Layered, Covered, Registered
<1>4. Pooled /\ Entered /\ Stopped /\ Served
  BY DEF Init, Pooled, Entered, Stopped, Served, Resources, BootPcs, Late, AfterHTTP,
     AfterDrain
<1> QED
  BY <1>1, <1>2, <1>3, <1>4 DEF ApplicationInv

\* The invariant, which the two properties rest on.
THEOREM ApplicationInvariant == Spec => []ApplicationInv
<1>1. ApplicationInv /\ [Next]_vars => ApplicationInv'
  BY BootTypesStep, RunTypesStep, PrefixStep, PooledStep, EnteredStep, BootingStep,
     StoppedStep, ServedStep DEF ApplicationInv
<1> QED
  BY <1>1, ApplicationInit, PTL DEF Spec

\* When the primary database is closed, by doShutdown or by the cleanups of
\* BootstrapE, no task, job or hook is still to come, and no request but those
\* the timeout of the drain gave up.
THEOREM DatabaseOutlivesUsersHolds == Spec => []DatabaseOutlivesUsers
<1>1. ASSUME ApplicationInv PROVE DatabaseOutlivesUsers
  <2> SUFFICES ASSUME resource["db"] = "closed"
               PROVE  /\ tasks = 0 /\ ~running /\ (inflight = {} \/ forced)
                      /\ resource["pool"] # "open" /\ resource["scheduler"] # "open"
                      /\ hooksDue => Finished("shutdown")
    BY DEF DatabaseOutlivesUsers
  <2>1. CASE pc \in BootPcs
    <3>1. ~Registered("pool") /\ ~Registered("hooks") /\ Covered
      BY <1>1, <2>1 DEF ApplicationInv, Booting
    <3>2. resource["pool"] # "open"
      BY <1>1, <3>1, ApplicationAssumption
      DEF Covered, Resources, Optional, ApplicationInv, BootTypes
    <3>3. tasks = 0
      BY <1>1, <3>2 DEF ApplicationInv, Pooled
    <3>4. inflight = {}
      BY <1>1, <2>1 DEF ApplicationInv, Served
    <3> QED
      BY <1>1, <2>1, <3>1, <3>2, <3>3, <3>4 DEF ApplicationInv, Booting
  <2>2. CASE pc \notin BootPcs
    <3>1. stage = "done"
      BY <1>1, <2>2 DEF ApplicationInv, Stopped
    <3>2. /\ resource["scheduler"] # "open" /\ ~running
          /\ resource["pool"] # "open" /\ Finished("shutdown")
      BY <1>1, <2>2, <3>1
      DEF ApplicationInv, Stopped, AfterScheduler, AfterPool, AfterHooks
    <3>3. inflight = {} \/ forced
      BY <1>1, <3>1 DEF ApplicationInv, Served, AfterDrain, Stages
    <3> QED
      BY <1>1, <3>2, <3>3 DEF ApplicationInv, Pooled
  <2> QED
    BY <2>1, <2>2
<1> QED
  BY <1>1, ApplicationInvariant, PTL

\* A bootstrap that failed has run every cleanup, and a Start that returned
\* every stage: nothing they opened is open, but for the exceptions of the
\* code, and the shutdown hooks that were due have run once, in their order.
THEOREM TeardownCompleteHolds == Spec => []TeardownComplete
<1>1. ASSUME ApplicationInv PROVE TeardownComplete
  <2>1. ASSUME pc = "exited", NEW r \in Resources, resource[r] = "open"
        PROVE  r \in Closers \cup lost
    <3>1. cleanups = << >> /\ Covered
      BY <1>1, <2>1 DEF ApplicationInv, Booting, BootPcs
    <3>2. ~Registered(r)
      BY <3>1, EmptySeq DEF Registered
    <3> QED
      BY <2>1, <3>1, <3>2 DEF Covered
  <2>2. ASSUME pc = "returned", NEW r \in Resources, resource[r] = "open"
        PROVE  r = "listener" /\ Hooks["ready"] # {}
    <3>1. stage = "done" /\ pc \notin BootPcs
      BY <1>1, <2>2 DEF ApplicationInv, Entered, BootPcs
    <3>2. r = "listener"
      BY <1>1, <2>2, <3>1
      DEF ApplicationInv, Stopped, Resources, Optional,
          AfterScheduler, AfterPool, AfterTelemetry, AfterBeans
    <3> QED
      BY <1>1, <2>2, <3>2 DEF ApplicationInv, Served
  <2>3. ASSUME Over
        PROVE  done["shutdown"] = IF hooksDue THEN Backward(Hooks["shutdown"]) ELSE << >>
    <3>1. hooksDue => Finished("shutdown")
      <4>1. CASE pc = "exited"
        <5>1. cleanups = << >> /\ (hooksDue => Finished("shutdown") \/ Registered("hooks"))
          BY <1>1, <4>1 DEF ApplicationInv, Booting, BootPcs
        <5> QED
          BY <5>1, EmptySeq DEF Registered
      <4>2. CASE pc = "returned"
        BY <1>1, <4>2 DEF ApplicationInv, Entered, Stopped, BootPcs, AfterHooks
      <4> QED
        BY <2>3, <4>1, <4>2 DEF Over
    <3> DEFINE H == HooksOf("shutdown")
    <3>2. PICK n \in 0..Len(H) : done["shutdown"] = [i \in 1..n |-> H[i]]
      BY <1>1 DEF ApplicationInv, Prefix
    <3>3. Len(H) \in Nat /\ H = [i \in 1..Len(H) |-> H[i]] /\ H = Backward(Hooks["shutdown"])
      BY HooksLength
    <3>4. hooksDue => Len(done["shutdown"]) = Len(H)
      BY <3>1 DEF Finished
    <3> HIDE DEF H
    <3>5. Len(done["shutdown"]) = n
      BY <3>2, <3>3
    <3>6. CASE hooksDue
      BY <3>2, <3>3, <3>4, <3>5, <3>6
    <3>7. CASE ~hooksDue
      BY <1>1, <3>7 DEF ApplicationInv, Prefix
    <3> QED
      BY <3>6, <3>7
  <2> QED
    BY <2>1, <2>2, <2>3 DEF TeardownComplete
<1> QED
  BY <1>1, ApplicationInvariant, PTL

=============================================================================
