------------------------------ MODULE Container ------------------------------
(***************************************************************************)
(* The IoC container (framework/ioc/container.go): singletons made under a *)
(* sync.Once, prototypes, request beans, injection by name and by type     *)
(* with the cache of type matches, the cycle check that follows the        *)
(* context of one resolution, the eager creation at bootstrap, and the     *)
(* replacement and clearing of beans.                                      *)
(*                                                                         *)
(* A goroutine resolves a bean with a stack of frames, one per call of     *)
(* GetBeanScoped that waits for its dependencies.  A Provider field is no  *)
(* dependency: it resolves nothing when it is injected, and its Get is a   *)
(* resolution of its own.  Beans are registered before the first one is    *)
(* resolved, as init functions and the bootstrap do.                       *)
(***************************************************************************)
EXTENDS Integers, Sequences, FiniteSets

CONSTANTS
  Beans, Types,
  Boot,         \* the goroutine of the bootstrap
  Threads,      \* goroutines that resolve beans afterwards
  Repositories, Services,  \* beans of the two kinds of plain factories
  TypeOf,       \* per bean: the type of its instance
  Named,        \* per type: the bean whose name is the name of the type, or Nil
  Graphs,       \* scopes and dependencies of the beans: [scope, deps, acyclic]
  MaxFaults,    \* bound on failing factories and resets
  Err, Panicked, Nil

Dependencies == [by : {"name"}, on : Beans] \cup [by : {"type"}, on : Types]

ASSUME ContainerAssumption ==
  /\ Repositories \cup Services \subseteq Beans
  /\ \A g \in Graphs :
       /\ g.scope \in [Beans -> {"singleton", "prototype", "request"}]
       /\ g.deps \in [Beans -> Seq(Dependencies)]
       /\ \A b \in Repositories \cup Services : g.scope[b] = "singleton"
  /\ TypeOf \in [Beans -> Types] /\ Named \in [Types -> Beans \cup {Nil}]
  /\ Boot \notin Threads /\ {"new", "done"} \cap (Threads \cup {Boot}) = {}
  /\ \A b \in Beans, n \in 0..2 : [bean |-> b, n |-> n] \notin {Nil, Err, Panicked}

VARIABLES
  graph,        \* which factories need what
  phase,        \* boot, up, or dead when the bootstrap panics
  created,      \* beans InitializeAllBeans is done with
  beans,        \* the cache of finished singletons
  once,         \* per definition: new, done, or the goroutine inside
  inst, failed, \* per definition: instance and err
  registry,     \* per goroutine: the registry of its request
  typeMatches,  \* per type: cached names, or Nil
  frames,
  made,         \* singletons made since the last reset, up to 1
  handed,       \* history: instances handed out since the last reset
  faults        \* failing factories and resets so far

defVars == <<once, inst, failed>>
confVars == <<graph, phase, created>>
histVars == <<made, handed, faults>>
vars == <<confVars, beans, defVars, registry, typeMatches, frames, histVars>>

Scope == graph.scope
All == Threads \cup {Boot}
Legacy == Repositories \cup Services
Fresh(b) == [bean |-> b, n |-> IF Scope[b] = "singleton" THEN made[b] + 1 ELSE 0]
Instance(v) == v \notin {Nil, Err, Panicked}

Frame(b, pc, stack, inRequest, eager) ==
  [bean |-> b, pc |-> pc, stack |-> stack, inRequest |-> inRequest, eager |-> eager,
   todo |-> graph.deps[b], seen |-> Nil]

Init ==
  /\ graph \in Graphs /\ phase = "boot" /\ created = {}
  /\ beans = [b \in Beans |-> Nil]
  /\ once = [b \in Beans |-> "new"]
  /\ inst = [b \in Beans |-> Nil] /\ failed = [b \in Beans |-> FALSE]
  /\ registry = [t \in All |-> [b \in Beans |-> Nil]]
  /\ typeMatches = [y \in Types |-> Nil]
  /\ frames = [t \in All |-> <<>>]
  /\ made = [b \in Beans |-> 0] /\ handed = [b \in Beans |-> {}]
  /\ faults = 0

Busy(t) == frames[t] # <<>>
Top(t) == frames[t][Len(frames[t])]
Below(t) == SubSeq(frames[t], 1, Len(frames[t]) - 1)
At(t, pc) == Busy(t) /\ Top(t).pc = pc
ToPc(t, pc) == frames' = [frames EXCEPT ![t][Len(frames[t])].pc = pc]

\* The call at the top of t's stack returns v (a panic returns Panicked).  A
\* plain factory looks its dependencies up with GetBean, which turns an error
\* into nil, and asserts a type; reflection panics on a nil dependency as well.
Return(t, v) ==
  LET below == Below(t)
      n == Len(below)
      parent == below[n]
      next == IF Instance(v) THEN [parent EXCEPT !.pc = "make", !.todo = Tail(@)]
              ELSE IF v = Err /\ parent.bean \notin Legacy THEN [parent EXCEPT !.pc = "fail"]
              ELSE [parent EXCEPT !.pc = "panic"]
  IN /\ frames' = [frames EXCEPT ![t] = IF n = 0 THEN <<>> ELSE [below EXCEPT ![n] = next]]
     /\ handed' = IF Instance(v) THEN [handed EXCEPT ![v.bean] = @ \cup {v}] ELSE handed

-----------------------------------------------------------------------------
(* GetBeanScoped.                                                          *)

Get(t, b) ==
  /\ phase = "up" /\ t \in Threads /\ ~Busy(t)
  /\ frames' = [frames EXCEPT ![t] = <<Frame(b, "lookup", {}, TRUE, FALSE)>>]
  /\ UNCHANGED <<confVars, beans, defVars, registry, typeMatches, histVars>>

LookupUnchecked(t) ==
  LET f == Top(t)
      b == f.bean
  IN /\ At(t, "lookup")
     /\ IF beans[b] # Nil THEN Return(t, beans[b])
        ELSE /\ frames' = [frames EXCEPT ![t][Len(frames[t])] = [f EXCEPT !.pc = Scope[b]]]
             /\ UNCHANGED handed
     /\ UNCHANGED <<confVars, beans, defVars, registry, typeMatches, made, faults>>

Lookup(t) ==
  LET f == Top(t)
      b == f.bean
  IN /\ At(t, "lookup")
     /\ CASE beans[b] # Nil -> Return(t, beans[b])
          [] beans[b] = Nil /\ b \in f.stack -> Return(t, Err)
          [] OTHER -> /\ frames' = [frames EXCEPT ![t][Len(frames[t])] =
                           [f EXCEPT !.stack = @ \cup {b}, !.pc = Scope[b]]]
                      /\ UNCHANGED handed
     /\ UNCHANGED <<confVars, beans, defVars, registry, typeMatches, made, faults>>

\* Without the Once: whoever finds no instance makes one.
resolveUnsynchronised(t) ==
  LET b == Top(t).bean
  IN /\ At(t, "singleton")
     /\ ToPc(t, "make") /\ once' = [once EXCEPT ![b] = t]
     /\ UNCHANGED handed
     /\ UNCHANGED <<confVars, beans, inst, failed, registry, typeMatches, made, faults>>

resolveSingletonBean(t) ==
  LET b == Top(t).bean
  IN /\ At(t, "singleton")
     /\ \/ /\ once[b] = "new"
           /\ once' = [once EXCEPT ![b] = t]
           /\ ToPc(t, "make")
           /\ UNCHANGED handed
        \/ /\ once[b] = "done"
           /\ Return(t, IF failed[b] THEN Err ELSE inst[b])
           /\ UNCHANGED once
     /\ UNCHANGED <<confVars, beans, inst, failed, registry, typeMatches, made, faults>>

resolvePrototype(t) ==
  /\ At(t, "prototype")
  /\ ToPc(t, "make")
  /\ UNCHANGED <<confVars, beans, defVars, registry, typeMatches, histVars>>

resolveRequestBean(t) ==
  LET f == Top(t)
      held == registry[t][f.bean]
  IN /\ At(t, "request")
     /\ IF ~f.inRequest THEN Return(t, Err)
        ELSE IF held # Nil THEN Return(t, held)
        ELSE ToPc(t, "make") /\ UNCHANGED handed
     /\ UNCHANGED <<confVars, beans, defVars, registry, typeMatches, made, faults>>

-----------------------------------------------------------------------------
(* instantiate: dependencies one by one, then the factory.                 *)

\* A factory that returns interface{} shows its type once it has an instance.
Matches(y) ==
  {b \in Beans : TypeOf[b] = y /\ (b \notin Legacy \/ inst[b] # Nil \/ beans[b] # Nil)}

Descend(t, b) ==
  LET f == Top(t)
      child == IF f.bean \in Legacy THEN Frame(b, "lookup", {}, FALSE, FALSE)
               ELSE Frame(b, "lookup", f.stack, f.inRequest, FALSE)
  IN /\ frames' = [frames EXCEPT ![t] = Append([@ EXCEPT ![Len(@)].pc = "waits"], child)]
     /\ UNCHANGED handed

\* findBeanNameByType over the matches it was given.
ByType(t, matches, y) ==
  IF Cardinality(matches) = 1 THEN \E b \in matches : Descend(t, b)
  ELSE IF Named[y] \in matches THEN Descend(t, Named[y])
  ELSE ToPc(t, "fail") /\ UNCHANGED handed

NextDependency(t) ==
  LET f == Top(t)
      d == Head(f.todo)
  IN /\ At(t, "make") /\ f.todo # <<>>
     /\ CASE d.by = "name" -> Descend(t, d.on)
          [] d.by = "type" /\ typeMatches[d.on] # Nil -> ByType(t, typeMatches[d.on], d.on)
          [] OTHER -> /\ frames' = [frames EXCEPT ![t][Len(frames[t])] =
                           [f EXCEPT !.pc = "match", !.seen = Matches(d.on)]]
                      /\ UNCHANGED handed
     /\ UNCHANGED <<confVars, beans, defVars, registry, typeMatches, made, faults>>

\* findMatchingBeanNames gathers under the read lock and stores under the
\* write lock, unless another goroutine stored first.
StoreMatches(t) ==
  LET f == Top(t)
      y == Head(f.todo).on
      matches == IF typeMatches[y] = Nil THEN f.seen ELSE typeMatches[y]
  IN /\ At(t, "match")
     /\ typeMatches' = [typeMatches EXCEPT ![y] = matches]
     /\ ByType(t, matches, y)
     /\ UNCHANGED <<confVars, beans, defVars, registry, made, faults>>

Ready(t) == At(t, "make") /\ Top(t).todo = <<>>

FactorySucceeds(t) ==
  LET f == Top(t)
      b == f.bean
      i == Fresh(b)
  IN /\ Ready(t)
     /\ made' = [made EXCEPT ![b] = IF Scope[b] = "singleton" THEN 1 ELSE 0]
     /\ CASE f.eager ->   \* InitializeAllBeans: RegisterBean
             /\ beans' = [beans EXCEPT ![b] = i]
             /\ typeMatches' = [y \in Types |-> Nil]
             /\ created' = created \cup {b}
             /\ Return(t, i)
             /\ UNCHANGED <<inst, registry>>
          [] Scope[b] = "singleton" /\ ~f.eager ->
             /\ inst' = [inst EXCEPT ![b] = i]
             /\ ToPc(t, "publish")
             /\ UNCHANGED <<beans, typeMatches, created, registry, handed>>
          [] Scope[b] = "prototype" ->
             /\ Return(t, i)
             /\ UNCHANGED <<beans, typeMatches, created, inst, registry>>
          [] Scope[b] = "request" ->
             /\ registry' = [registry EXCEPT ![t][b] = i]
             /\ Return(t, i)
             /\ UNCHANGED <<beans, typeMatches, created, inst>>
     /\ UNCHANGED <<graph, phase, once, failed, faults>>

\* The cache is written inside the Once, before it is done.
Publish(t) ==
  LET b == Top(t).bean
  IN /\ At(t, "publish")
     /\ beans' = [beans EXCEPT ![b] = inst[b]]
     /\ once' = [once EXCEPT ![b] = "done"]
     /\ Return(t, inst[b])
     /\ UNCHANGED <<confVars, inst, failed, registry, typeMatches, made, faults>>

FactoryErrs(t) ==
  /\ Ready(t) /\ Top(t).bean \notin Legacy /\ faults < MaxFaults
  /\ faults' = faults + 1
  /\ ToPc(t, "fail")
  /\ UNCHANGED <<confVars, beans, defVars, registry, typeMatches, made, handed>>

FactoryPanics(t) ==
  /\ Ready(t) /\ faults < MaxFaults
  /\ faults' = faults + 1
  /\ ToPc(t, "panic")
  /\ UNCHANGED <<confVars, beans, defVars, registry, typeMatches, made, handed>>

InOnce(t, f) == Scope[f.bean] = "singleton" /\ ~f.eager /\ once[f.bean] = t

\* An error stays with the definition; later resolutions get it again.
Fail(t) ==
  LET f == Top(t)
  IN /\ At(t, "fail")
     /\ IF InOnce(t, f)
        THEN /\ once' = [once EXCEPT ![f.bean] = "done"]
             /\ failed' = [failed EXCEPT ![f.bean] = TRUE]
        ELSE UNCHANGED <<once, failed>>
     /\ Return(t, Err)
     /\ UNCHANGED <<confVars, beans, inst, registry, typeMatches, made, faults>>

\* A panic marks every Once it passes as done, with neither bean nor error.
Panic(t) ==
  LET f == Top(t)
  IN /\ At(t, "panic")
     /\ once' = IF InOnce(t, f) THEN [once EXCEPT ![f.bean] = "done"] ELSE once
     /\ phase' = IF f.eager THEN "dead" ELSE phase
     /\ Return(t, Panicked)
     /\ UNCHANGED <<graph, created, beans, inst, failed, registry, typeMatches,
                    made, faults>>

-----------------------------------------------------------------------------
(* The bootstrap, the end of a request, and the resets of tests and of the *)
(* shutdown, which come when nothing is being resolved.                    *)

InitializeBean(b) ==
  /\ phase = "boot" /\ ~Busy(Boot)
  /\ b \in Legacy \ created
  /\ b \in Services => Repositories \subseteq created
  /\ frames' = [frames EXCEPT ![Boot] = <<Frame(b, "make", {}, FALSE, TRUE)>>]
  /\ UNCHANGED <<confVars, beans, defVars, registry, typeMatches, histVars>>

InitializeAllBeansReturns ==
  /\ phase = "boot" /\ ~Busy(Boot) /\ created = Legacy
  /\ phase' = "up"
  /\ UNCHANGED <<graph, created, beans, defVars, registry, typeMatches, frames, histVars>>

DestroyRequestRegistry(t) ==
  /\ ~Busy(t) /\ registry[t] # [b \in Beans |-> Nil]
  /\ registry' = [registry EXCEPT ![t] = [b \in Beans |-> Nil]]
  /\ UNCHANGED <<confVars, beans, defVars, typeMatches, frames, histVars>>

Quiet == phase = "up" /\ (\A t \in All : ~Busy(t)) /\ faults < MaxFaults

Mock(b) == [bean |-> b, n |-> 0]

ReplaceBean(b) ==
  /\ Quiet /\ Scope[b] = "singleton"
  /\ beans' = [beans EXCEPT ![b] = Mock(b)]
  /\ inst' = [inst EXCEPT ![b] = Mock(b)]
  /\ typeMatches' = [y \in Types |-> Nil]
  /\ handed' = [handed EXCEPT ![b] = {}]
  /\ faults' = faults + 1
  /\ UNCHANGED <<confVars, once, failed, registry, frames, made>>

Clear ==
  /\ Quiet
  /\ beans' = [b \in Beans |-> Nil] /\ once' = [b \in Beans |-> "new"]
  /\ inst' = [b \in Beans |-> Nil] /\ failed' = [b \in Beans |-> FALSE]
  /\ typeMatches' = [y \in Types |-> Nil]
  /\ made' = [b \in Beans |-> 0] /\ handed' = [b \in Beans |-> {}]
  /\ faults' = faults + 1
  /\ UNCHANGED <<confVars, registry, frames>>

Step(t) ==
  \/ Lookup(t) \/ resolveSingletonBean(t) \/ resolvePrototype(t) \/ resolveRequestBean(t)
  \/ NextDependency(t) \/ StoreMatches(t) \/ FactorySucceeds(t) \/ Publish(t)
  \/ FactoryErrs(t) \/ FactoryPanics(t) \/ Fail(t) \/ Panic(t)

Next ==
  \/ \E t \in All : Step(t) \/ DestroyRequestRegistry(t)
  \/ \E t \in Threads, b \in Beans : Get(t, b)
  \/ \E b \in Beans : InitializeBean(b) \/ ReplaceBean(b)
  \/ InitializeAllBeansReturns \/ Clear

Spec == Init /\ [][Next]_vars

\* Every goroutine goes on; factories return.
FairSpec == Spec /\ \A t \in All : WF_vars(Step(t))

-----------------------------------------------------------------------------
(* Properties.                                                             *)

\* What the dependencies of a bean may resolve to.
Needs(b) ==
  {x \in Beans : \E i \in DOMAIN graph.deps[b] :
     LET d == graph.deps[b][i] IN IF d.by = "name" THEN x = d.on ELSE TypeOf[x] = d.on}

\* A plain factory that InitializeAllBeans may call no later than that of b needs b,
\* itself or through others (every set with what it needs and is closed has b).
Early(b) ==
  \A S \in SUBSET Beans :
    (\A x \in S \cup IF b \in Services THEN Legacy ELSE Repositories : Needs(x) \subseteq S) => b \in S

\* However goroutines race for it, and whether it is asked for by name, by
\* type or as a dependency, every taker of a singleton is given the same
\* instance until it is replaced or the container is cleared.  The exception is
\* the code's: InitializeAllBeans calls a plain factory also when an earlier one
\* had that bean made already.
OneInstance ==
  \A b \in Beans :
    Scope[b] = "singleton" /\ (b \in Legacy => ~Early(b)) => Cardinality(handed[b]) <= 1

\* t waits for u, which is inside the Once of the bean t asks for.
WaitsFor(t, u) == At(t, "singleton") /\ once[Top(t).bean] = u

\* t waits for itself: since it entered the Once it has called a plain factory,
\* whose GetBean starts from context.Background(), without the names so far.
WaitsForItself(t) ==
  /\ WaitsFor(t, t)
  /\ \E i, j \in DOMAIN frames[t] :
       /\ i <= j /\ j < Len(frames[t])
       /\ frames[t][i].bean = Top(t).bean /\ frames[t][j].bean \in Legacy

\* A resolution ends, with a bean or an error: goroutines that meet in the
\* Once of a bean do not wait for each other, and a cycle of bean definitions is
\* an error for the goroutine that walks it (checkCircularDependency), not a
\* wait for itself.  The exceptions are the code's: two goroutines that enter
\* a cycle at different beans, since the check knows the names of one
\* resolution only, and a cycle that runs through a plain factory.
Resolves ==
  \A t \in All : Busy(t) ~>
    \/ ~Busy(t)
    \/ ~graph.acyclic /\ WaitsForItself(t)
    \/ ~graph.acyclic /\ \E u \in All \ {t} : WaitsFor(t, u) /\ WaitsFor(u, t)
=============================================================================
