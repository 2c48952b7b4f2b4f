--------------------------- MODULE ContainerProofs ---------------------------
(***************************************************************************)
(* Theorems about the container, for any beans, dependencies, goroutines   *)
(* and faults: every taker of a singleton gets the same instance.          *)
(***************************************************************************)
EXTENDS Container, FiniteSetTheorems, SequenceTheorems, TLAPS

Instances == [bean : Beans, n : 0..2]
NeedsOf(b) == {graph.deps[b][i] : i \in DOMAIN graph.deps[b]}
OfType(y) == {b \in Beans : TypeOf[b] = y}

\* The singletons OneInstance speaks of.
Sole(b) == Scope[b] = "singleton" /\ (b \in Legacy => ~Early(b))

Outside == {"lookup", "singleton", "prototype", "request"}
Making == {"make", "waits", "match", "fail", "panic"}

\* The call of a frame is past the question whether there is an instance.
Inside(f) == ~f.eager /\ f.pc \notin Outside

Frames ==
  [bean : Beans, pc : Outside \cup Making \cup {"publish"}, stack : SUBSET Beans,
   inRequest : BOOLEAN, eager : BOOLEAN, todo : Seq(Dependencies), seen : (SUBSET Beans) \cup {Nil}]

\* The cache of type matches has beans of the type.
Matched ==
  /\ typeMatches \in [Types -> (SUBSET Beans) \cup {Nil}]
  /\ \A y \in Types : typeMatches[y] # Nil => typeMatches[y] \subseteq OfType(y)

\* What the container keeps: instances under the name of their bean.
Kept ==
  /\ graph \in Graphs /\ phase \in {"boot", "up", "dead"} /\ created \subseteq Legacy
  /\ beans \in [Beans -> Instances \cup {Nil}] /\ inst \in [Beans -> Instances \cup {Nil}]
  /\ handed \in [Beans -> SUBSET Instances]
  /\ registry \in [All -> [Beans -> Instances \cup {Nil}]]
  /\ \A b \in Beans :
       /\ beans[b] # Nil => beans[b].bean = b
       /\ inst[b] # Nil => inst[b].bean = b
       /\ \A t \in All : registry[t][b] # Nil => registry[t][b].bean = b
  /\ once \in [Beans -> {"new", "done"} \cup All] /\ failed \in [Beans -> BOOLEAN]
  /\ made \in [Beans -> 0..1]
  /\ Matched

\* What is said of one call, given the graph.
FrameOK(gr, f) ==
  /\ f.todo \in Seq({gr.deps[f.bean][i] : i \in DOMAIN gr.deps[f.bean]})
  /\ f.pc \in {"singleton", "prototype", "request"} => f.pc = gr.scope[f.bean]
  /\ f.pc = "publish" => gr.scope[f.bean] = "singleton"
  /\ f.pc \in {"waits", "match"} => f.todo # <<>>
  /\ f.pc = "match" => Head(f.todo).by = "type" /\ f.seen \subseteq OfType(Head(f.todo).on)
  /\ f.eager => f.bean \in Legacy /\ f.pc \in Making

\* The frames of a goroutine: the calls below the top wait.  The bootstrap has the
\* call of InitializeAllBeans at the bottom.
Stacked ==
  /\ frames \in [All -> Seq(Frames)]
  /\ \A t \in All : \A i \in DOMAIN frames[t] :
       /\ FrameOK(graph, frames[t][i])
       /\ frames[t][i].pc = "waits" <=> i < Len(frames[t])
       /\ frames[t][i].eager <=> t = Boot /\ i = 1
       /\ phase = IF t = Boot THEN "boot" ELSE "up"

\* While the bootstrap makes a plain bean, only what that needs is being resolved.
Reached ==
  Busy(Boot) =>
    \A S \in SUBSET Beans, b \in Beans :
      frames[Boot][1].bean = b /\ (\A x \in S \cup {b} : Needs(x) \subseteq S)
        => \A i \in 2..Len(frames[Boot]) : frames[Boot][i].bean \in S

\* A plain bean is there after its turn only, and services have theirs after the
\* repositories.
Turns ==
  /\ Busy(Boot) => LET b == frames[Boot][1].bean
                    IN b \notin created /\ (b \in Services => Repositories \subseteq created)
  /\ phase = "boot" => \A b \in Legacy \ created : ~Early(b) => beans[b] = Nil

\* Between its lookup and its publication a singleton is in no cache, and one call
\* is inside its Once.
Owned ==
  \A b \in Beans : Sole(b) =>
    \A t \in All : \A i \in DOMAIN frames[t] : frames[t][i].bean = b =>
      /\ Inside(frames[t][i]) =>
           /\ once[b] = t /\ beans[b] = Nil
           /\ frames[t][i].pc # "publish" => inst[b] = Nil
           /\ \A j \in DOMAIN frames[t] : Inside(frames[t][j]) /\ frames[t][j].bean = b => j = i
      /\ frames[t][i].pc = "singleton" /\ once[b] = "new" => beans[b] = Nil

\* What was handed out is what the cache has, and so is what a Once keeps.
Agree ==
  \A b \in Beans : Sole(b) =>
    /\ \A v \in handed[b] : v = beans[b]
    /\ once[b] = "new" /\ beans[b] = Nil => inst[b] = Nil
    /\ once[b] = "done" /\ ~failed[b] /\ inst[b] # Nil => inst[b] = beans[b]

ContainerInv == Kept /\ Stacked /\ Reached /\ Turns /\ Owned /\ Agree

LEMMA DepsType == Kept => \A b \in Beans : graph.deps[b] \in Seq(Dependencies) /\ NeedsOf(b) \subseteq Dependencies
BY ContainerAssumption DEF Kept, NeedsOf

LEMMA ScopeType == Kept => \A b \in Beans : Scope[b] \in {"singleton", "prototype", "request"} /\ (b \in Legacy => Scope[b] = "singleton")
BY ContainerAssumption DEF Kept, Scope, Legacy

\* What is said of the graph stays true of it.
LEMMA GraphStays ==
  ASSUME graph' = graph
  PROVE  \A b : Sole(b)' = Sole(b) /\ NeedsOf(b)' = NeedsOf(b) /\ Needs(b)' = Needs(b) /\ Scope'[b] = Scope[b]
<1> TAKE b
<1>1. Scope'[b] = Scope[b] /\ NeedsOf(b)' = NeedsOf(b)
  BY DEF Scope, NeedsOf
<1>2. \A x : Needs(x)' = Needs(x)
  BY DEF Needs
<1>3. Early(b)' = Early(b)
  BY <1>2 DEF Early
<1> QED
  BY <1>1, <1>2, <1>3 DEF Sole

LEMMA TopIsLast ==
  ASSUME frames \in [All -> Seq(Frames)], NEW t \in All, Busy(t)
  PROVE  /\ Len(frames[t]) \in Nat \ {0}
         /\ Top(t) = frames[t][Len(frames[t])] /\ Top(t) \in Frames
         /\ DOMAIN frames[t] = 1..Len(frames[t])
BY DEF Busy, Top

\* A sequence whose last element is replaced.
LEMMA LastReplaced ==
  ASSUME NEW S, NEW q \in Seq(S), q # <<>>, NEW e \in S
  PROVE  /\ [q EXCEPT ![Len(q)] = e] \in Seq(S)
         /\ Len([q EXCEPT ![Len(q)] = e]) = Len(q)
         /\ [q EXCEPT ![Len(q)] = e][Len(q)] = e
         /\ \A i \in 1..(Len(q) - 1) : [q EXCEPT ![Len(q)] = e][i] = q[i]
<1>1. Len(q) \in Nat \ {0} /\ q \in [1..Len(q) -> S]
  BY EmptySeq, LenProperties
<1>2. PICK n \in Nat \ {0} : n = Len(q)
  BY <1>1
<1>3. PICK s : s = [q EXCEPT ![n] = e]
  OBVIOUS
<1>4. s \in Seq(S) /\ Len(s) = n /\ \A j \in 1..n : s[j] = IF j = n THEN e ELSE q[j]
  BY <1>1, <1>2, <1>3, ExceptSeq
<1>5. s[n] = e /\ \A i \in 1..(n - 1) : s[i] = q[i]
  BY <1>2, <1>4
<1> QED
  BY <1>2, <1>3, <1>4, <1>5

\* The call at the top goes on as g.
LEMMA TopGoesOn ==
  ASSUME frames \in [All -> Seq(Frames)], NEW t \in All, Busy(t), NEW g \in Frames,
         frames' = [frames EXCEPT ![t][Len(frames[t])] = g]
  PROVE  /\ frames' \in [All -> Seq(Frames)]
         /\ \A u \in All \ {t} : frames'[u] = frames[u]
         /\ Len(frames'[t]) = Len(frames[t]) /\ frames'[t][Len(frames[t])] = g
         /\ \A i \in 1..(Len(frames[t]) - 1) : frames'[t][i] = frames[t][i]
<1>1. PICK q \in Seq(Frames) : q = frames[t]
  OBVIOUS
<1>2. q # <<>> /\ Len(q) \in Nat \ {0}
  BY <1>1, EmptySeq DEF Busy
<1>3. PICK s : s = [q EXCEPT ![Len(q)] = g]
  OBVIOUS
<1>4. s \in Seq(Frames) /\ Len(s) = Len(q) /\ s[Len(q)] = g /\ \A i \in 1..(Len(q) - 1) : s[i] = q[i]
  BY <1>2, <1>3, LastReplaced
<1>5. frames' = [frames EXCEPT ![t] = s]
  BY <1>1, <1>3
<1> QED
  BY <1>1, <1>4, <1>5

\* The call at the top calls for g.
LEMMA TopCalls ==
  ASSUME frames \in [All -> Seq(Frames)], NEW t \in All, Busy(t), NEW g \in Frames,
         frames' = [frames EXCEPT ![t] = Append([@ EXCEPT ![Len(@)].pc = "waits"], g)]
  PROVE  /\ frames' \in [All -> Seq(Frames)]
         /\ \A u \in All \ {t} : frames'[u] = frames[u]
         /\ Len(frames'[t]) = Len(frames[t]) + 1 /\ frames'[t][Len(frames[t]) + 1] = g
         /\ frames'[t][Len(frames[t])] = [frames[t][Len(frames[t])] EXCEPT !.pc = "waits"]
         /\ \A i \in 1..(Len(frames[t]) - 1) : frames'[t][i] = frames[t][i]
<1>1. PICK q \in Seq(Frames) : q = frames[t]
  OBVIOUS
<1>2. q # <<>> /\ Len(q) \in Nat \ {0} /\ q[Len(q)] \in Frames
  BY <1>1, EmptySeq, ElementOfSeq DEF Busy
<1>3. PICK w : w = [q[Len(q)] EXCEPT !.pc = "waits"]
  OBVIOUS
<1>4. w \in Frames
  BY <1>2, <1>3 DEF Frames, Making
<1>5. PICK s : s = [q EXCEPT ![Len(q)] = w]
  OBVIOUS
<1>6. s \in Seq(Frames) /\ Len(s) = Len(q) /\ s[Len(q)] = w /\ \A i \in 1..(Len(q) - 1) : s[i] = q[i]
  BY <1>2, <1>4, <1>5, LastReplaced
<1>7. frames' = [frames EXCEPT ![t] = Append(s, g)]
  BY <1>1, <1>2, <1>3, <1>5
<1>8. /\ Append(s, g) \in Seq(Frames) /\ Len(Append(s, g)) = Len(q) + 1 /\ Append(s, g)[Len(q) + 1] = g
      /\ \A i \in 1..Len(q) : Append(s, g)[i] = s[i]
  BY <1>6, <1>2
<1>9. frames' \in [All -> Seq(Frames)] /\ frames'[t] = Append(s, g) /\ \A u \in All \ {t} : frames'[u] = frames[u]
  BY <1>7, <1>8
<1>10. Append(s, g)[Len(q)] = w /\ \A i \in 1..(Len(q) - 1) : Append(s, g)[i] = q[i]
  BY <1>2, <1>6, <1>8
<1>11. w = [frames[t][Len(frames[t])] EXCEPT !.pc = "waits"]
  BY <1>1, <1>3
<1> QED
  BY <1>1, <1>8, <1>9, <1>10, <1>11

\* What a call becomes when one it waited for returns.
Resumes(f, g) ==
  /\ g.bean = f.bean /\ g.eager = f.eager /\ g.pc \in {"make", "fail", "panic"}
  /\ g.todo \in {f.todo, Tail(f.todo)}

LEMMA CallerResumes ==
  ASSUME NEW f \in Frames, f.todo # <<>>, NEW v, NEW g,
         g = IF Instance(v) THEN [f EXCEPT !.pc = "make", !.todo = Tail(@)]
             ELSE IF v = Err /\ f.bean \notin Legacy THEN [f EXCEPT !.pc = "fail"]
             ELSE [f EXCEPT !.pc = "panic"]
  PROVE  g \in Frames /\ Resumes(f, g)
<1>1. Tail(f.todo) \in Seq(Dependencies)
  BY HeadTailProperties DEF Frames
<1> QED
  BY <1>1 DEF Frames, Making, Resumes

\* The call at the top returns.
LEMMA TopReturns ==
  ASSUME Stacked, NEW t \in All, Busy(t), NEW v, Return(t, v)
  PROVE  /\ frames' \in [All -> Seq(Frames)]
         /\ \A u \in All \ {t} : frames'[u] = frames[u]
         /\ Len(frames'[t]) = Len(frames[t]) - 1
         /\ \A i \in 1..(Len(frames[t]) - 2) : frames'[t][i] = frames[t][i]
         /\ Len(frames[t]) > 1 => Resumes(frames[t][Len(frames[t]) - 1], frames'[t][Len(frames[t]) - 1])
<1>1. PICK q \in Seq(Frames) : q = frames[t]
  BY DEF Stacked
<1>2. q # <<>> /\ Len(q) \in Nat \ {0}
  BY <1>1, EmptySeq DEF Busy
<1>8. \A i \in 1..Len(q) : q[i] \in Frames
  BY ElementOfSeq
<1>9. DOMAIN q = 1..Len(q)
  BY LenProperties
<1>3. PICK r : r = SubSeq(q, 1, Len(q) - 1)
  OBVIOUS
<1>4. r \in Seq(Frames) /\ Len(r) = Len(q) - 1 /\ \A i \in 1..(Len(q) - 1) : r[i] = q[i]
  <2>1. PICK n \in Nat : n = Len(q) - 1
    BY <1>2
  <2>2. \A i \in 1..n : q[i] \in Frames
    BY <1>8, <1>2, <2>1
  <2>3. /\ SubSeq(q, 1, n) \in Seq(Frames)
        /\ Len(SubSeq(q, 1, n)) = IF 1 <= n THEN n - 1 + 1 ELSE 0
        /\ \A i \in 1..(n - 1 + 1) : SubSeq(q, 1, n)[i] = q[1 + i - 1]
    BY <2>2, SubSeqProperties
  <2> QED
    BY <1>3, <2>1, <2>3
<1>5. CASE Len(q) = 1
  <2>1. frames' = [frames EXCEPT ![t] = <<>>]
    BY <1>1, <1>3, <1>4, <1>5 DEF Return, Below
  <2> QED
    BY <2>1, <1>1, <1>5 DEF Stacked
<1>6. CASE Len(q) # 1
  <2>1. Len(r) \in Nat \ {0} /\ r # <<>> /\ r[Len(r)] = q[Len(q) - 1] /\ q[Len(q) - 1] \in Frames
    BY <1>2, <1>4, <1>6, <1>8
  <2>2. q[Len(q) - 1].todo # <<>>
    <3>1. PICK k \in DOMAIN q : k = Len(q) - 1 /\ k < Len(q)
      BY <1>2, <1>6, <1>9
    <3>2. frames[t][k].pc = "waits" /\ FrameOK(graph, frames[t][k])
      BY <3>1, <1>1 DEF Stacked
    <3> QED
      BY <3>1, <3>2, <1>1 DEF FrameOK
  <2>3. PICK g : g = IF Instance(v) THEN [q[Len(q) - 1] EXCEPT !.pc = "make", !.todo = Tail(@)]
                     ELSE IF v = Err /\ q[Len(q) - 1].bean \notin Legacy THEN [q[Len(q) - 1] EXCEPT !.pc = "fail"]
                     ELSE [q[Len(q) - 1] EXCEPT !.pc = "panic"]
    OBVIOUS
  <2>4. g \in Frames /\ Resumes(q[Len(q) - 1], g)
    BY <2>1, <2>2, <2>3, CallerResumes
  <2>5. PICK s : s = [r EXCEPT ![Len(r)] = g]
    OBVIOUS
  <2>6. s \in Seq(Frames) /\ Len(s) = Len(r) /\ s[Len(r)] = g /\ \A i \in 1..(Len(r) - 1) : s[i] = r[i]
    BY <1>4, <2>1, <2>4, <2>5, LastReplaced
  <2>7. frames' = [frames EXCEPT ![t] = s]
    BY <1>1, <1>3, <1>4, <1>6, <2>1, <2>3, <2>5 DEF Return, Below
  <2>8. frames' \in [All -> Seq(Frames)] /\ frames'[t] = s /\ \A u \in All \ {t} : frames'[u] = frames[u]
    BY <2>6, <2>7 DEF Stacked
  <2> QED
    BY <1>1, <1>2, <1>4, <2>4, <2>6, <2>8
<1> QED
  BY <1>5, <1>6

-----------------------------------------------------------------------------
(* The call at the top goes on: the others do not see it.                  *)

LEMMA GoesOnStacked ==
  ASSUME Stacked, NEW t \in All, Busy(t), NEW g \in Frames,
         frames' = [frames EXCEPT ![t][Len(frames[t])] = g],
         graph' = graph, phase' = phase, FrameOK(graph, g), g.pc # "waits",
         g.eager = Top(t).eager
  PROVE  Stacked'
<1> DEFINE n == Len(frames[t])
<1>1. n \in Nat \ {0} /\ Top(t) = frames[t][n] /\ DOMAIN frames[t] = 1..n
  BY TopIsLast DEF Stacked
<1>2. /\ frames' \in [All -> Seq(Frames)] /\ \A u \in All \ {t} : frames'[u] = frames[u]
      /\ Len(frames'[t]) = n /\ frames'[t][n] = g
      /\ \A i \in 1..(n - 1) : frames'[t][i] = frames[t][i]
  BY TopGoesOn DEF Stacked
<1>3. DOMAIN frames'[t] = 1..n
  BY <1>2, LenProperties
<1> SUFFICES ASSUME NEW u \in All, NEW i \in DOMAIN frames'[u]
             PROVE  /\ FrameOK(graph, frames'[u][i])
                    /\ frames'[u][i].pc = "waits" <=> i < Len(frames'[u])
                    /\ frames'[u][i].eager <=> u = Boot /\ i = 1
                    /\ phase = IF u = Boot THEN "boot" ELSE "up"
  BY <1>2 DEF Stacked
<1>4. CASE u # t
  BY <1>2, <1>4 DEF Stacked
<1>5. CASE u = t /\ i # n
  <2>1. i \in 1..(n - 1) /\ i \in DOMAIN frames[t]
    BY <1>1, <1>3, <1>5
  <2> QED
    BY <2>1, <1>2, <1>5 DEF Stacked
<1>6. CASE u = t /\ i = n
  <2>1. n \in DOMAIN frames[t]
    BY <1>1
  <2>2. (frames[t][n].eager <=> t = Boot /\ n = 1) /\ phase = IF t = Boot THEN "boot" ELSE "up"
    BY <2>1 DEF Stacked
  <2>3. frames'[u][i] = g /\ Len(frames'[u]) = n
    BY <1>2, <1>6
  <2>4. g.eager <=> frames[t][n].eager
    BY <1>1
  <2>5. ~(i < Len(frames'[u]))
    BY <2>3, <1>1, <1>6
  <2> QED
    BY <2>2, <2>3, <2>4, <2>5, <1>6
<1> QED
  BY <1>4, <1>5, <1>6

LEMMA GoesOnReached ==
  ASSUME Stacked, Reached, NEW t \in All, Busy(t), NEW g \in Frames,
         frames' = [frames EXCEPT ![t][Len(frames[t])] = g],
         graph' = graph, g.bean = Top(t).bean
  PROVE  Reached' /\ (Busy(Boot)' => Busy(Boot) /\ frames'[Boot][1].bean = frames[Boot][1].bean)
<1> DEFINE n == Len(frames[t])
<1>1. n \in Nat \ {0} /\ Top(t) = frames[t][n]
  BY TopIsLast DEF Stacked
<1>2. /\ frames' \in [All -> Seq(Frames)] /\ \A u \in All \ {t} : frames'[u] = frames[u]
      /\ Len(frames'[t]) = n /\ frames'[t][n] = g
      /\ \A i \in 1..(n - 1) : frames'[t][i] = frames[t][i]
  BY TopGoesOn DEF Stacked
<1>3. Len(frames'[Boot]) = Len(frames[Boot]) /\ \A i \in 1..Len(frames[Boot]) : frames'[Boot][i].bean = frames[Boot][i].bean
  <2>1. CASE t = Boot
    <3> SUFFICES ASSUME NEW i \in 1..n PROVE frames'[t][i].bean = frames[t][i].bean
      BY <2>1, <1>2
    <3>1. i = n \/ i \in 1..(n - 1)
      BY <1>1
    <3> QED
      BY <3>1, <1>1, <1>2
  <2>2. CASE t # Boot
    BY <2>2, <1>2 DEF All
  <2> QED
    BY <2>1, <2>2
<1>4. Busy(Boot)' => Busy(Boot) /\ Len(frames[Boot]) \in Nat \ {0}
  <2>1. Boot \in All
    BY DEF All
  <2>2. frames[Boot] \in Seq(Frames) /\ frames'[Boot] \in Seq(Frames)
    BY <2>1, <1>2 DEF Stacked
  <2> QED
    BY <2>2, <1>3, EmptySeq DEF Busy
<1>5. \A x : Needs(x)' = Needs(x)
  BY GraphStays
<1>6. Busy(Boot)' => \A i \in 2..Len(frames[Boot]) : i \in 1..Len(frames[Boot])
  BY <1>4
<1>7. Busy(Boot)' => frames'[Boot][1].bean = frames[Boot][1].bean
  BY <1>3, <1>4
<1> QED
  BY <1>3, <1>4, <1>5, <1>6, <1>7 DEF Reached

LEMMA GoesOnOwned ==
  ASSUME Stacked, Owned, NEW t \in All, Busy(t), NEW g \in Frames,
         frames' = [frames EXCEPT ![t][Len(frames[t])] = g],
         graph' = graph, beans' = beans, inst' = inst, once' = once,
         g.bean = Top(t).bean, g.eager = Top(t).eager,
         Sole(g.bean) /\ Inside(g) => Inside(Top(t)) /\ Top(t).pc # "publish",
         Sole(g.bean) /\ g.pc = "singleton" => beans[g.bean] = Nil
  PROVE  Owned'
<1> DEFINE n == Len(frames[t])
<1>1. n \in Nat \ {0} /\ Top(t) = frames[t][n] /\ DOMAIN frames[t] = 1..n
  BY TopIsLast DEF Stacked
<1>2. /\ frames' \in [All -> Seq(Frames)] /\ \A u \in All \ {t} : frames'[u] = frames[u]
      /\ Len(frames'[t]) = n /\ frames'[t][n] = g
      /\ \A i \in 1..(n - 1) : frames'[t][i] = frames[t][i]
  BY TopGoesOn DEF Stacked
<1>3. DOMAIN frames'[t] = 1..n
  BY <1>2, LenProperties
<1>4. ASSUME NEW u \in All, NEW i \in DOMAIN frames'[u], NEW b \in Beans, Sole(b), frames'[u][i].bean = b
      PROVE  /\ i \in DOMAIN frames[u] /\ frames[u][i].bean = b
             /\ Inside(frames'[u][i]) => Inside(frames[u][i])
             /\ Inside(frames'[u][i]) /\ frames'[u][i].pc # "publish" => frames[u][i].pc # "publish"
             /\ frames'[u][i].pc = "singleton" => frames[u][i].pc = "singleton" \/ beans[b] = Nil
  <2>1. CASE u # t \/ i # n
    <3>1. i \in DOMAIN frames[u] /\ frames'[u][i] = frames[u][i]
      BY <2>1, <1>1, <1>2, <1>3
    <3> QED
      BY <3>1, <1>4
  <2>2. CASE u = t /\ i = n
    <3>1. frames'[u][i] = g /\ g.bean = b /\ frames[u][i] = Top(t) /\ i \in DOMAIN frames[u]
      BY <2>2, <1>1, <1>2, <1>4
    <3> QED
      BY <3>1, <1>4
  <2> QED
    BY <2>1, <2>2
<1> SUFFICES ASSUME NEW b \in Beans, Sole(b), NEW u \in All, NEW i \in DOMAIN frames'[u], frames'[u][i].bean = b
             PROVE  /\ Inside(frames'[u][i]) =>
                         /\ once[b] = u /\ beans[b] = Nil
                         /\ frames'[u][i].pc # "publish" => inst[b] = Nil
                         /\ \A j \in DOMAIN frames'[u] : Inside(frames'[u][j]) /\ frames'[u][j].bean = b => j = i
                    /\ frames'[u][i].pc = "singleton" /\ once[b] = "new" => beans[b] = Nil
  BY GraphStays DEF Owned, Inside
<1> QED
  BY <1>4 DEF Owned

-----------------------------------------------------------------------------
(* The call at the top calls for a bean it needs.                          *)

LEMMA DepsAreSeq ==
  ASSUME Kept, NEW b \in Beans
  PROVE  graph.deps[b] \in Seq(Dependencies) /\ graph.deps[b] \in Seq(NeedsOf(b))
<1>1. graph.deps[b] \in Seq(Dependencies)
  BY DepsType
<1>2. PICK d : d = graph.deps[b]
  OBVIOUS
<1>3. d \in Seq({d[i] : i \in DOMAIN d})
  BY <1>1, <1>2
<1> QED
  BY <1>1, <1>2, <1>3 DEF NeedsOf

LEMMA FirstFrame ==
  ASSUME Kept, NEW b \in Beans, NEW pc \in {"lookup", "make"}, NEW stack \in SUBSET Beans,
         NEW inRequest \in BOOLEAN, NEW eager \in BOOLEAN, eager => b \in Legacy /\ pc = "make"
  PROVE  /\ Frame(b, pc, stack, inRequest, eager) \in Frames
         /\ FrameOK(graph, Frame(b, pc, stack, inRequest, eager))
<1>1. PICK g : g = Frame(b, pc, stack, inRequest, eager)
  OBVIOUS
<1>2. graph.deps[b] \in Seq(Dependencies) /\ graph.deps[b] \in Seq({graph.deps[b][i] : i \in DOMAIN graph.deps[b]})
  BY DepsAreSeq DEF NeedsOf
<1>3. g \in Frames
  <2>1. PICK d \in Seq(Dependencies) : d = graph.deps[b]
    BY <1>2
  <2>2. g = [bean |-> b, pc |-> pc, stack |-> stack, inRequest |-> inRequest, eager |-> eager, todo |-> d, seen |-> Nil]
    BY <1>1, <2>1 DEF Frame
  <2>3. pc \in Outside \cup Making \cup {"publish"}
    BY DEF Outside, Making
  <2>4. Nil \in (SUBSET Beans) \cup {Nil}
    OBVIOUS
  <2> QED
    BY <2>2, <2>3, <2>4 DEF Frames
<1>4. g.bean = b /\ g.pc = pc /\ g.todo = graph.deps[b] /\ g.eager = eager
  BY <1>1 DEF Frame
<1>5. FrameOK(graph, g)
  BY <1>2, <1>4 DEF FrameOK, Making
<1> QED
  BY <1>1, <1>3, <1>5

LEMMA Calls ==
  ASSUME Kept, Stacked, NEW t \in All, Busy(t), NEW b \in Beans, Descend(t, b), Top(t).todo # <<>>
  PROVE  \E g \in Frames :
           /\ g.bean = b /\ ~g.eager /\ g.pc = "lookup" /\ FrameOK(graph, g)
           /\ frames' \in [All -> Seq(Frames)]
           /\ \A u \in All \ {t} : frames'[u] = frames[u]
           /\ Len(frames'[t]) = Len(frames[t]) + 1 /\ frames'[t][Len(frames[t]) + 1] = g
           /\ frames'[t][Len(frames[t])] = [Top(t) EXCEPT !.pc = "waits"]
           /\ \A i \in 1..(Len(frames[t]) - 1) : frames'[t][i] = frames[t][i]
<1> DEFINE f == Top(t)
           g == IF f.bean \in Legacy THEN Frame(b, "lookup", {}, FALSE, FALSE)
                ELSE Frame(b, "lookup", f.stack, f.inRequest, FALSE)
<1>1. f \in Frames /\ f = frames[t][Len(frames[t])]
  BY TopIsLast DEF Stacked
<1>2. g \in Frames /\ FrameOK(graph, g)
  <2>1. f.stack \in SUBSET Beans /\ f.inRequest \in BOOLEAN
    BY <1>1 DEF Frames
  <2>2. CASE f.bean \in Legacy
    BY <2>2, FirstFrame
  <2>3. CASE f.bean \notin Legacy
    BY <2>1, <2>3, FirstFrame
  <2> QED
    BY <2>2, <2>3
<1>3. g.bean = b /\ ~g.eager /\ g.pc = "lookup"
  BY DEF Frame
<1>4. frames' = [frames EXCEPT ![t] = Append([@ EXCEPT ![Len(@)].pc = "waits"], g)]
  BY DEF Descend
<1> HIDE DEF g
<1> QED
  BY <1>1, <1>2, <1>3, <1>4, TopCalls DEF Stacked

LEMMA CallsStacked ==
  ASSUME Kept, Stacked, NEW t \in All, Busy(t), NEW b \in Beans, Descend(t, b), Top(t).todo # <<>>,
         graph' = graph, phase' = phase
  PROVE  Stacked'
<1> DEFINE n == Len(frames[t]) w == [Top(t) EXCEPT !.pc = "waits"]
<1>1. n \in Nat \ {0} /\ Top(t) = frames[t][n] /\ Top(t) \in Frames /\ DOMAIN frames[t] = 1..n
  BY TopIsLast DEF Stacked
<1>2. PICK g \in Frames :
        /\ g.bean = b /\ ~g.eager /\ g.pc = "lookup" /\ FrameOK(graph, g)
        /\ frames' \in [All -> Seq(Frames)] /\ \A u \in All \ {t} : frames'[u] = frames[u]
        /\ Len(frames'[t]) = n + 1 /\ frames'[t][n + 1] = g /\ frames'[t][n] = w
        /\ \A i \in 1..(n - 1) : frames'[t][i] = frames[t][i]
  BY Calls
<1>3. DOMAIN frames'[t] = 1..(n + 1)
  BY <1>2, LenProperties
<1>4. FrameOK(graph, frames[t][n]) /\ (frames[t][n].eager <=> t = Boot /\ n = 1) /\ phase = IF t = Boot THEN "boot" ELSE "up"
  BY <1>1 DEF Stacked
<1>5. FrameOK(graph, w) /\ w.pc = "waits" /\ (w.eager <=> t = Boot /\ n = 1)
  BY <1>1, <1>4 DEF FrameOK, Frames, Making
<1> HIDE DEF w
<1> SUFFICES ASSUME NEW u \in All, NEW i \in DOMAIN frames'[u]
             PROVE  /\ FrameOK(graph, frames'[u][i])
                    /\ frames'[u][i].pc = "waits" <=> i < Len(frames'[u])
                    /\ frames'[u][i].eager <=> u = Boot /\ i = 1
                    /\ phase = IF u = Boot THEN "boot" ELSE "up"
  BY <1>2 DEF Stacked
<1>6. CASE u # t
  BY <1>2, <1>6 DEF Stacked
<1>7. CASE u = t /\ i \in 1..(n - 1)
  <2>1. i \in DOMAIN frames[t] /\ i < n /\ i < n + 1
    BY <1>1, <1>7
  <2> QED
    BY <2>1, <1>2, <1>7 DEF Stacked
<1>8. CASE u = t /\ i = n
  <2>1. i < Len(frames'[u])
    BY <1>1, <1>2, <1>8
  <2> QED
    BY <2>1, <1>2, <1>4, <1>5, <1>8
<1>9. CASE u = t /\ i = n + 1
  <2>1. ~(i < Len(frames'[u])) /\ i # 1
    BY <1>1, <1>2, <1>9
  <2> QED
    BY <2>1, <1>2, <1>4, <1>9
<1> QED
  BY <1>1, <1>3, <1>6, <1>7, <1>8, <1>9

LEMMA CallsReached ==
  ASSUME Kept, Stacked, Reached, NEW t \in All, Busy(t), NEW b \in Beans, Descend(t, b), Top(t).todo # <<>>,
         graph' = graph, b \in Needs(Top(t).bean)
  PROVE  Reached' /\ (Busy(Boot)' => Busy(Boot) /\ frames'[Boot][1].bean = frames[Boot][1].bean)
<1> DEFINE n == Len(frames[t])
<1>1. n \in Nat \ {0} /\ Top(t) = frames[t][n] /\ Top(t) \in Frames
  BY TopIsLast DEF Stacked
<1>2. PICK g \in Frames :
        /\ g.bean = b
        /\ frames' \in [All -> Seq(Frames)] /\ \A u \in All \ {t} : frames'[u] = frames[u]
        /\ Len(frames'[t]) = n + 1 /\ frames'[t][n + 1] = g /\ frames'[t][n] = [Top(t) EXCEPT !.pc = "waits"]
        /\ \A i \in 1..(n - 1) : frames'[t][i] = frames[t][i]
  BY Calls
<1>3. \A x : Needs(x)' = Needs(x)
  BY GraphStays
<1>4. CASE t # Boot
  <2>1. frames'[Boot] = frames[Boot]
    BY <1>2, <1>4 DEF All
  <2> QED
    BY <2>1, <1>3 DEF Reached, Busy
<1>5. CASE t = Boot
  <2>1. \A i \in 1..n : frames'[t][i].bean = frames[t][i].bean
    <3> SUFFICES ASSUME NEW i \in 1..n PROVE frames'[t][i].bean = frames[t][i].bean
      OBVIOUS
    <3>1. i = n \/ i \in 1..(n - 1)
      BY <1>1
    <3>2. [Top(t) EXCEPT !.pc = "waits"].bean = Top(t).bean
      BY <1>1 DEF Frames
    <3> QED
      BY <3>1, <3>2, <1>1, <1>2
  <2>2. frames'[t][1].bean = frames[t][1].bean
    BY <2>1, <1>1
  <2>5. ASSUME NEW S \in SUBSET Beans, NEW a \in Beans, frames[t][1].bean = a,
               \A x \in S \cup {a} : Needs(x) \subseteq S, NEW i \in 2..(n + 1)
        PROVE  frames'[t][i].bean \in S
    <3>3. CASE i # n + 1
      BY <2>1, <3>3, <2>5, <1>1, <1>5 DEF Reached
    <3>4. CASE i = n + 1
      <4>1. Top(t).bean \in S \cup {a}
        <5>1. \A k \in Nat \ {0} : k = 1 \/ k \in 2..k
          OBVIOUS
        <5>2. n = 1 \/ n \in 2..n
          BY <5>1, <1>1
        <5> QED
          BY <5>2, <2>5, <1>1, <1>5 DEF Reached
      <4> QED
        BY <4>1, <3>4, <2>5, <1>2
    <3> QED
      BY <3>3, <3>4
  <2>6. Len(frames'[Boot]) = n + 1 /\ frames'[Boot][1].bean = frames[Boot][1].bean /\ Busy(Boot)
    BY <2>2, <1>2, <1>5
  <2> QED
    BY <2>5, <2>6, <1>3, <1>5 DEF Reached
<1> QED
  BY <1>4, <1>5

LEMMA CallsOwned ==
  ASSUME Kept, Stacked, Owned, NEW t \in All, Busy(t), NEW b \in Beans, Descend(t, b), Top(t).todo # <<>>,
         graph' = graph, beans' = beans, inst' = inst, once' = once,
         Top(t).pc \in Making
  PROVE  Owned'
<1> DEFINE n == Len(frames[t])
<1>1. n \in Nat \ {0} /\ Top(t) = frames[t][n] /\ Top(t) \in Frames /\ DOMAIN frames[t] = 1..n
  BY TopIsLast DEF Stacked
<1>2. PICK g \in Frames :
        /\ g.pc = "lookup"
        /\ frames' \in [All -> Seq(Frames)] /\ \A u \in All \ {t} : frames'[u] = frames[u]
        /\ Len(frames'[t]) = n + 1 /\ frames'[t][n + 1] = g /\ frames'[t][n] = [Top(t) EXCEPT !.pc = "waits"]
        /\ \A i \in 1..(n - 1) : frames'[t][i] = frames[t][i]
  BY Calls
<1>3. DOMAIN frames'[t] = 1..(n + 1)
  BY <1>2, LenProperties
<1>4. ASSUME NEW u \in All, NEW i \in DOMAIN frames'[u], NEW c \in Beans, Sole(c), frames'[u][i].bean = c,
             Inside(frames'[u][i]) \/ frames'[u][i].pc = "singleton"
      PROVE  /\ i \in DOMAIN frames[u] /\ frames[u][i].bean = c
             /\ Inside(frames'[u][i]) => Inside(frames[u][i])
             /\ frames'[u][i].pc # "publish" => frames[u][i].pc # "publish"
             /\ frames'[u][i].pc = "singleton" => frames[u][i].pc = "singleton"
  <2>1. CASE u # t \/ i \in 1..(n - 1)
    <3>1. i \in DOMAIN frames[u] /\ frames'[u][i] = frames[u][i]
      BY <2>1, <1>1, <1>2, <1>3
    <3> QED
      BY <3>1, <1>4
  <2>2. CASE u = t /\ i = n
    <3>1. frames'[u][i] = [frames[u][i] EXCEPT !.pc = "waits"] /\ frames[u][i] \in Frames /\ i \in DOMAIN frames[u]
          /\ frames[u][i].pc \in Making
      BY <2>2, <1>1, <1>2
    <3> QED
      BY <3>1, <1>4 DEF Inside, Frames, Making, Outside
  <2>3. CASE u = t /\ i = n + 1
    BY <2>3, <1>2, <1>4 DEF Inside, Outside
  <2> QED
    BY <2>1, <2>2, <2>3, <1>1, <1>3
<1> SUFFICES ASSUME NEW c \in Beans, Sole(c), NEW u \in All, NEW i \in DOMAIN frames'[u], frames'[u][i].bean = c
             PROVE  /\ Inside(frames'[u][i]) =>
                         /\ once[c] = u /\ beans[c] = Nil
                         /\ frames'[u][i].pc # "publish" => inst[c] = Nil
                         /\ \A j \in DOMAIN frames'[u] : Inside(frames'[u][j]) /\ frames'[u][j].bean = c => j = i
                    /\ frames'[u][i].pc = "singleton" /\ once[c] = "new" => beans[c] = Nil
  BY GraphStays DEF Owned, Inside
<1> QED
  BY <1>4 DEF Owned

-----------------------------------------------------------------------------
(* The call at the top returns.                                            *)

LEMMA ReturnsStacked ==
  ASSUME Stacked, NEW t \in All, Busy(t), NEW v, Return(t, v),
         graph' = graph, phase' = phase \/ Top(t).eager
  PROVE  Stacked'
<1> DEFINE n == Len(frames[t])
<1>1. n \in Nat \ {0} /\ Top(t) = frames[t][n] /\ DOMAIN frames[t] = 1..n
  BY TopIsLast DEF Stacked
<1>2. /\ frames' \in [All -> Seq(Frames)] /\ \A u \in All \ {t} : frames'[u] = frames[u]
      /\ Len(frames'[t]) = n - 1 /\ \A i \in 1..(n - 2) : frames'[t][i] = frames[t][i]
      /\ n > 1 => Resumes(frames[t][n - 1], frames'[t][n - 1])
  BY TopReturns
<1>3. DOMAIN frames'[t] = 1..(n - 1)
  BY <1>2, LenProperties
<1>4. Top(t).eager => t = Boot /\ n = 1 /\ phase = "boot"
  <2>1. n \in DOMAIN frames[t]
    BY <1>1
  <2> QED
    BY <2>1, <1>1 DEF Stacked
<1> SUFFICES ASSUME NEW u \in All, NEW i \in DOMAIN frames'[u]
             PROVE  /\ FrameOK(graph, frames'[u][i])
                    /\ frames'[u][i].pc = "waits" <=> i < Len(frames'[u])
                    /\ frames'[u][i].eager <=> u = Boot /\ i = 1
                    /\ phase' = IF u = Boot THEN "boot" ELSE "up"
  BY <1>2 DEF Stacked
<1>5. CASE u # t
  <2>1. frames'[u] = frames[u]
    BY <1>2, <1>5
  <2>2. phase = IF u = Boot THEN "boot" ELSE "up"
    BY <2>1 DEF Stacked
  <2>3. phase' = phase
    BY <2>2, <1>4, <1>5
  <2> QED
    BY <2>1, <2>3 DEF Stacked
<1>6. CASE u = t /\ i \in 1..(n - 2)
  <2>1. i \in DOMAIN frames[t] /\ i < n /\ i < n - 1 /\ n # 1
    BY <1>1, <1>6
  <2> QED
    BY <2>1, <1>2, <1>4, <1>6 DEF Stacked
<1>7. CASE u = t /\ i = n - 1
  <2>1. n > 1 /\ n - 1 \in DOMAIN frames[t] /\ n - 1 < n /\ (n - 1 = 1 <=> i = 1) /\ ~(i < n - 1)
    BY <1>1, <1>3, <1>7
  <2>2. PICK f \in Frames : f = frames[t][n - 1]
    BY <2>1 DEF Stacked
  <2>3. PICK g : g = frames'[t][n - 1]
    OBVIOUS
  <2>4. /\ FrameOK(graph, f) /\ f.pc = "waits" /\ (f.eager <=> t = Boot /\ n - 1 = 1)
        /\ phase = IF t = Boot THEN "boot" ELSE "up"
    BY <2>1, <2>2 DEF Stacked
  <2>5. Resumes(f, g)
    BY <2>1, <2>2, <2>3, <1>2
  <2>6. FrameOK(graph, g)
    <3>1. f.todo # <<>> /\ f.todo \in Seq({graph.deps[f.bean][k] : k \in DOMAIN graph.deps[f.bean]})
      BY <2>4 DEF FrameOK
    <3>2. PICK D : D = {graph.deps[f.bean][k] : k \in DOMAIN graph.deps[f.bean]}
      OBVIOUS
    <3>3. Tail(f.todo) \in Seq(D)
      BY <3>1, <3>2, HeadTailProperties
    <3>4. g.todo \in Seq(D)
      BY <3>1, <3>2, <3>3, <2>5 DEF Resumes
    <3> QED
      BY <3>2, <3>4, <2>4, <2>5 DEF FrameOK, Resumes, Making
  <2>7. phase' = phase
    <3>1. n # 1
      BY <2>1, <1>1
    <3> QED
      BY <3>1, <1>4
  <2> QED
    BY <2>1, <2>3, <2>4, <2>5, <2>6, <2>7, <1>2, <1>7 DEF Resumes
<1> QED
  BY <1>1, <1>3, <1>5, <1>6, <1>7

\* A return leaves the calls below with their beans.
LEMMA BelowStays ==
  ASSUME Stacked, NEW t \in All, Busy(t), NEW v, Return(t, v)
  PROVE  \A u \in All : \A i \in DOMAIN frames'[u] :
           /\ i \in DOMAIN frames[u] /\ (u = t => i # Len(frames[t]))
           /\ frames'[u][i].bean = frames[u][i].bean
           /\ Inside(frames'[u][i]) => Inside(frames[u][i]) /\ (frames[u][i].pc = "publish" => frames'[u][i].pc = "publish")
           /\ frames'[u][i].pc = "singleton" => frames[u][i].pc = "singleton"
<1> DEFINE n == Len(frames[t])
<1>1. n \in Nat \ {0} /\ Top(t) = frames[t][n] /\ DOMAIN frames[t] = 1..n
  BY TopIsLast DEF Stacked
<1>2. /\ frames' \in [All -> Seq(Frames)] /\ \A u \in All \ {t} : frames'[u] = frames[u]
      /\ Len(frames'[t]) = n - 1 /\ \A i \in 1..(n - 2) : frames'[t][i] = frames[t][i]
      /\ n > 1 => Resumes(frames[t][n - 1], frames'[t][n - 1])
  BY TopReturns
<1>3. DOMAIN frames'[t] = 1..(n - 1)
  BY <1>2, LenProperties
<1> SUFFICES ASSUME NEW u \in All, NEW i \in DOMAIN frames'[u]
             PROVE  /\ i \in DOMAIN frames[u] /\ (u = t => i # Len(frames[t]))
                    /\ frames'[u][i].bean = frames[u][i].bean
                    /\ Inside(frames'[u][i]) => Inside(frames[u][i]) /\ (frames[u][i].pc = "publish" => frames'[u][i].pc = "publish")
                    /\ frames'[u][i].pc = "singleton" => frames[u][i].pc = "singleton"
  OBVIOUS
<1>4. CASE u # t
  BY <1>2, <1>4
<1>5. CASE u = t /\ i \in 1..(n - 2)
  BY <1>1, <1>2, <1>5
<1>6. CASE u = t /\ i = n - 1
  <2>1. n > 1 /\ n - 1 \in DOMAIN frames[t] /\ n - 1 < n
    BY <1>1, <1>3, <1>6
  <2>2. frames[t][n - 1].pc = "waits"
    BY <2>1 DEF Stacked
  <2>3. Resumes(frames[t][n - 1], frames'[t][n - 1])
    BY <2>1, <1>2
  <2> QED
    BY <2>1, <2>2, <2>3, <1>6 DEF Resumes, Inside, Outside
<1> QED
  BY <1>1, <1>3, <1>4, <1>5, <1>6

LEMMA ReturnsReached ==
  ASSUME Stacked, Reached, NEW t \in All, Busy(t), NEW v, Return(t, v), graph' = graph
  PROVE  Reached' /\ (Busy(Boot)' => Busy(Boot) /\ frames'[Boot][1].bean = frames[Boot][1].bean)
<1>1. Boot \in All
  BY DEF All
<1>2. /\ \A i \in DOMAIN frames'[Boot] : i \in DOMAIN frames[Boot] /\ frames'[Boot][i].bean = frames[Boot][i].bean
      /\ frames' \in [All -> Seq(Frames)]
  BY <1>1, BelowStays, TopReturns
<1>3. PICK p \in Seq(Frames) : p = frames[Boot]
  BY <1>1 DEF Stacked
<1>4. PICK q \in Seq(Frames) : q = frames'[Boot]
  BY <1>1, <1>2
<1>5. DOMAIN p = 1..Len(p) /\ Len(p) \in Nat /\ DOMAIN q = 1..Len(q) /\ Len(q) \in Nat
  BY LenProperties
<1>6. \A x : Needs(x)' = Needs(x)
  BY GraphStays
<1>7. Busy(Boot)' => Busy(Boot) /\ 1 \in DOMAIN frames'[Boot]
  <2>1. q # <<>> => Len(q) # 0
    BY EmptySeq
  <2>2. q # <<>> => 1 \in DOMAIN q
    BY <2>1, <1>5
  <2>3. 1 \in DOMAIN q => 1 \in DOMAIN p
    BY <1>2, <1>3, <1>4
  <2>4. 1 \in DOMAIN p => p # <<>>
    BY <1>5
  <2> QED
    BY <2>2, <2>3, <2>4, <1>3, <1>4 DEF Busy
<1>8. \A i \in 2..Len(q) : i \in DOMAIN q /\ (i \in DOMAIN p => i \in 2..Len(p))
  BY <1>5
<1>9. \A i \in 2..Len(frames'[Boot]) : i \in 2..Len(frames[Boot]) /\ frames'[Boot][i].bean = frames[Boot][i].bean
  BY <1>2, <1>3, <1>4, <1>8
<1>10. Busy(Boot)' => Busy(Boot) /\ frames'[Boot][1].bean = frames[Boot][1].bean
  BY <1>2, <1>7
<1> QED
  BY <1>6, <1>9, <1>10 DEF Reached

LEMMA ReturnsOwned ==
  ASSUME Kept, Stacked, Owned, NEW t \in All, Busy(t), NEW v, Return(t, v), graph' = graph,
         \A c \in Beans : Sole(c) =>
           \/ beans'[c] = beans[c] /\ inst'[c] = inst[c] /\ once'[c] = once[c]
           \/ c = Top(t).bean /\ Inside(Top(t)) /\ once'[c] = "done"
  PROVE  Owned'
<1> DEFINE n == Len(frames[t])
<1>1. n \in DOMAIN frames[t] /\ Top(t) = frames[t][n]
  BY TopIsLast DEF Stacked
<1> SUFFICES ASSUME NEW c \in Beans, Sole(c), NEW u \in All, NEW i \in DOMAIN frames'[u], frames'[u][i].bean = c
             PROVE  /\ Inside(frames'[u][i]) =>
                         /\ once'[c] = u /\ beans'[c] = Nil
                         /\ frames'[u][i].pc # "publish" => inst'[c] = Nil
                         /\ \A j \in DOMAIN frames'[u] : Inside(frames'[u][j]) /\ frames'[u][j].bean = c => j = i
                    /\ frames'[u][i].pc = "singleton" /\ once'[c] = "new" => beans'[c] = Nil
  BY GraphStays DEF Owned, Inside
<1>2. \A j \in DOMAIN frames'[u] :
           /\ j \in DOMAIN frames[u] /\ (u = t => j # n)
           /\ frames'[u][j].bean = frames[u][j].bean
           /\ Inside(frames'[u][j]) => Inside(frames[u][j]) /\ (frames[u][j].pc = "publish" => frames'[u][j].pc = "publish")
           /\ frames'[u][j].pc = "singleton" => frames[u][j].pc = "singleton"
  BY BelowStays
<1>3. CASE beans'[c] = beans[c] /\ inst'[c] = inst[c] /\ once'[c] = once[c]
  BY <1>2, <1>3 DEF Owned
<1>4. CASE c = Top(t).bean /\ Inside(Top(t)) /\ once'[c] = "done"
  <2>1. ~Inside(frames'[u][i])
    <3> SUFFICES ASSUME Inside(frames'[u][i]) PROVE FALSE
      OBVIOUS
    <3>1. i \in DOMAIN frames[u] /\ Inside(frames[u][i]) /\ frames[u][i].bean = c /\ (u = t => i # n)
      BY <1>2
    <3>2. once[c] = u /\ \A j \in DOMAIN frames[u] : Inside(frames[u][j]) /\ frames[u][j].bean = c => j = i
      BY <3>1 DEF Owned
    <3>3. once[c] = t
      BY <1>1, <1>4 DEF Owned
    <3>4. n = i
      BY <3>2, <3>3, <1>1, <1>4
    <3> QED
      BY <3>1, <3>2, <3>3, <3>4
  <2> QED
    BY <2>1, <1>4
<1> QED
  BY <1>3, <1>4

\* What a return hands out has the name of its bean.
LEMMA HandsOut ==
  ASSUME Kept, NEW t \in All, NEW v \in Instances \cup {Nil, Err, Panicked}, Return(t, v)
  PROVE  /\ handed' \in [Beans -> SUBSET Instances]
         /\ \A c \in Beans : \A w \in handed'[c] : w \in handed[c] \/ (w = v /\ v \in Instances /\ v.bean = c)
<1>1. CASE Instance(v)
  <2>1. v \in Instances /\ v.bean \in Beans
    BY <1>1 DEF Instance, Instances
  <2>2. handed' = [handed EXCEPT ![v.bean] = @ \cup {v}]
    BY <1>1 DEF Return
  <2> QED
    BY <2>1, <2>2 DEF Kept
<1>2. CASE ~Instance(v)
  BY <1>2 DEF Return, Kept
<1> QED
  BY <1>1, <1>2

-----------------------------------------------------------------------------
(* The five parts of the invariant under what most actions do.             *)

LEMMA TurnsStays ==
  ASSUME Turns, graph' = graph, created' = created, beans' = beans, phase' \in {phase, "dead"},
         Busy(Boot)' => Busy(Boot) /\ frames'[Boot][1].bean = frames[Boot][1].bean
  PROVE  Turns'
<1>1. \A b : Early(b)' = Early(b)
  BY GraphStays DEF Early
<1> QED
  BY <1>1 DEF Turns

LEMMA AgreeStays ==
  ASSUME Agree, graph' = graph, beans' = beans,
         NEW v, \A c \in Beans : \A w \in handed'[c] : w \in handed[c] \/ (w = v /\ (Sole(c) => v = beans[c])),
         \A c \in Beans : Sole(c) =>
           \/ inst'[c] = inst[c] /\ once'[c] = once[c] /\ failed'[c] = failed[c]
           \/ once'[c] \notin {"new", "done"}
           \/ once'[c] = "done" /\ (failed'[c] \/ inst'[c] = Nil)
  PROVE  Agree'
<1> SUFFICES ASSUME NEW c \in Beans, Sole(c)
             PROVE  /\ \A w \in handed'[c] : w = beans[c]
                    /\ once'[c] = "new" /\ beans[c] = Nil => inst'[c] = Nil
                    /\ once'[c] = "done" /\ ~failed'[c] /\ inst'[c] # Nil => inst'[c] = beans[c]
  BY GraphStays DEF Agree
<1> QED
  BY DEF Agree

LEMMA NilIsNone == Nil \notin Instances /\ Err \notin Instances /\ Panicked \notin Instances
BY ContainerAssumption DEF Instances

\* Nothing is being resolved.
LEMMA NobodyOwned ==
  ASSUME \A u \in All : frames'[u] = <<>>
  PROVE  Owned'
BY DEF Owned

\* A call inside the Once of its bean.
LEMMA InsideOwned ==
  ASSUME Stacked, Owned, NEW t \in All, Busy(t), NEW g \in Frames,
         frames' = [frames EXCEPT ![t][Len(frames[t])] = g],
         graph' = graph, beans' = beans, g.bean = Top(t).bean, Inside(g), g.pc # "singleton",
         \A c \in Beans : Sole(c) =>
           \/ inst'[c] = inst[c] /\ once'[c] = once[c] /\ c # g.bean
           \/ /\ c = g.bean /\ once'[c] = t /\ t # "new" /\ beans[c] = Nil
              /\ g.pc # "publish" => inst'[c] = Nil
              /\ (once[c] = "new" /\ "new" \notin All) \/ Inside(Top(t))
  PROVE  Owned'
<1> DEFINE n == Len(frames[t])
<1>1. n \in Nat \ {0} /\ Top(t) = frames[t][n] /\ DOMAIN frames[t] = 1..n
  BY TopIsLast DEF Stacked
<1>2. /\ frames' \in [All -> Seq(Frames)] /\ \A u \in All \ {t} : frames'[u] = frames[u]
      /\ Len(frames'[t]) = n /\ frames'[t][n] = g
      /\ \A i \in 1..(n - 1) : frames'[t][i] = frames[t][i]
  BY TopGoesOn DEF Stacked
<1>3. DOMAIN frames'[t] = 1..n
  BY <1>2, LenProperties
<1>4. ASSUME NEW u \in All, NEW i \in DOMAIN frames'[u], u # t \/ i # n
      PROVE  i \in DOMAIN frames[u] /\ frames'[u][i] = frames[u][i]
  <2>1. u = t => i \in 1..(n - 1)
    BY <1>1, <1>3, <1>4
  <2> QED
    BY <2>1, <1>1, <1>2
<1>5. n \in DOMAIN frames[t]
  BY <1>1
<1> SUFFICES ASSUME NEW c \in Beans, Sole(c), NEW u \in All, NEW i \in DOMAIN frames'[u], frames'[u][i].bean = c
             PROVE  /\ Inside(frames'[u][i]) =>
                         /\ once'[c] = u /\ beans[c] = Nil
                         /\ frames'[u][i].pc # "publish" => inst'[c] = Nil
                         /\ \A j \in DOMAIN frames'[u] : Inside(frames'[u][j]) /\ frames'[u][j].bean = c => j = i
                    /\ frames'[u][i].pc = "singleton" /\ once'[c] = "new" => beans[c] = Nil
  BY GraphStays DEF Owned, Inside
<1>6. CASE c # g.bean
  <2>1. inst'[c] = inst[c] /\ once'[c] = once[c]
    BY <1>6
  <2>2. \A j \in DOMAIN frames'[u] : frames'[u][j].bean = c => j \in DOMAIN frames[u] /\ frames'[u][j] = frames[u][j]
    BY <1>2, <1>4, <1>6
  <2> QED
    BY <2>1, <2>2 DEF Owned
<1>7. CASE c = g.bean
  <2>1. /\ once'[c] = t /\ t # "new" /\ beans[c] = Nil /\ (g.pc # "publish" => inst'[c] = Nil)
        /\ (once[c] = "new" /\ "new" \notin All) \/ Inside(Top(t))
    BY <1>7
  <2>2. \A w \in All : \A j \in DOMAIN frames'[w] : Inside(frames'[w][j]) /\ frames'[w][j].bean = c => w = t /\ j = n
    <3> SUFFICES ASSUME NEW w \in All, NEW j \in DOMAIN frames'[w], Inside(frames'[w][j]), frames'[w][j].bean = c,
                        w # t \/ j # n
                 PROVE  FALSE
      OBVIOUS
    <3>1. j \in DOMAIN frames[w] /\ Inside(frames[w][j]) /\ frames[w][j].bean = c
      BY <1>4
    <3>2. once[c] = w
      BY <3>1 DEF Owned
    <3>3. Inside(frames[t][n]) /\ frames[t][n].bean = c
      BY <2>1, <3>2, <1>1, <1>7
    <3>4. once[c] = t /\ \A k \in DOMAIN frames[t] : Inside(frames[t][k]) /\ frames[t][k].bean = c => k = n
      BY <3>3, <1>5 DEF Owned
    <3> QED
      BY <3>1, <3>2, <3>4
  <2>3. Inside(frames'[u][i]) => u = t /\ i = n /\ frames'[u][i] = g
    BY <2>2, <1>2
  <2>4. Inside(frames'[u][i]) => \A j \in DOMAIN frames'[u] : Inside(frames'[u][j]) /\ frames'[u][j].bean = c => j = i
    BY <2>2, <2>3
  <2> QED
    BY <2>1, <2>3, <2>4
<1> QED
  BY <1>6, <1>7

-----------------------------------------------------------------------------
(* The actions.                                                            *)

LEMMA TopOf ==
  ASSUME Stacked, NEW t \in All, Busy(t)
  PROVE  /\ Len(frames[t]) \in DOMAIN frames[t] /\ Top(t) = frames[t][Len(frames[t])]
         /\ Top(t) \in Frames /\ FrameOK(graph, Top(t))
         /\ Top(t).eager <=> t = Boot /\ Len(frames[t]) = 1
         /\ phase = IF t = Boot THEN "boot" ELSE "up"
<1>1. Top(t) \in Frames /\ Len(frames[t]) \in DOMAIN frames[t] /\ Top(t) = frames[t][Len(frames[t])]
  BY TopIsLast DEF Stacked
<1>2. /\ FrameOK(graph, frames[t][Len(frames[t])])
      /\ frames[t][Len(frames[t])].eager <=> t = Boot /\ Len(frames[t]) = 1
      /\ phase = IF t = Boot THEN "boot" ELSE "up"
  BY <1>1 DEF Stacked
<1> QED
  BY <1>1, <1>2

LEMMA ToPcGoesOn ==
  ASSUME Stacked, NEW t \in All, Busy(t), NEW pc \in Making \cup {"publish"}, ToPc(t, pc), pc # "waits",
         pc = "match" => FALSE, pc = "publish" => Scope[Top(t).bean] = "singleton" /\ ~Top(t).eager
  PROVE  LET g == [Top(t) EXCEPT !.pc = pc]
         IN  /\ frames' = [frames EXCEPT ![t][Len(frames[t])] = g]
             /\ g \in Frames /\ FrameOK(graph, g) /\ g.pc = pc
             /\ g.bean = Top(t).bean /\ g.eager = Top(t).eager
<1> DEFINE g == [Top(t) EXCEPT !.pc = pc]
<1>1. Top(t) \in Frames /\ Top(t) = frames[t][Len(frames[t])] /\ FrameOK(graph, Top(t))
  BY TopOf
<1>2. g \in Frames /\ g.pc = pc /\ g.bean = Top(t).bean /\ g.eager = Top(t).eager /\ g.todo = Top(t).todo
  BY <1>1 DEF Frames
<1>3. FrameOK(graph, g)
  BY <1>1, <1>2 DEF FrameOK, Making, Scope
<1>4. frames' = [frames EXCEPT ![t][Len(frames[t])] = g]
  BY <1>1 DEF ToPc
<1> QED
  BY <1>2, <1>3, <1>4

\* The call at the top goes on and only the matches may have changed.
LEMMA GoesOnStep ==
  ASSUME ContainerInv, NEW t \in All, Busy(t), NEW g \in Frames,
         frames' = [frames EXCEPT ![t][Len(frames[t])] = g],
         FrameOK(graph, g), g.pc # "waits", g.bean = Top(t).bean, g.eager = Top(t).eager,
         Sole(g.bean) /\ Inside(g) => Inside(Top(t)) /\ Top(t).pc # "publish", g.pc # "singleton",
         UNCHANGED <<confVars, beans, defVars, registry, made, handed>>, Matched'
  PROVE  ContainerInv'
<1> USE DEF ContainerInv
<1>1. /\ graph' = graph /\ phase' = phase /\ created' = created /\ beans' = beans
      /\ inst' = inst /\ once' = once /\ failed' = failed
  BY DEF confVars, defVars
<1>2. Stacked'
  BY <1>1, GoesOnStacked
<1>3. Reached' /\ (Busy(Boot)' => Busy(Boot) /\ frames'[Boot][1].bean = frames[Boot][1].bean)
  BY <1>1, GoesOnReached
<1>4. Owned'
  BY <1>1, GoesOnOwned
<1>5. Turns'
  BY <1>1, <1>3, TurnsStays
<1>6. Agree'
  BY <1>1, AgreeStays
<1>7. Kept'
  BY <1>1 DEF Kept
<1> QED
  BY <1>2, <1>3, <1>4, <1>5, <1>6, <1>7

LEMMA CallStep ==
  ASSUME ContainerInv, NEW t \in All, Busy(t), NEW b \in Needs(Top(t).bean), Descend(t, b),
         Top(t).todo # <<>>, Top(t).pc \in Making,
         UNCHANGED <<confVars, beans, defVars, registry, made>>, Matched'
  PROVE  ContainerInv'
<1> USE DEF ContainerInv
<1>1. /\ graph' = graph /\ phase' = phase /\ created' = created /\ beans' = beans
      /\ inst' = inst /\ once' = once /\ failed' = failed /\ handed' = handed
  BY DEF confVars, defVars, Descend
<1>2. b \in Beans
  BY DEF Needs
<1>3. Stacked'
  BY <1>1, <1>2, CallsStacked
<1>4. Reached' /\ (Busy(Boot)' => Busy(Boot) /\ frames'[Boot][1].bean = frames[Boot][1].bean)
  BY <1>1, <1>2, CallsReached
<1>5. Owned'
  BY <1>1, <1>2, CallsOwned
<1>6. Turns'
  BY <1>1, <1>4, TurnsStays
<1>7. Agree'
  BY <1>1, AgreeStays
<1>8. Kept'
  BY <1>1 DEF Kept
<1> QED
  BY <1>3, <1>4, <1>5, <1>6, <1>7, <1>8

LEMMA ReturnStep ==
  ASSUME Kept, Stacked, Reached, Owned, Turns, Agree, NEW t \in All, Busy(t),
         NEW v \in Instances \cup {Nil, Err, Panicked}, Return(t, v),
         v \in Instances /\ Sole(v.bean) => v = beans[v.bean],
         UNCHANGED <<confVars, beans, defVars, registry, typeMatches, made, faults>>
  PROVE  ContainerInv'
<1> USE DEF confVars, defVars
<1>1. /\ handed' \in [Beans -> SUBSET Instances]
      /\ \A c \in Beans : \A w \in handed'[c] : w \in handed[c] \/ (w = v /\ v \in Instances /\ v.bean = c)
  BY HandsOut
<1>2. Kept'
  BY <1>1 DEF Kept, Matched, OfType
<1>3. Stacked'
  BY ReturnsStacked
<1>4. Reached' /\ (Busy(Boot)' => Busy(Boot) /\ frames'[Boot][1].bean = frames[Boot][1].bean)
  BY ReturnsReached
<1>5. Turns'
  BY <1>4, TurnsStays
<1>6. Owned'
  BY ReturnsOwned
<1>7. Agree'
  BY <1>1, AgreeStays
<1> QED
  BY <1>2, <1>3, <1>4, <1>5, <1>6, <1>7 DEF ContainerInv

LEMMA LookupStep ==
  ASSUME ContainerInv, NEW t \in All, Lookup(t)
  PROVE  ContainerInv'
<1> USE DEF ContainerInv
<1> DEFINE f == Top(t) b == f.bean
           g == [f EXCEPT !.stack = @ \cup {b}, !.pc = Scope[b]]
<1>1. Busy(t) /\ f.pc = "lookup" /\ UNCHANGED <<confVars, beans, defVars, registry, typeMatches, made, faults>>
  BY DEF Lookup, At
<1>2. f \in Frames /\ b \in Beans /\ FrameOK(graph, f) /\ ~f.eager
  <2>1. f \in Frames /\ Len(frames[t]) \in DOMAIN frames[t] /\ f = frames[t][Len(frames[t])]
    BY <1>1, TopIsLast DEF Stacked
  <2>2. FrameOK(graph, f)
    BY <2>1 DEF Stacked
  <2> QED
    BY <1>1, <2>1, <2>2 DEF FrameOK, Frames, Making
<1>3. CASE beans[b] # Nil
  <2>1. Return(t, beans[b])
    BY <1>3 DEF Lookup
  <2>2. beans[b] \in Instances /\ beans[b].bean = b
    BY <1>2, <1>3 DEF Kept
  <2> QED
    BY <1>1, <2>1, <2>2, ReturnStep
<1>4. CASE beans[b] = Nil /\ b \in f.stack
  <2>1. Return(t, Err)
    BY <1>4 DEF Lookup
  <2> QED
    BY <1>1, <2>1, ReturnStep, NilIsNone
<1>5. CASE beans[b] = Nil /\ b \notin f.stack
  <2>1. frames' = [frames EXCEPT ![t][Len(frames[t])] = g] /\ handed' = handed
    BY <1>5 DEF Lookup
  <2>2. Scope[b] \in {"singleton", "prototype", "request"}
    BY <1>2, ScopeType
  <2>3. g \in Frames /\ g.bean = b /\ g.eager = f.eager /\ g.pc = Scope[b] /\ g.todo = f.todo
    BY <1>2, <2>2 DEF Frames, Outside
  <2>4. FrameOK(graph, g)
    BY <1>2, <2>2, <2>3 DEF FrameOK, Scope
  <2> HIDE DEF g
  <2>5. graph' = graph /\ phase' = phase /\ created' = created /\ beans' = beans /\ inst' = inst /\ once' = once /\ failed' = failed
    BY <1>1 DEF confVars, defVars
  <2>6. Stacked'
    BY <1>1, <2>1, <2>2, <2>3, <2>4, <2>5, GoesOnStacked
  <2>7. Reached' /\ (Busy(Boot)' => Busy(Boot) /\ frames'[Boot][1].bean = frames[Boot][1].bean)
    BY <1>1, <2>1, <2>3, <2>5, GoesOnReached
  <2>8. ~Inside(g)
    BY <2>2, <2>3 DEF Inside, Outside
  <2>9. Owned'
    BY <1>1, <1>5, <2>1, <2>3, <2>5, <2>8, GoesOnOwned
  <2>10. Turns'
    BY <2>5, <2>7, TurnsStays
  <2>11. Agree'
    BY <2>1, <2>5, AgreeStays
  <2>12. Kept'
    BY <1>1, <2>1 DEF Kept, Matched, OfType, confVars, defVars
  <2> QED
    BY <2>6, <2>7, <2>9, <2>10, <2>11, <2>12
<1> QED
  BY <1>3, <1>4, <1>5

LEMMA SingletonStep ==
  ASSUME ContainerInv, NEW t \in All, resolveSingletonBean(t)
  PROVE  ContainerInv'
<1> USE DEF ContainerInv
<1> DEFINE f == Top(t) b == f.bean
<1>1. /\ Busy(t) /\ f.pc = "singleton"
      /\ UNCHANGED <<confVars, beans, inst, failed, registry, typeMatches, made, faults>>
  BY DEF resolveSingletonBean, At
<1>2. /\ f \in Frames /\ b \in Beans /\ FrameOK(graph, f) /\ ~f.eager /\ f = frames[t][Len(frames[t])]
      /\ Len(frames[t]) \in DOMAIN frames[t]
  BY <1>1, TopOf DEF FrameOK, Frames, Making
<1>3. CASE once[b] = "new" /\ once' = [once EXCEPT ![b] = t] /\ ToPc(t, "make") /\ handed' = handed
  <2> DEFINE g == [f EXCEPT !.pc = "make"]
  <2>1. /\ frames' = [frames EXCEPT ![t][Len(frames[t])] = g]
        /\ g \in Frames /\ FrameOK(graph, g) /\ g.pc = "make" /\ g.bean = b /\ g.eager = f.eager
    BY <1>1, <1>3, ToPcGoesOn DEF Making
  <2> HIDE DEF g
  <2>2. /\ graph' = graph /\ phase' = phase /\ created' = created /\ beans' = beans
        /\ inst' = inst /\ failed' = failed
    BY <1>1 DEF confVars
  <2>3. Stacked'
    BY <1>1, <2>1, <2>2, GoesOnStacked
  <2>4. Reached' /\ (Busy(Boot)' => Busy(Boot) /\ frames'[Boot][1].bean = frames[Boot][1].bean)
    BY <1>1, <2>1, <2>2, GoesOnReached
  <2>5. once' \in [Beans -> {"new", "done"} \cup All] /\ once'[b] = t /\ \A c \in Beans \ {b} : once'[c] = once[c]
    BY <1>2, <1>3 DEF Kept
  <2>6. t # "new" /\ "new" \notin All /\ t \notin {"new", "done"}
    BY ContainerAssumption DEF All
  <2>7. Sole(b) => beans[b] = Nil /\ inst[b] = Nil
    BY <1>1, <1>2, <1>3 DEF Owned, Agree
  <2>8. Inside(g) /\ g.pc # "singleton"
    BY <1>2, <2>1 DEF Inside, Outside
  <2>9. ASSUME NEW c \in Beans, Sole(c)
        PROVE  \/ inst'[c] = inst[c] /\ once'[c] = once[c] /\ c # g.bean
               \/ /\ c = g.bean /\ once'[c] = t /\ t # "new" /\ beans[c] = Nil
                  /\ g.pc # "publish" => inst'[c] = Nil
                  /\ (once[c] = "new" /\ "new" \notin All) \/ Inside(Top(t))
    BY <1>3, <2>1, <2>2, <2>5, <2>6, <2>7, <2>9
  <2>10. Owned'
    BY <1>1, <2>1, <2>2, <2>8, <2>9, InsideOwned
  <2>11. Turns'
    BY <2>2, <2>4, TurnsStays
  <2>12. Agree'
    BY <1>3, <2>2, <2>5, <2>6, AgreeStays
  <2>13. Kept'
    BY <1>1, <1>3, <2>2, <2>5 DEF Kept, Matched, OfType
  <2> QED
    BY <2>3, <2>4, <2>10, <2>11, <2>12, <2>13
<1>4. CASE once[b] = "done" /\ Return(t, IF failed[b] THEN Err ELSE inst[b]) /\ once' = once
  <2>1. PICK v : v = IF failed[b] THEN Err ELSE inst[b]
    OBVIOUS
  <2>2. v \in Instances \cup {Nil, Err, Panicked} /\ (v \in Instances => v = inst[b] /\ inst[b] # Nil /\ ~failed[b] /\ v.bean = b)
    BY <1>2, <2>1, NilIsNone DEF Kept
  <2>3. v \in Instances /\ Sole(v.bean) => v = beans[v.bean]
    BY <1>2, <1>4, <2>2 DEF Agree
  <2>4. UNCHANGED <<confVars, beans, defVars, registry, typeMatches, made, faults>>
    BY <1>1, <1>4 DEF defVars
  <2> QED
    BY <1>1, <1>4, <2>1, <2>2, <2>3, <2>4, ReturnStep
<1> QED
  BY <1>3, <1>4 DEF resolveSingletonBean

LEMMA PrototypeStep ==
  ASSUME ContainerInv, NEW t \in All, resolvePrototype(t)
  PROVE  ContainerInv'
<1> DEFINE f == Top(t) g == [f EXCEPT !.pc = "make"]
<1>1. Busy(t) /\ f.pc = "prototype" /\ ToPc(t, "make") /\ UNCHANGED <<confVars, beans, defVars, registry, typeMatches, histVars>>
  BY DEF resolvePrototype, At
<1>2. FrameOK(graph, f)
  BY <1>1, TopOf DEF ContainerInv
<1>3. /\ frames' = [frames EXCEPT ![t][Len(frames[t])] = g]
      /\ g \in Frames /\ FrameOK(graph, g) /\ g.pc = "make" /\ g.bean = f.bean /\ g.eager = f.eager
  BY <1>1, ToPcGoesOn DEF Making, ContainerInv
<1>4. ~Sole(f.bean)
  BY <1>1, <1>2 DEF FrameOK, Sole, Scope
<1>5. Matched' /\ UNCHANGED <<made, handed>>
  BY <1>1 DEF ContainerInv, Kept, Matched, OfType, histVars
<1> HIDE DEF g
<1> QED
  BY <1>1, <1>3, <1>4, <1>5, GoesOnStep

LEMMA RequestStep ==
  ASSUME ContainerInv, NEW t \in All, resolveRequestBean(t)
  PROVE  ContainerInv'
<1> DEFINE f == Top(t) g == [f EXCEPT !.pc = "make"] held == registry[t][f.bean]
<1>1. Busy(t) /\ f.pc = "request" /\ UNCHANGED <<confVars, beans, defVars, registry, typeMatches, made, faults>>
  BY DEF resolveRequestBean, At
<1>2. f \in Frames /\ f.bean \in Beans /\ FrameOK(graph, f)
  BY <1>1, TopOf DEF ContainerInv, Frames
<1>3. ~Sole(f.bean)
  BY <1>1, <1>2 DEF FrameOK, Sole, Scope
<1>4. CASE Return(t, Err)
  BY <1>1, <1>4, ReturnStep, NilIsNone DEF ContainerInv
<1>5. CASE held # Nil /\ Return(t, held)
  <2>1. held \in Instances /\ held.bean = f.bean
    BY <1>2, <1>5 DEF ContainerInv, Kept
  <2> QED
    BY <1>1, <1>3, <1>5, <2>1, ReturnStep DEF ContainerInv
<1>6. CASE ToPc(t, "make") /\ handed' = handed
  <2>1. /\ frames' = [frames EXCEPT ![t][Len(frames[t])] = g]
        /\ g \in Frames /\ FrameOK(graph, g) /\ g.pc = "make" /\ g.bean = f.bean /\ g.eager = f.eager
    BY <1>1, <1>6, ToPcGoesOn DEF Making, ContainerInv
  <2>2. Matched'
    BY <1>1 DEF ContainerInv, Kept, Matched, OfType
  <2> HIDE DEF g
  <2> QED
    BY <1>1, <1>3, <1>6, <2>1, <2>2, GoesOnStep
<1> QED
  BY <1>4, <1>5, <1>6 DEF resolveRequestBean

\* The beans of a type, or the one that has its name, are what a dependency by type needs.
LEMMA ByTypeStep ==
  ASSUME ContainerInv, NEW t \in All, Busy(t), Top(t).pc \in {"make", "match"}, Top(t).todo # <<>>,
         Head(Top(t).todo).by = "type", NEW matches, matches \subseteq OfType(Head(Top(t).todo).on),
         ByType(t, matches, Head(Top(t).todo).on),
         UNCHANGED <<confVars, beans, defVars, registry, made>>, Matched'
  PROVE  ContainerInv'
<1> DEFINE f == Top(t) d == Head(f.todo)
<1>1. f \in Frames /\ f.bean \in Beans /\ FrameOK(graph, f)
  BY TopOf DEF ContainerInv, Frames
<1>2. d \in NeedsOf(f.bean)
  BY <1>1, HeadTailProperties DEF FrameOK, NeedsOf
<1>3. matches \subseteq Needs(f.bean)
  BY <1>2 DEF OfType, Needs, NeedsOf
<1>4. CASE \E b \in matches : Descend(t, b)
  BY <1>3, <1>4, CallStep DEF Making
<1>5. CASE ToPc(t, "fail") /\ handed' = handed
  <2> DEFINE g == [f EXCEPT !.pc = "fail"]
  <2>1. /\ frames' = [frames EXCEPT ![t][Len(frames[t])] = g]
        /\ g \in Frames /\ FrameOK(graph, g) /\ g.pc = "fail" /\ g.bean = f.bean /\ g.eager = f.eager
    BY <1>5, ToPcGoesOn DEF Making, ContainerInv
  <2>2. Inside(g) => Inside(f) /\ f.pc # "publish"
    BY <2>1 DEF Inside, Outside
  <2> HIDE DEF g
  <2> QED
    BY <1>5, <2>1, <2>2, GoesOnStep
<1> QED
  BY <1>4, <1>5 DEF ByType

LEMMA NextDependencyStep ==
  ASSUME ContainerInv, NEW t \in All, NextDependency(t)
  PROVE  ContainerInv'
<1> DEFINE f == Top(t) d == Head(f.todo)
           g == [f EXCEPT !.pc = "match", !.seen = Matches(d.on)]
<1>1. /\ Busy(t) /\ f.pc = "make" /\ f.todo # <<>>
      /\ UNCHANGED <<confVars, beans, defVars, registry, typeMatches, made, faults>>
  BY DEF NextDependency, At
<1>2. f \in Frames /\ f.bean \in Beans /\ FrameOK(graph, f)
  BY <1>1, TopOf DEF ContainerInv, Frames
<1>3. d \in NeedsOf(f.bean) /\ d \in Dependencies
  <2>1. f.todo \in Seq(NeedsOf(f.bean))
    BY <1>2 DEF FrameOK, NeedsOf
  <2>2. NeedsOf(f.bean) \subseteq Dependencies
    BY <1>2, DepsType DEF ContainerInv
  <2> QED
    BY <1>1, <2>1, <2>2, HeadTailProperties
<1>4. Matched'
  BY <1>1 DEF ContainerInv, Kept, Matched, OfType
<1>5. CASE d.by = "name" /\ Descend(t, d.on)
  <2>1. d.on \in Needs(f.bean)
    BY <1>3, <1>5 DEF Needs, NeedsOf, Dependencies
  <2> QED
    BY <1>1, <1>4, <1>5, <2>1, CallStep DEF Making
<1>6. CASE d.by = "type" /\ typeMatches[d.on] # Nil /\ ByType(t, typeMatches[d.on], d.on)
  <2>1. d.on \in Types
    BY <1>3, <1>6 DEF Dependencies
  <2>2. typeMatches[d.on] \subseteq OfType(d.on)
    BY <1>6, <2>1 DEF ContainerInv, Kept, Matched
  <2> QED
    BY <1>1, <1>4, <1>6, <2>2, ByTypeStep
<1>7. CASE d.by # "name" /\ frames' = [frames EXCEPT ![t][Len(frames[t])] = g] /\ handed' = handed
  <2>1. Matches(d.on) \subseteq OfType(d.on) /\ Matches(d.on) \in SUBSET Beans
    BY DEF Matches, OfType
  <2>2. /\ g \in Frames /\ g.pc = "match" /\ g.bean = f.bean /\ g.eager = f.eager /\ g.todo = f.todo
        /\ g.seen = Matches(d.on)
    BY <1>2, <2>1 DEF Frames, Making
  <2>3. d.by = "type"
    BY <1>3, <1>7 DEF Dependencies
  <2>4. FrameOK(graph, g)
    BY <1>1, <1>2, <2>1, <2>2, <2>3 DEF FrameOK, Making
  <2>5. Inside(g) => Inside(f) /\ f.pc # "publish"
    BY <1>1, <2>2 DEF Inside, Outside
  <2> HIDE DEF g
  <2> QED
    BY <1>1, <1>4, <1>7, <2>2, <2>4, <2>5, GoesOnStep
<1>8. d.by = "name" \/ d.by = "type"
  BY <1>3 DEF Dependencies
<1> QED
  BY <1>5, <1>6, <1>7, <1>8 DEF NextDependency

LEMMA StoreMatchesStep ==
  ASSUME ContainerInv, NEW t \in All, StoreMatches(t)
  PROVE  ContainerInv'
<1> DEFINE f == Top(t) y == Head(f.todo).on
           matches == IF typeMatches[y] = Nil THEN f.seen ELSE typeMatches[y]
<1>1. /\ Busy(t) /\ f.pc = "match" /\ ByType(t, matches, y)
      /\ typeMatches' = [typeMatches EXCEPT ![y] = matches]
      /\ UNCHANGED <<confVars, beans, defVars, registry, made, faults>>
  BY DEF StoreMatches, At
<1>2. f \in Frames /\ f.bean \in Beans /\ FrameOK(graph, f)
  BY <1>1, TopOf DEF ContainerInv, Frames
<1>3. f.todo # <<>> /\ Head(f.todo).by = "type" /\ f.seen \subseteq OfType(y)
  BY <1>1, <1>2 DEF FrameOK
<1>4. y \in Types
  <2>1. Head(f.todo) \in Dependencies
    BY <1>2, <1>3, HeadTailProperties DEF Frames
  <2> QED
    BY <1>3, <2>1 DEF Dependencies
<1>5. matches \subseteq OfType(y)
  BY <1>3, <1>4 DEF ContainerInv, Kept, Matched
<1>6. Matched'
  <2>1. matches \in SUBSET Beans /\ typeMatches \in [Types -> (SUBSET Beans) \cup {Nil}]
        /\ \A z \in Types : typeMatches[z] # Nil => typeMatches[z] \subseteq OfType(z)
    BY <1>5 DEF OfType, ContainerInv, Kept, Matched
  <2> HIDE DEF matches, y
  <2> QED
    BY <1>1, <1>4, <1>5, <2>1 DEF Matched, OfType
<1> QED
  BY <1>1, <1>3, <1>5, <1>6, ByTypeStep

LEMMA FaultStep ==
  ASSUME ContainerInv, NEW t \in All, FactoryErrs(t) \/ FactoryPanics(t)
  PROVE  ContainerInv'
<1>1. PICK pc \in {"fail", "panic"} : ToPc(t, pc)
  BY DEF FactoryErrs, FactoryPanics
<1> DEFINE f == Top(t) g == [f EXCEPT !.pc = pc]
<1>2. /\ Busy(t) /\ f.pc = "make"
      /\ UNCHANGED <<confVars, beans, defVars, registry, typeMatches, made, handed>>
  BY DEF FactoryErrs, FactoryPanics, Ready, At
<1>3. /\ frames' = [frames EXCEPT ![t][Len(frames[t])] = g]
      /\ g \in Frames /\ FrameOK(graph, g) /\ g.pc = pc /\ g.bean = f.bean /\ g.eager = f.eager
  <2>1. pc \in Making \cup {"publish"} /\ pc # "waits" /\ pc # "match" /\ pc # "publish"
    BY DEF Making
  <2> QED
    BY <1>1, <1>2, <2>1, ToPcGoesOn DEF ContainerInv
<1>4. Inside(g) => Inside(f) /\ f.pc # "publish"
  BY <1>2, <1>3 DEF Inside, Outside
<1>5. Matched'
  BY <1>2 DEF ContainerInv, Kept, Matched, OfType
<1> HIDE DEF g
<1> QED
  BY <1>2, <1>3, <1>4, <1>5, GoesOnStep

\* What a factory makes.
LEMMA FreshType ==
  ASSUME Kept, NEW b \in Beans
  PROVE  Fresh(b) \in Instances /\ Fresh(b).bean = b
<1>1. made[b] \in 0..1
  BY DEF Kept
<1>2. (IF Scope[b] = "singleton" THEN made[b] + 1 ELSE 0) \in 0..2
  BY <1>1
<1> QED
  BY <1>2 DEF Fresh, Instances

\* InitializeAllBeans registers what the factory made: nothing had been made for
\* that bean, unless an earlier factory can have needed it.
LEMMA EagerStep ==
  ASSUME ContainerInv, NEW t \in All, FactorySucceeds(t), Top(t).eager
  PROVE  ContainerInv'
<1> USE DEF ContainerInv
<1> DEFINE f == Top(t) b == f.bean i == Fresh(b)
<1>2. /\ Busy(t) /\ f \in Frames /\ b \in Beans /\ b \in Legacy /\ f = frames[t][Len(frames[t])]
      /\ t = Boot /\ Len(frames[t]) = 1 /\ phase = "boot"
  <2>1. Busy(t)
    BY DEF FactorySucceeds, Ready, At
  <2> QED
    BY <2>1, TopOf DEF FrameOK, Frames
<1>1. /\ Busy(t) /\ beans' = [beans EXCEPT ![b] = i] /\ typeMatches' = [y \in Types |-> Nil]
      /\ created' = created \cup {b} /\ Return(t, i)
      /\ made' = [made EXCEPT ![b] = IF Scope[b] = "singleton" THEN 1 ELSE 0]
      /\ UNCHANGED <<graph, phase, inst, once, failed, registry, faults>>
  <2>1. Scope[b] = "singleton"
    BY <1>2, ScopeType
  <2> HIDE DEF i
  <2> QED
    BY <1>2, <2>1 DEF FactorySucceeds, i
<1>3. i \in Instances /\ i.bean = b
  BY <1>2, FreshType
<1>4. /\ handed' \in [Beans -> SUBSET Instances]
      /\ \A c \in Beans : \A w \in handed'[c] : w \in handed[c] \/ (w = i /\ i.bean = c)
  BY <1>1, <1>3, HandsOut
<1>5. \A u \in All : frames'[u] = <<>>
  <2>1. frames' \in [All -> Seq(Frames)] /\ Len(frames'[t]) = Len(frames[t]) - 1 /\ \A u \in All \ {t} : frames'[u] = frames[u]
    BY <1>1, TopReturns
  <2>4. Len(frames'[t]) = 0
    BY <2>1, <1>2
  <2>2. frames'[t] = <<>>
    BY <2>1, <2>4, EmptySeq
  <2>3. ASSUME NEW u \in All \ {t} PROVE frames[u] = <<>>
    <3> SUFFICES ASSUME Busy(u) PROVE FALSE
      BY DEF Busy
    <3>1. phase = "up"
      BY TopOf, <1>2
    <3> QED
      BY <3>1, <1>2
  <2> QED
    BY <2>1, <2>2, <2>3
<1>6. Boot \in All
  BY DEF All
<1>7. Stacked' /\ Reached'
  <2>1. frames' \in [All -> Seq(Frames)]
    BY <1>1, TopReturns
  <2>2. \A u \in All : DOMAIN frames'[u] = {}
    BY <1>5
  <2>3. Stacked'
    BY <2>1, <2>2 DEF Stacked
  <2>4. Reached'
    BY <1>5, <1>6 DEF Reached, Busy
  <2> QED
    BY <2>3, <2>4
<1>8. Owned'
  BY <1>5, NobodyOwned
<1>9. beans'[b] = i /\ \A c \in Beans \ {b} : beans'[c] = beans[c]
  BY <1>1, <1>2 DEF Kept
<1>10. Turns'
  <2>1. \A c : Early(c)' = Early(c)
    BY <1>1, GraphStays DEF Early
  <2> QED
    BY <2>1, <1>1, <1>5, <1>6, <1>9 DEF Turns, Busy, Legacy
<1>11. Sole(b) => beans[b] = Nil /\ handed[b] = {}
  <2>1. b \notin created
    BY <1>1, <1>2 DEF Turns
  <2>2. Sole(b) => beans[b] = Nil
    BY <2>1, <1>2 DEF Turns, Sole
  <2> QED
    BY <2>2, <1>2, NilIsNone DEF Agree, Kept
<1>12. Agree'
  <2> SUFFICES ASSUME NEW c \in Beans, Sole(c)
               PROVE  /\ \A w \in handed'[c] : w = beans'[c]
                      /\ once[c] = "new" /\ beans'[c] = Nil => inst[c] = Nil
                      /\ once[c] = "done" /\ ~failed[c] /\ inst[c] # Nil => inst[c] = beans'[c]
    BY <1>1, GraphStays DEF Agree
  <2>1. CASE c # b
    BY <2>1, <1>3, <1>4, <1>9 DEF Agree
  <2>2. CASE c = b
    BY <2>2, <1>3, <1>4, <1>9, <1>11, NilIsNone DEF Agree
  <2> QED
    BY <2>1, <2>2
<1>13. Kept'
  <2>1. beans' \in [Beans -> Instances \cup {Nil}] /\ \A c \in Beans : beans'[c] # Nil => beans'[c].bean = c
    BY <1>1, <1>2, <1>3, <1>9 DEF Kept
  <2>2. made' \in [Beans -> 0..1]
    BY <1>1, <1>2 DEF Kept
  <2>3. Matched'
    BY <1>1 DEF Matched
  <2>4. created' \subseteq Legacy
    BY <1>1, <1>2 DEF Kept
  <2> QED
    BY <1>1, <1>4, <2>1, <2>2, <2>3, <2>4 DEF Kept, Legacy
<1> QED
  BY <1>7, <1>8, <1>10, <1>12, <1>13

LEMMA MadeStep ==
  ASSUME ContainerInv, NEW t \in All, FactorySucceeds(t), ~Top(t).eager
  PROVE  ContainerInv'
<1> USE DEF ContainerInv
<1> DEFINE f == Top(t) b == f.bean i == Fresh(b) g == [f EXCEPT !.pc = "publish"]
<1>9. Busy(t) /\ f.pc = "make"
  BY DEF FactorySucceeds, Ready, At
<1>8. Scope[b] \in {"singleton", "prototype", "request"}
  <2>1. b \in Beans
    BY <1>9, TopOf DEF Frames
  <2> QED
    BY <2>1, ScopeType
<1>1. /\ Busy(t) /\ f.pc = "make"
      /\ made' = [made EXCEPT ![b] = IF Scope[b] = "singleton" THEN 1 ELSE 0]
      /\ UNCHANGED <<graph, phase, created, once, failed, beans, typeMatches, faults>>
  BY <1>8, <1>9 DEF FactorySucceeds
<1>2. /\ f \in Frames /\ b \in Beans /\ FrameOK(graph, f) /\ f = frames[t][Len(frames[t])]
      /\ Len(frames[t]) \in DOMAIN frames[t]
  BY <1>1, TopOf DEF Frames
<1>3. i \in Instances /\ i.bean = b
  BY <1>2, FreshType
<1>4. made' \in [Beans -> 0..1]
  BY <1>1, <1>2 DEF Kept
<1>5. Matched'
  BY <1>1 DEF Kept, Matched, OfType
<1>6. CASE /\ Scope[b] = "singleton" /\ inst' = [inst EXCEPT ![b] = i] /\ ToPc(t, "publish")
           /\ registry' = registry /\ handed' = handed
  <2>1. /\ frames' = [frames EXCEPT ![t][Len(frames[t])] = g]
        /\ g \in Frames /\ FrameOK(graph, g) /\ g.pc = "publish" /\ g.bean = b /\ g.eager = f.eager
    BY <1>1, <1>6, ToPcGoesOn
  <2> HIDE DEF g
  <2>2. Stacked'
    BY <1>1, <2>1, GoesOnStacked
  <2>3. Reached' /\ (Busy(Boot)' => Busy(Boot) /\ frames'[Boot][1].bean = frames[Boot][1].bean)
    BY <1>1, <2>1, GoesOnReached
  <2>4. inst' \in [Beans -> Instances \cup {Nil}] /\ inst'[b] = i /\ \A c \in Beans \ {b} : inst'[c] = inst[c]
    BY <1>2, <1>3, <1>6 DEF Kept
  <2>5. Inside(f) /\ Inside(g) /\ g.pc # "singleton"
    BY <1>1, <2>1 DEF Inside, Outside
  <2>6. Sole(b) => once[b] = t /\ beans[b] = Nil
    BY <1>2, <2>5 DEF Owned
  <2>7. t \notin {"new", "done"}
    BY ContainerAssumption DEF All
  <2>8. ASSUME NEW c \in Beans, Sole(c)
        PROVE  \/ inst'[c] = inst[c] /\ once'[c] = once[c] /\ c # g.bean
               \/ /\ c = g.bean /\ once'[c] = t /\ t # "new" /\ beans[c] = Nil
                  /\ g.pc # "publish" => inst'[c] = Nil
                  /\ (once[c] = "new" /\ "new" \notin All) \/ Inside(Top(t))
    BY <1>1, <2>1, <2>4, <2>5, <2>6, <2>7, <2>8
  <2>9. Owned'
    BY <1>1, <2>1, <2>5, <2>8, InsideOwned
  <2>10. Turns'
    BY <1>1, <2>3, TurnsStays
  <2>11. Agree'
    <3>1. ASSUME NEW c \in Beans, Sole(c)
          PROVE  (inst'[c] = inst[c] /\ once'[c] = once[c] /\ failed'[c] = failed[c]) \/ once'[c] \notin {"new", "done"}
      BY <1>1, <2>4, <2>6, <2>7, <3>1
    <3> QED
      BY <3>1, <1>1, <1>6, AgreeStays
  <2>12. \A c \in Beans : inst'[c] # Nil => inst'[c].bean = c
    BY <2>4, <1>3 DEF Kept
  <2>13. Kept'
    BY <1>1, <1>4, <1>5, <1>6, <2>4, <2>12 DEF Kept
  <2> QED
    BY <2>2, <2>3, <2>9, <2>10, <2>11, <2>13
<1>7. CASE /\ Scope[b] # "singleton" /\ Return(t, i) /\ inst' = inst
           /\ registry' = registry \/ registry' = [registry EXCEPT ![t][b] = i]
  <2>1. /\ handed' \in [Beans -> SUBSET Instances]
        /\ \A c \in Beans : \A w \in handed'[c] : w \in handed[c] \/ (w = i /\ i.bean = c)
    BY <1>3, <1>7, HandsOut
  <2>2. ~Sole(b)
    BY <1>7 DEF Sole
  <2>3. Stacked'
    BY <1>1, <1>7, ReturnsStacked
  <2>4. Reached' /\ (Busy(Boot)' => Busy(Boot) /\ frames'[Boot][1].bean = frames[Boot][1].bean)
    BY <1>1, <1>7, ReturnsReached
  <2>5. Turns'
    BY <1>1, <2>4, TurnsStays
  <2>6. Owned'
    BY <1>1, <1>7, ReturnsOwned
  <2>7. Agree'
    BY <1>1, <1>3, <1>7, <2>1, <2>2, AgreeStays
  <2>8. /\ registry' \in [All -> [Beans -> Instances \cup {Nil}]]
        /\ \A c \in Beans : \A u \in All : registry'[u][c] # Nil => registry'[u][c].bean = c
    <3>1. PICK r \in [Beans -> Instances \cup {Nil}] : r = registry[t]
      BY DEF Kept
    <3>2. PICK s : s = [r EXCEPT ![b] = i]
      OBVIOUS
    <3>3. s \in [Beans -> Instances \cup {Nil}] /\ \A c \in Beans : s[c] # Nil => s[c].bean = c
      BY <1>2, <1>3, <3>1, <3>2 DEF Kept
    <3>4. registry' = registry \/ registry' = [registry EXCEPT ![t] = s]
      BY <1>7, <3>1, <3>2
    <3>5. registry \in [All -> [Beans -> Instances \cup {Nil}]] /\ \A c \in Beans : \A u \in All : registry[u][c] # Nil => registry[u][c].bean = c
      BY DEF Kept
    <3>6. CASE registry' = registry
      BY <3>5, <3>6
    <3>7. CASE registry' = [registry EXCEPT ![t] = s]
      <4>1. registry' \in [All -> [Beans -> Instances \cup {Nil}]] /\ registry'[t] = s /\ \A u \in All \ {t} : registry'[u] = registry[u]
        BY <3>3, <3>5, <3>7
      <4> QED
        BY <3>3, <3>5, <4>1
    <3> QED
      BY <3>4, <3>6, <3>7
  <2>9. Kept'
    BY <1>1, <1>4, <1>5, <1>7, <2>1, <2>8 DEF Kept
  <2> QED
    BY <2>3, <2>4, <2>5, <2>6, <2>7, <2>9
<1> QED
  BY <1>6, <1>7, <1>8 DEF FactorySucceeds

LEMMA FactorySucceedsStep ==
  ASSUME ContainerInv, NEW t \in All, FactorySucceeds(t)
  PROVE  ContainerInv'
BY EagerStep, MadeStep

\* The bootstrap publishes no plain bean whose turn is to come, unless one that may
\* have its turn before needs it.
LEMMA BootPublishes ==
  ASSUME ContainerInv, Busy(Boot), ~Top(Boot).eager, NEW b \in Legacy \ created, b = Top(Boot).bean
  PROVE  Early(b)
<1> USE DEF ContainerInv
<1> DEFINE n == Len(frames[Boot]) a == frames[Boot][1].bean
<1>1. Boot \in All
  BY DEF All
<1>2. n \in DOMAIN frames[Boot] /\ Top(Boot) = frames[Boot][n] /\ n # 1 /\ n \in Nat \ {0} /\ DOMAIN frames[Boot] = 1..n
  BY <1>1, TopOf, TopIsLast DEF Stacked
<1>3. n \in 2..n /\ 1 \in DOMAIN frames[Boot]
  <2>1. \A k \in Nat \ {0} : k # 1 => k \in 2..k /\ 1 \in 1..k
    OBVIOUS
  <2> QED
    BY <2>1, <1>2
<1>4. a \in Legacy /\ a \in Beans
  <2>1. frames[Boot][1].eager /\ FrameOK(graph, frames[Boot][1]) /\ frames[Boot][1] \in Frames
    BY <1>1, <1>3 DEF Stacked
  <2> QED
    BY <2>1 DEF FrameOK, Frames
<1>5. a \in Services => Repositories \subseteq created
  BY DEF Turns
<1> SUFFICES ASSUME NEW S \in SUBSET Beans,
                    \A x \in S \cup IF b \in Services THEN Legacy ELSE Repositories : Needs(x) \subseteq S
             PROVE  b \in S
  BY DEF Early
<1>6. a \in IF b \in Services THEN Legacy ELSE Repositories
  BY <1>4, <1>5 DEF Legacy
<1>7. \A x \in S \cup {a} : Needs(x) \subseteq S
  BY <1>6
<1> QED
  BY <1>2, <1>3, <1>4, <1>7 DEF Reached

LEMMA PublishStep ==
  ASSUME ContainerInv, NEW t \in All, Publish(t)
  PROVE  ContainerInv'
<1> USE DEF ContainerInv
<1> DEFINE f == Top(t) b == f.bean
<1>1. /\ Busy(t) /\ f.pc = "publish" /\ Return(t, inst[b])
      /\ beans' = [beans EXCEPT ![b] = inst[b]] /\ once' = [once EXCEPT ![b] = "done"]
      /\ UNCHANGED <<graph, phase, created, inst, failed, registry, typeMatches, made, faults>>
  BY DEF Publish, At, confVars
<1>2. /\ f \in Frames /\ b \in Beans /\ FrameOK(graph, f) /\ f = frames[t][Len(frames[t])]
      /\ Len(frames[t]) \in DOMAIN frames[t] /\ phase = IF t = Boot THEN "boot" ELSE "up"
  BY <1>1, TopOf DEF Frames
<1>3. Inside(f) /\ ~f.eager
  BY <1>1, <1>2 DEF FrameOK, Making, Inside, Outside
<1>4. inst[b] \in Instances \cup {Nil} /\ (inst[b] # Nil => inst[b].bean = b)
  BY <1>2 DEF Kept
<1>5. /\ handed' \in [Beans -> SUBSET Instances]
      /\ \A c \in Beans : \A w \in handed'[c] : w \in handed[c] \/ (w = inst[b] /\ c = b)
  <2>1. inst[b] \in Instances => inst[b].bean = b
    BY <1>4, NilIsNone
  <2> QED
    BY <1>1, <1>4, <2>1, HandsOut
<1>6. beans' \in [Beans -> Instances \cup {Nil}] /\ beans'[b] = inst[b] /\ \A c \in Beans \ {b} : beans'[c] = beans[c]
  BY <1>1, <1>2, <1>4 DEF Kept
<1>7. /\ once' \in [Beans -> {"new", "done"} \cup All] /\ once'[b] = "done"
      /\ \A c \in Beans \ {b} : once'[c] = once[c]
  BY <1>1, <1>2 DEF Kept
<1>8. Stacked'
  BY <1>1, ReturnsStacked
<1>9. Reached' /\ (Busy(Boot)' => Busy(Boot) /\ frames'[Boot][1].bean = frames[Boot][1].bean)
  BY <1>1, ReturnsReached
<1>10. Owned'
  <2>1. ASSUME NEW c \in Beans, Sole(c)
        PROVE  \/ beans'[c] = beans[c] /\ inst'[c] = inst[c] /\ once'[c] = once[c]
               \/ c = Top(t).bean /\ Inside(Top(t)) /\ once'[c] = "done"
    BY <1>1, <1>3, <1>6, <1>7
  <2> QED
    BY <2>1, <1>1, ReturnsOwned
<1>11. Turns'
  <2>1. \A c : Early(c)' = Early(c)
    BY <1>1, GraphStays DEF Early
  <2>2. ASSUME phase = "boot", NEW c \in Legacy \ created, ~Early(c) PROVE beans'[c] = Nil
    <3>1. c \in Beans
      BY <2>2, ContainerAssumption DEF Legacy
    <3>2. t = Boot
      BY <2>2, <1>2
    <3>3. c # b
      BY <2>2, <3>2, <1>1, <1>3, BootPublishes
    <3> QED
      BY <2>2, <3>1, <3>3, <1>6 DEF Turns
  <2> QED
    BY <2>1, <2>2, <1>1, <1>9 DEF Turns, Legacy
<1>12. Agree'
  <2> SUFFICES ASSUME NEW c \in Beans, Sole(c)
               PROVE  /\ \A w \in handed'[c] : w = beans'[c]
                      /\ once'[c] = "new" /\ beans'[c] = Nil => inst[c] = Nil
                      /\ once'[c] = "done" /\ ~failed[c] /\ inst[c] # Nil => inst[c] = beans'[c]
    BY <1>1, GraphStays DEF Agree
  <2>1. CASE c # b
    BY <2>1, <1>5, <1>6, <1>7 DEF Agree
  <2>2. CASE c = b
    <3>1. beans[b] = Nil
      BY <2>2, <1>2, <1>3 DEF Owned
    <3>2. handed[b] = {}
      BY <3>1, <2>2, <1>2, NilIsNone DEF Agree, Kept
    <3> QED
      BY <2>2, <3>2, <1>5, <1>6, <1>7
  <2> QED
    BY <2>1, <2>2
<1>13. Kept'
  <2>1. Matched'
    BY <1>1 DEF Kept, Matched, OfType
  <2>2. \A c \in Beans : beans'[c] # Nil => beans'[c].bean = c
    BY <1>4, <1>6 DEF Kept
  <2> QED
    BY <2>1, <2>2, <1>1, <1>5, <1>6, <1>7 DEF Kept
<1> QED
  BY <1>8, <1>9, <1>10, <1>11, <1>12, <1>13

\* A call ends with an error or a panic.
LEMMA FailureStep ==
  ASSUME ContainerInv, NEW t \in All, Fail(t) \/ Panic(t)
  PROVE  ContainerInv'
<1> USE DEF ContainerInv
<1> DEFINE f == Top(t) b == f.bean
<1>1. /\ Busy(t) /\ f.pc \in {"fail", "panic"}
      /\ UNCHANGED <<graph, created, beans, inst, registry, typeMatches, made, faults>>
      /\ phase' = phase \/ (f.eager /\ phase' = "dead")
      /\ once' = IF InOnce(t, f) THEN [once EXCEPT ![b] = "done"] ELSE once
      /\ \/ f.pc = "panic" /\ failed' = failed
         \/ failed' = IF InOnce(t, f) THEN [failed EXCEPT ![b] = TRUE] ELSE failed
  BY DEF Fail, Panic, At, confVars
<1>2. PICK v \in {Err, Panicked} : Return(t, v)
  BY DEF Fail, Panic
<1>3. /\ f \in Frames /\ b \in Beans /\ FrameOK(graph, f) /\ f = frames[t][Len(frames[t])]
      /\ Len(frames[t]) \in DOMAIN frames[t]
  BY <1>1, TopOf DEF Frames
<1>4. InOnce(t, f) => Inside(f)
  BY <1>1 DEF InOnce, Inside, Outside
<1>5. /\ handed' \in [Beans -> SUBSET Instances]
      /\ \A c \in Beans : \A w \in handed'[c] : w \in handed[c]
  BY <1>2, HandsOut, NilIsNone
<1>6. /\ once' \in [Beans -> {"new", "done"} \cup All] /\ failed' \in [Beans -> BOOLEAN]
      /\ \A c \in Beans \ {b} : once'[c] = once[c] /\ failed'[c] = failed[c]
      /\ IF InOnce(t, f) THEN once'[b] = "done" ELSE once'[b] = once[b] /\ failed'[b] = failed[b]
  <2>1. CASE InOnce(t, f)
    BY <2>1, <1>1, <1>3 DEF Kept
  <2>2. CASE ~InOnce(t, f)
    BY <2>2, <1>1, <1>3 DEF Kept
  <2> QED
    BY <2>1, <2>2
<1>7. Stacked'
  BY <1>1, <1>2, ReturnsStacked
<1>8. Reached' /\ (Busy(Boot)' => Busy(Boot) /\ frames'[Boot][1].bean = frames[Boot][1].bean)
  BY <1>1, <1>2, ReturnsReached
<1>9. Owned'
  <2>1. ASSUME NEW c \in Beans, Sole(c)
        PROVE  \/ beans'[c] = beans[c] /\ inst'[c] = inst[c] /\ once'[c] = once[c]
               \/ c = Top(t).bean /\ Inside(Top(t)) /\ once'[c] = "done"
    BY <1>1, <1>4, <1>6
  <2> QED
    BY <2>1, <1>1, <1>2, ReturnsOwned
<1>10. Turns'
  BY <1>1, <1>8, TurnsStays
<1>11. Agree'
  <2>1. Sole(b) /\ InOnce(t, f) => inst[b] = Nil
    BY <1>1, <1>3, <1>4 DEF Owned
  <2>2. ASSUME NEW c \in Beans, Sole(c)
        PROVE  \/ inst'[c] = inst[c] /\ once'[c] = once[c] /\ failed'[c] = failed[c]
               \/ once'[c] \notin {"new", "done"}
               \/ once'[c] = "done" /\ (failed'[c] \/ inst'[c] = Nil)
    BY <2>1, <1>1, <1>6, <2>2
  <2> QED
    BY <2>2, <1>1, <1>5, AgreeStays
<1>12. Kept'
  <2>1. Matched' /\ phase' \in {"boot", "up", "dead"}
    BY <1>1 DEF Kept, Matched, OfType
  <2> QED
    BY <2>1, <1>1, <1>5, <1>6 DEF Kept
<1> QED
  BY <1>7, <1>8, <1>9, <1>10, <1>11, <1>12

\* A goroutine that resolves nothing begins to.
LEMMA StartStep ==
  ASSUME ContainerInv, NEW t \in All, ~Busy(t), NEW b \in Beans, NEW g \in Frames, FrameOK(graph, g),
         g.bean = b, g.pc # "waits", g.pc # "singleton", ~Inside(g), g.eager <=> t = Boot,
         frames' = [frames EXCEPT ![t] = <<g>>], phase = IF t = Boot THEN "boot" ELSE "up",
         t = Boot => b \notin created /\ (b \in Services => Repositories \subseteq created),
         UNCHANGED <<confVars, beans, defVars, registry, typeMatches, histVars>>
  PROVE  ContainerInv'
<1> USE DEF ContainerInv
<1>1. /\ graph' = graph /\ phase' = phase /\ created' = created /\ beans' = beans /\ handed' = handed
      /\ inst' = inst /\ once' = once /\ failed' = failed /\ registry' = registry
      /\ typeMatches' = typeMatches /\ made' = made
  BY DEF confVars, defVars, histVars
<1>2. /\ <<g>> \in Seq(Frames) /\ Len(<<g>>) = 1 /\ DOMAIN <<g>> = {1} /\ <<g>>[1] = g
  OBVIOUS
<1>3. /\ frames' \in [All -> Seq(Frames)] /\ frames'[t] = <<g>> /\ \A u \in All \ {t} : frames'[u] = frames[u]
  BY <1>2 DEF Stacked
<1>4. Stacked'
  <2> SUFFICES ASSUME NEW u \in All, NEW i \in DOMAIN frames'[u]
               PROVE  /\ FrameOK(graph, frames'[u][i])
                      /\ frames'[u][i].pc = "waits" <=> i < Len(frames'[u])
                      /\ frames'[u][i].eager <=> u = Boot /\ i = 1
                      /\ phase = IF u = Boot THEN "boot" ELSE "up"
    BY <1>1, <1>3 DEF Stacked
  <2>1. CASE u # t
    BY <2>1, <1>3 DEF Stacked
  <2>2. CASE u = t
    <3>1. i = 1 /\ frames'[u][i] = g /\ ~(i < Len(frames'[u]))
      BY <2>2, <1>2, <1>3
    <3>2. g.eager <=> u = Boot /\ i = 1
      BY <3>1, <2>2
    <3> QED
      BY <3>1, <3>2, <2>2
  <2> QED
    BY <2>1, <2>2
<1>5. Reached'
  <2>1. \A x : Needs(x)' = Needs(x)
    BY <1>1, GraphStays
  <2>2. CASE t = Boot
    <3>1. 2..Len(frames'[Boot]) = {}
      BY <2>2, <1>2, <1>3
    <3> QED
      BY <3>1 DEF Reached
  <2>3. CASE t # Boot
    <3>1. frames'[Boot] = frames[Boot]
      BY <2>3, <1>3 DEF All
    <3> QED
      BY <3>1, <2>1 DEF Reached, Busy
  <2> QED
    BY <2>2, <2>3
<1>6. Turns'
  <2>1. \A c : Early(c)' = Early(c)
    BY <1>1, GraphStays DEF Early
  <2>2. CASE t = Boot
    <3>1. frames'[Boot][1].bean = b
      BY <2>2, <1>2, <1>3
    <3> QED
      BY <3>1, <2>1, <2>2, <1>1 DEF Turns, Legacy
  <2>3. CASE t # Boot
    <3>1. frames'[Boot] = frames[Boot]
      BY <2>3, <1>3 DEF All
    <3> QED
      BY <3>1, <2>1, <1>1 DEF Turns, Legacy, Busy
  <2> QED
    BY <2>2, <2>3
<1>7. Owned'
  <2> SUFFICES ASSUME NEW c \in Beans, Sole(c), NEW u \in All, NEW i \in DOMAIN frames'[u], frames'[u][i].bean = c
               PROVE  /\ Inside(frames'[u][i]) =>
                           /\ once[c] = u /\ beans[c] = Nil
                           /\ frames'[u][i].pc # "publish" => inst[c] = Nil
                           /\ \A j \in DOMAIN frames'[u] : Inside(frames'[u][j]) /\ frames'[u][j].bean = c => j = i
                      /\ frames'[u][i].pc = "singleton" /\ once[c] = "new" => beans[c] = Nil
    BY <1>1, GraphStays DEF Owned, Inside
  <2>1. CASE u # t
    BY <2>1, <1>3 DEF Owned
  <2>2. CASE u = t
    BY <2>2, <1>2, <1>3
  <2> QED
    BY <2>1, <2>2
<1>8. Agree'
  BY <1>1, AgreeStays
<1>9. Kept'
  BY <1>1 DEF Kept, Matched, OfType, Legacy
<1> QED
  BY <1>4, <1>5, <1>6, <1>7, <1>8, <1>9

LEMMA GetStep ==
  ASSUME ContainerInv, NEW t \in Threads, NEW b \in Beans, Get(t, b)
  PROVE  ContainerInv'
<1>1. PICK g : g = Frame(b, "lookup", {}, TRUE, FALSE)
  OBVIOUS
<1>2. /\ g \in Frames /\ FrameOK(graph, g) /\ g.bean = b /\ g.pc = "lookup" /\ ~g.eager
  <2>1. g \in Frames /\ FrameOK(graph, g)
    BY <1>1, FirstFrame DEF ContainerInv
  <2> QED
    BY <1>1, <2>1 DEF Frame
<1>3. t \in All /\ t # Boot /\ ~Inside(g)
  BY <1>2, ContainerAssumption DEF All, Inside, Outside
<1>4. /\ ~Busy(t) /\ phase = "up" /\ frames' = [frames EXCEPT ![t] = <<g>>]
      /\ UNCHANGED <<confVars, beans, defVars, registry, typeMatches, histVars>>
  BY <1>1 DEF Get
<1> QED
  BY <1>2, <1>3, <1>4, StartStep

LEMMA InitializeBeanStep ==
  ASSUME ContainerInv, NEW b \in Beans, InitializeBean(b)
  PROVE  ContainerInv'
<1>1. PICK g : g = Frame(b, "make", {}, FALSE, TRUE)
  OBVIOUS
<1>2. /\ ~Busy(Boot) /\ phase = "boot" /\ frames' = [frames EXCEPT ![Boot] = <<g>>]
      /\ b \in Legacy \ created /\ (b \in Services => Repositories \subseteq created)
      /\ UNCHANGED <<confVars, beans, defVars, registry, typeMatches, histVars>>
  BY <1>1 DEF InitializeBean
<1>3. /\ g \in Frames /\ FrameOK(graph, g) /\ g.bean = b /\ g.pc = "make" /\ g.eager
  <2>1. g \in Frames /\ FrameOK(graph, g)
    BY <1>1, <1>2, FirstFrame DEF ContainerInv
  <2> QED
    BY <1>1, <2>1 DEF Frame
<1>4. Boot \in All /\ ~Inside(g)
  BY <1>3 DEF All, Inside
<1> QED
  BY <1>2, <1>3, <1>4, StartStep

LEMMA UpStep ==
  ASSUME ContainerInv, InitializeAllBeansReturns
  PROVE  ContainerInv'
<1> USE DEF ContainerInv
<1>1. /\ graph' = graph /\ phase = "boot" /\ phase' = "up" /\ created' = created /\ beans' = beans /\ handed' = handed
      /\ inst' = inst /\ once' = once /\ failed' = failed /\ registry' = registry
      /\ typeMatches' = typeMatches /\ made' = made /\ frames' = frames
  BY DEF InitializeAllBeansReturns, defVars, histVars
<1>2. \A u \in All : frames[u] = <<>>
  <2> SUFFICES ASSUME NEW u \in All, Busy(u) PROVE FALSE
    BY DEF Busy
  <2>1. u # Boot
    BY DEF InitializeAllBeansReturns
  <2>2. phase = "up"
    BY <2>1, TopOf
  <2> QED
    BY <2>2, <1>1
<1>3. Boot \in All
  BY DEF All
<1>4. Stacked'
  <2>1. \A u \in All : DOMAIN frames[u] = {}
    BY <1>2
  <2> QED
    BY <2>1, <1>1 DEF Stacked
<1>5. Reached' /\ Turns'
  BY <1>1, <1>2, <1>3 DEF Reached, Turns, Busy
<1>6. Owned'
  BY <1>1, <1>2, NobodyOwned
<1>7. Agree'
  BY <1>1, AgreeStays
<1>8. Kept'
  BY <1>1 DEF Kept, Matched, OfType, Legacy
<1> QED
  BY <1>4, <1>5, <1>6, <1>7, <1>8

LEMMA RegistryStep ==
  ASSUME ContainerInv, NEW t \in All, DestroyRequestRegistry(t)
  PROVE  ContainerInv'
<1> USE DEF ContainerInv
<1>1. /\ graph' = graph /\ phase' = phase /\ created' = created /\ beans' = beans /\ handed' = handed
      /\ inst' = inst /\ once' = once /\ failed' = failed
      /\ typeMatches' = typeMatches /\ made' = made /\ frames' = frames
      /\ registry' = [registry EXCEPT ![t] = [b \in Beans |-> Nil]]
  BY DEF DestroyRequestRegistry, confVars, defVars, histVars
<1>2. /\ registry' \in [All -> [Beans -> Instances \cup {Nil}]]
      /\ \A b \in Beans : \A u \in All : registry'[u][b] # Nil => registry'[u][b].bean = b
  <2>1. \A u \in All \ {t} : registry'[u] = registry[u]
    BY <1>1 DEF Kept
  <2>2. registry'[t] = [b \in Beans |-> Nil]
    BY <1>1 DEF Kept
  <2>3. registry' \in [All -> [Beans -> Instances \cup {Nil}]]
    BY <1>1 DEF Kept
  <2> QED
    BY <2>1, <2>2, <2>3 DEF Kept
<1>3. Kept'
  BY <1>1, <1>2 DEF Kept, Matched, OfType, Legacy
<1>4. Stacked'
  BY <1>1 DEF Stacked
<1>5. Reached'
  BY <1>1, GraphStays DEF Reached, Busy
<1>6. Turns'
  BY <1>1, TurnsStays DEF Busy
<1>7. Agree'
  BY <1>1, AgreeStays
<1>8. Owned'
  BY <1>1, GraphStays DEF Owned, Inside
<1> QED
  BY <1>3, <1>4, <1>5, <1>6, <1>7, <1>8

\* A bean is replaced, or all are dropped, when nothing is being resolved.
LEMMA ResetStep ==
  ASSUME ContainerInv, Clear \/ \E b \in Beans : ReplaceBean(b)
  PROVE  ContainerInv'
<1> USE DEF ContainerInv
<1>1. /\ Quiet /\ graph' = graph /\ phase' = phase /\ created' = created
      /\ registry' = registry /\ frames' = frames /\ typeMatches' = [y \in Types |-> Nil]
  BY DEF Clear, ReplaceBean, confVars
<1>2. phase = "up" /\ \A u \in All : frames[u] = <<>>
  BY <1>1 DEF Quiet, Busy
<1>3. Boot \in All
  BY DEF All
<1>4. Stacked'
  <2>1. \A u \in All : DOMAIN frames[u] = {}
    BY <1>2
  <2> QED
    BY <2>1, <1>1 DEF Stacked
<1>5. Reached' /\ Turns'
  BY <1>1, <1>2, <1>3 DEF Reached, Turns, Busy
<1>6. Owned'
  BY <1>1, <1>2, NobodyOwned
<1>7. Matched'
  BY <1>1 DEF Matched
<1>8. CASE Clear
  <2>1. /\ beans' = [b \in Beans |-> Nil] /\ once' = [b \in Beans |-> "new"]
        /\ inst' = [b \in Beans |-> Nil] /\ failed' = [b \in Beans |-> FALSE]
        /\ made' = [b \in Beans |-> 0] /\ handed' = [b \in Beans |-> {}]
    BY <1>8 DEF Clear
  <2>2. Kept'
    BY <2>1, <1>1, <1>7 DEF Kept, Legacy
  <2>3. Agree'
    BY <2>1 DEF Agree
  <2> QED
    BY <2>2, <2>3, <1>4, <1>5, <1>6
<1>9. ASSUME NEW b \in Beans, ReplaceBean(b) PROVE ContainerInv'
  <2>1. Mock(b) \in Instances /\ Mock(b).bean = b
    BY DEF Mock, Instances
  <2>2. PICK m : m = Mock(b)
    OBVIOUS
  <2>3. /\ beans' = [beans EXCEPT ![b] = m] /\ inst' = [inst EXCEPT ![b] = m]
        /\ handed' = [handed EXCEPT ![b] = {}] /\ once' = once /\ failed' = failed /\ made' = made
    BY <1>9, <2>2 DEF ReplaceBean
  <2>4. /\ beans' \in [Beans -> Instances \cup {Nil}] /\ inst' \in [Beans -> Instances \cup {Nil}]
        /\ beans'[b] = m /\ inst'[b] = m /\ \A c \in Beans \ {b} : beans'[c] = beans[c] /\ inst'[c] = inst[c]
        /\ handed' \in [Beans -> SUBSET Instances] /\ handed'[b] = {} /\ \A c \in Beans \ {b} : handed'[c] = handed[c]
    BY <2>1, <2>2, <2>3 DEF Kept
  <2>5. Kept'
    <3>1. \A c \in Beans : (beans'[c] # Nil => beans'[c].bean = c) /\ (inst'[c] # Nil => inst'[c].bean = c)
      BY <2>1, <2>2, <2>4 DEF Kept
    <3> QED
      BY <3>1, <2>3, <2>4, <1>1, <1>7 DEF Kept, Legacy
  <2>6. Agree'
    <3> SUFFICES ASSUME NEW c \in Beans, Sole(c)
                 PROVE  /\ \A w \in handed'[c] : w = beans'[c]
                        /\ once[c] = "new" /\ beans'[c] = Nil => inst'[c] = Nil
                        /\ once[c] = "done" /\ ~failed[c] /\ inst'[c] # Nil => inst'[c] = beans'[c]
      BY <1>1, <2>3, GraphStays DEF Agree
    <3>1. CASE c = b
      BY <3>1, <2>1, <2>2, <2>4, NilIsNone
    <3>2. CASE c # b
      BY <3>2, <2>4 DEF Agree
    <3> QED
      BY <3>1, <3>2
  <2> QED
    BY <2>5, <2>6, <1>4, <1>5, <1>6
<1> QED
  BY <1>8, <1>9

-----------------------------------------------------------------------------
(* The theorems.                                                           *)

LEMMA InitInv == Init => ContainerInv
<1> SUFFICES ASSUME Init PROVE ContainerInv
  OBVIOUS
<1>1. \A u \in All : frames[u] = <<>> /\ DOMAIN frames[u] = {}
  BY DEF Init
<1>2. Boot \in All
  BY DEF All
<1>3. Kept
  BY DEF Init, Kept, Matched
<1>4. Stacked
  BY <1>1 DEF Init, Stacked
<1>5. Reached /\ Turns
  BY <1>1, <1>2, ContainerAssumption DEF Init, Reached, Turns, Busy, Legacy
<1>6. Owned
  BY <1>1 DEF Owned
<1>7. Agree
  BY DEF Init, Agree
<1> QED
  BY <1>3, <1>4, <1>5, <1>6, <1>7 DEF ContainerInv

LEMMA NextInv == ContainerInv /\ [Next]_vars => ContainerInv'
<1> SUFFICES ASSUME ContainerInv, [Next]_vars PROVE ContainerInv'
  OBVIOUS
<1>1. ASSUME NEW t \in All, Step(t) PROVE ContainerInv'
  BY <1>1, LookupStep, SingletonStep, PrototypeStep, RequestStep, NextDependencyStep, StoreMatchesStep,
     FactorySucceedsStep, PublishStep, FaultStep, FailureStep DEF Step
<1>2. CASE UNCHANGED vars
  <2>1. UNCHANGED <<graph, phase, created, beans, once, inst, failed, registry, typeMatches, frames, made, handed>>
    BY <1>2 DEF vars, confVars, defVars, histVars
  <2>2. Kept'
    BY <2>1 DEF ContainerInv, Kept, Matched, OfType, Legacy
  <2>3. Stacked'
    BY <2>1 DEF ContainerInv, Stacked
  <2>4. Reached'
    BY <2>1, GraphStays DEF ContainerInv, Reached, Busy
  <2>5. Turns'
    BY <2>1, TurnsStays DEF ContainerInv, Busy
  <2>6. Owned'
    BY <2>1, GraphStays DEF ContainerInv, Owned, Inside
  <2>7. Agree'
    BY <2>1, AgreeStays DEF ContainerInv
  <2> QED
    BY <2>2, <2>3, <2>4, <2>5, <2>6, <2>7 DEF ContainerInv
<1> QED
  BY <1>1, <1>2, GetStep, InitializeBeanStep, UpStep, RegistryStep, ResetStep DEF Next

\* The invariant holds of every reachable state: a goroutine inside the Once of a
\* singleton is the only one, and what was handed out is what the cache keeps.
THEOREM ContainerInvariant == Spec => []ContainerInv
<1>1. Init => ContainerInv
  BY InitInv
<1>2. ContainerInv /\ [Next]_vars => ContainerInv'
  BY NextInv
<1> QED
  BY <1>1, <1>2, PTL DEF Spec

\* However many goroutines resolve, fail and panic, over whatever beans, scopes and
\* dependencies, and whenever beans are replaced or cleared, no two takers of a
\* singleton hold different instances (container.go: resolveSingletonBean).
THEOREM OneInstanceHolds == Spec => []OneInstance
<1>1. ContainerInv => OneInstance
  <2> SUFFICES ASSUME ContainerInv, NEW b \in Beans, Sole(b) PROVE Cardinality(handed[b]) <= 1
    BY DEF OneInstance, Sole
  <2>1. handed[b] \subseteq {beans[b]}
    BY DEF ContainerInv, Agree
  <2>2. IsFiniteSet({beans[b]}) /\ Cardinality({beans[b]}) = 1
    BY FS_Singleton
  <2>3. IsFiniteSet(handed[b]) /\ Cardinality(handed[b]) <= Cardinality({beans[b]})
    BY <2>1, <2>2, FS_Subset
  <2> QED
    BY <2>2, <2>3
<1> QED
  BY <1>1, ContainerInvariant, PTL
=============================================================================
