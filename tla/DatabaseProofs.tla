--------------------------- MODULE DatabaseProofs ---------------------------
(***************************************************************************)
(* Proofs about the database layer: Transaction, for every set of items    *)
(* and every depth of nesting, and Migration, for any replicas, migrations *)
(* and timeouts: no two replicas whose hearts beat are inside an           *)
(* operation, and the control table matches the schema.  The two modules   *)
(* share no state.                                                         *)
(***************************************************************************)
EXTENDS Transaction, Migration, FiniteSetTheorems, SequenceTheorems, TLAPS

-----------------------------------------------------------------------------
(***************************************************************************)
(* Transactions.                                                           *)
(*                                                                         *)
(* The argument.  The contexts of the calls under way point to a physical  *)
(* transaction that is open, below or at their own depth (ContextInv), and *)
(* what is not open is empty (ClosedInv), so a transaction that begins     *)
(* starts from nothing.  As long as a transaction carries no error, its    *)
(* buffer holds exactly its writes (BufferInv), and every savepoint of it  *)
(* remembers a prefix of the buffer (CutInv) and the writes that belong to *)
(* it (MarkInv); inner savepoints remember longer prefixes (MarksGrow), so a  *)
(* rollback to one leaves those of the outer ones intact.  Writes belong   *)
(* to one transaction at most, and those of a failed scope to none that    *)
(* can still commit (ItemsInv).                                            *)
(***************************************************************************)

\* t is the depth of a call that began a transaction and is under way.
Open(calls, t) == t \in 1..Len(calls) /\ calls[t].kind = "new"

ContextInv ==
  \A d \in 1..Len(stack) :
    /\ stack[d].events = stack[d].tx
    /\ stack[d].tx # None => stack[d].tx <= d /\ Open(stack, stack[d].tx)

ClosedInv ==
  \A t \in Depths : ~Open(stack, t) => pending[t] = {} /\ buffer[t] = << >> /\ ~doomed[t]

BufferInv ==
  \A t \in Depths : ~doomed[t] => ToSet(buffer[t]) = pending[t]

\* A savepoint does not reach beyond the buffer.
CutInv ==
  \A d \in 1..Len(stack) :
    stack[d].kind = "nested" => stack[d].mark <= Len(buffer[stack[d].tx])

\* The savepoint of frame remembers a prefix of buf and its items.
Remembers(frame, buf) == ToSet(SubSeq(buf, 1, frame.mark)) = frame.saved

MarkInv ==
  \A d \in 1..Len(stack) :
    stack[d].kind = "nested" /\ ~doomed[stack[d].tx] => Remembers(stack[d], buffer[stack[d].tx])

MarksGrow ==
  \A d, e \in 1..Len(stack) :
    /\ d < e
    /\ stack[d].kind = "nested" /\ stack[e].kind = "nested"
    /\ stack[d].tx = stack[e].tx
    => stack[d].mark <= stack[e].mark

ItemsInv ==
  /\ \A t \in Depths :
       /\ pending[t] \subseteq begun
       /\ pending[t] \cap committed = {}
       /\ ~doomed[t] => pending[t] \cap failed = {}
  /\ \A t, u \in Depths : t # u => pending[t] \cap pending[u] = {}
  /\ committed \subseteq begun
  /\ failed \subseteq begun

TransactionInv ==
  /\ TypeOK /\ ContextInv /\ ClosedInv /\ BufferInv /\ CutInv /\ MarkInv /\ MarksGrow
  /\ ItemsInv /\ EventsMatchWrites /\ FailedScopeLeavesNothing

-----------------------------------------------------------------------------
(* Sequences *)

\* The elements of a sequence with one more, and of the empty one.
LEMMA ToSetAppend ==
  ASSUME NEW S, NEW s \in Seq(S), NEW e \in S
  PROVE  /\ Append(s, e) \in Seq(S)
         /\ ToSet(Append(s, e)) = ToSet(s) \cup {e}
         /\ ToSet(<< >>) = {}
<1> DEFINE a == Append(s, e)
<1>1. /\ a \in Seq(S) /\ DOMAIN a = 1..(Len(s) + 1) /\ DOMAIN s = 1..Len(s) /\ Len(s) \in Nat
      /\ a[Len(s) + 1] = e /\ \A i \in 1..Len(s) : a[i] = s[i]
  OBVIOUS
<1>2. \A x : x \in ToSet(a) <=> \E i \in 1..(Len(s) + 1) : x = a[i]
  BY <1>1, Zenon DEF ToSet
<1>3. \A x : x \in ToSet(s) <=> \E i \in 1..Len(s) : x = s[i]
  BY <1>1, Zenon DEF ToSet
<1> HIDE DEF a
<1>4. ToSet(a) = ToSet(s) \cup {e}
  BY <1>1, <1>2, <1>3
<1>5. ToSet(<< >>) = {}
  BY DEF ToSet
<1> QED
  BY <1>1, <1>4, <1>5 DEF a

\* A prefix is not changed by what is appended, nor by a longer cut.
LEMMA CutPrefix ==
  ASSUME NEW S, NEW s \in Seq(S), NEW m \in Nat, m <= Len(s)
  PROVE  /\ SubSeq(s, 1, m) \in Seq(S)
         /\ Len(SubSeq(s, 1, m)) = m
         /\ \A e \in S : SubSeq(Append(s, e), 1, m) = SubSeq(s, 1, m)
         /\ \A k \in Nat : k <= m => SubSeq(SubSeq(s, 1, m), 1, k) = SubSeq(s, 1, k)
OBVIOUS

\* A prefix has no other elements than the sequence.
LEMMA PrefixSubset ==
  ASSUME NEW S, NEW s \in Seq(S), NEW m \in Nat, m <= Len(s)
  PROVE  ToSet(SubSeq(s, 1, m)) \subseteq ToSet(s)
<1> DEFINE p == SubSeq(s, 1, m)
<1>1. DOMAIN p = 1..m /\ DOMAIN s = 1..Len(s) /\ Len(s) \in Nat
  BY CutPrefix
<1>2. \A i \in 1..m : p[i] = s[i] /\ i \in 1..Len(s)
  OBVIOUS
<1> HIDE DEF p
<1>3. ToSet(p) \subseteq ToSet(s)
  BY <1>1, <1>2 DEF ToSet
<1> QED
  BY <1>3 DEF p

\* A cut at the end of a sequence is the sequence.
LEMMA WholePrefix ==
  ASSUME NEW S, NEW s \in Seq(S)
  PROVE  SubSeq(s, 1, Len(s)) = s
OBVIOUS

\* All but the last element.
LEMMA FrontOf ==
  ASSUME NEW S, NEW s \in Seq(S), s # << >>
  PROVE  /\ Len(s) \in Nat \ {0}
         /\ Front(s) \in Seq(S) /\ Len(Front(s)) = Len(s) - 1
         /\ \A i \in 1..(Len(s) - 1) : Front(s)[i] = s[i]
<1>1. Len(s) \in Nat \ {0}
  OBVIOUS
<1>2. Len(s) - 1 \in Nat /\ Len(s) - 1 <= Len(s)
  BY <1>1
<1>3. SubSeq(s, 1, Len(s) - 1) \in Seq(S) /\ Len(SubSeq(s, 1, Len(s) - 1)) = Len(s) - 1
  BY <1>2, CutPrefix
<1>4. \A i \in 1..(Len(s) - 1) : SubSeq(s, 1, Len(s) - 1)[i] = s[i]
  BY <1>2
<1> QED
  BY <1>1, <1>3, <1>4 DEF Front

-----------------------------------------------------------------------------
(* The stack of calls *)

\* A call that is entered comes on top; those below stay as they are.
LEMMA Pushed ==
  ASSUME TypeOK, NEW f \in Frame, Enter(f)
  PROVE  /\ stack' \in Seq(Frame)
         /\ Len(stack) \in Nat /\ Len(stack') = Len(stack) + 1 /\ Len(stack') <= MaxDepth
         /\ stack'[Len(stack) + 1] = f
         /\ \A d \in 1..Len(stack) : stack'[d] = stack[d] /\ stack[d] \in Frame
<1>1. stack \in Seq(Frame) /\ Len(stack) < MaxDepth /\ stack' = Append(stack, f)
  BY DEF TypeOK, Enter
<1> QED
  BY <1>1, DepthAssumption

\* The call that is left was the top one; those below stay as they are.
LEMMA Popped ==
  ASSUME TypeOK, NEW kind, Leave(kind)
  PROVE  /\ stack' \in Seq(Frame)
         /\ Len(stack) \in Nat \ {0} /\ Len(stack) <= MaxDepth
         /\ Len(stack') = Len(stack) - 1
         /\ \A d \in 1..(Len(stack) - 1) : stack'[d] = stack[d]
         /\ \A d \in 1..Len(stack) : stack[d] \in Frame
         /\ Ctx = stack[Len(stack)] /\ Ctx \in Frame /\ Ctx.kind = kind
<1>1. stack \in Seq(Frame) /\ Len(stack) <= MaxDepth /\ stack # << >>
  BY DEF TypeOK, Leave
<1>2. stack' = Front(stack) /\ Ctx = stack[Len(stack)] /\ Ctx.kind = kind
  BY <1>1 DEF Leave, Last, Ctx
<1>3. Len(stack) \in Nat \ {0} /\ \A d \in 1..Len(stack) : stack[d] \in Frame
  BY <1>1
<1>4. /\ stack' \in Seq(Frame) /\ Len(stack') = Len(stack) - 1
      /\ \A d \in 1..(Len(stack) - 1) : stack'[d] = stack[d]
  BY <1>1, <1>2, FrontOf
<1> QED
  BY <1>1, <1>2, <1>3, <1>4

\* A savepoint is one of a physical transaction.
LEMMA NestedFrame ==
  ASSUME TypeOK, NEW d \in 1..Len(stack), stack[d].kind = "nested"
  PROVE  stack[d].tx \in Depths /\ stack[d].mark \in Nat /\ stack[d].saved \subseteq Items
<1>1. stack \in Seq(Frame) /\ stack[d].tx # None
  BY DEF TypeOK
<1>2. stack[d] \in Frame
  BY <1>1
<1> QED
  BY <1>1, <1>2 DEF Frame

\* What holds of the context of the next step.
LEMMA CtxFacts ==
  ASSUME TypeOK, ContextInv
  PROVE  /\ Len(stack) \in Nat /\ Len(stack) <= MaxDepth
         /\ Ctx \in Frame
         /\ Ctx.events = Ctx.tx
         /\ Ctx.tx # None => /\ Ctx.tx \in Depths /\ Ctx.tx <= Len(stack) /\ Open(stack, Ctx.tx)
                             /\ stack # << >> /\ Ctx = stack[Len(stack)]
<1>1. Len(stack) \in Nat /\ Len(stack) <= MaxDepth /\ stack \in Seq(Frame) /\ MaxDepth \in Nat
  BY DepthAssumption DEF TypeOK
<1>2. CASE stack = << >>
  <2>1. Ctx = Background
    BY <1>2 DEF Ctx
  <2>2. Background \in Frame /\ Background.tx = None /\ Background.events = None
    BY DEF Background, Frame
  <2> QED
    BY <1>1, <2>1, <2>2
<1>3. CASE stack # << >>
  <2>1. Len(stack) \in 1..Len(stack) /\ Ctx = stack[Len(stack)] /\ Ctx \in Frame
    BY <1>1, <1>3 DEF Ctx, Last
  <2>2. Ctx.tx \in Depths \cup {None}
    BY <2>1 DEF Frame
  <2>3. /\ Ctx.events = Ctx.tx
        /\ Ctx.tx # None => Ctx.tx <= Len(stack) /\ Open(stack, Ctx.tx)
    BY <2>1, Zenon DEF ContextInv
  <2> QED
    BY <1>1, <1>3, <2>1, <2>2, <2>3
<1> QED
  BY <1>2, <1>3

\* What a call must bring with it for the invariant to hold once it is entered.
Fits(f) ==
  /\ f.events = f.tx
  /\ f.kind = "new" <=> f.tx = Len(stack) + 1
  /\ f.tx # None => f.tx = Len(stack) + 1 \/ (f.tx <= Len(stack) /\ Open(stack, f.tx))
  /\ f.kind \in {"join", "nested"} => f.tx # None
  /\ f.kind = "nested" =>
       /\ f.mark <= Len(buffer[f.tx])
       /\ ~doomed[f.tx] => Remembers(f, buffer[f.tx])
       /\ \A d \in 1..Len(stack) :
            stack[d].kind = "nested" /\ stack[d].tx = f.tx => stack[d].mark <= f.mark

\* The other variables of TransactionInv in a step that leaves them alone.
LEMMA SameItems ==
  ASSUME ItemsInv, EventsMatchWrites, FailedScopeLeavesNothing,
         UNCHANGED <<doomed, pending, outVars, begun, failed>>
  PROVE  ItemsInv' /\ EventsMatchWrites' /\ FailedScopeLeavesNothing'
BY DEF ItemsInv, EventsMatchWrites, FailedScopeLeavesNothing, outVars

\* Entering a call that fits keeps the invariant.
LEMMA EnterKeepsInv ==
  ASSUME TransactionInv, NEW f \in Frame, Fits(f), Enter(f), UNCHANGED txVars
  PROVE  TransactionInv'
<1> DEFINE n == Len(stack)
<1>1. /\ stack' \in Seq(Frame) /\ n \in Nat /\ Len(stack') = n + 1 /\ Len(stack') <= MaxDepth
      /\ stack'[n + 1] = f
      /\ \A d \in 1..n : stack'[d] = stack[d] /\ stack[d] \in Frame
  BY Pushed DEF TransactionInv
<1>2. /\ UNCHANGED <<doomed, pending, buffer, committed, dispatched, begun, failed>>
  BY DEF Enter, txVars, outVars
<1>3. \A d \in 1..(n + 1) : d \in 1..n \/ (d = n + 1 /\ stack'[d] = f)
  BY <1>1
<1>4. TypeOK'
  <2>1. \A d \in 1..Len(stack') : /\ stack'[d].kind = "new" <=> stack'[d].tx = d
                                  /\ stack'[d].kind \in {"join", "nested"} => stack'[d].tx # None
    BY <1>1, <1>3 DEF TransactionInv, TypeOK, Fits
  <2> QED
    BY <1>1, <1>2, <2>1 DEF TransactionInv, TypeOK
<1>5. \A t : Open(stack, t) => Open(stack', t)
  BY <1>1 DEF Open
<1>6. f.tx = n + 1 => Open(stack', f.tx)
  BY <1>1 DEF Open, Fits
<1>7. ContextInv'
  <2>1. ContextInv
    BY DEF TransactionInv
  <2>2. f.events = f.tx /\ (f.tx # None => f.tx <= n + 1 /\ Open(stack', f.tx))
    BY <1>1, <1>5, <1>6 DEF Fits, Frame, Depths, None
  <2> SUFFICES ASSUME NEW d \in 1..(n + 1)
               PROVE  /\ stack'[d].events = stack'[d].tx
                      /\ stack'[d].tx # None => stack'[d].tx <= d /\ Open(stack', stack'[d].tx)
    BY <1>1 DEF ContextInv
  <2>3. CASE d \in 1..n
    <3>1. stack'[d] = stack[d]
      BY <1>1, <2>3
    <3>2. /\ stack[d].events = stack[d].tx
          /\ stack[d].tx # None => stack[d].tx <= d /\ Open(stack, stack[d].tx)
      BY <2>1, <2>3, Zenon DEF ContextInv
    <3>3. stack[d].tx # None => Open(stack', stack[d].tx)
      BY <1>5, <3>2
    <3> QED
      BY <3>1, <3>2, <3>3
  <2>4. CASE d = n + 1
    BY <1>1, <2>2, <2>4
  <2> QED
    BY <1>3, <2>3, <2>4
<1>8. ClosedInv'
  BY <1>2, <1>5 DEF TransactionInv, ClosedInv
<1>9. BufferInv'
  BY <1>2 DEF TransactionInv, BufferInv
<1>10. MarkInv'
  BY <1>1, <1>2, <1>3 DEF TransactionInv, MarkInv, Fits
<1>11. MarksGrow'
  BY <1>1, <1>3 DEF TransactionInv, MarksGrow, Fits
<1>12. CutInv'
  BY <1>1, <1>2, <1>3 DEF TransactionInv, CutInv, Fits
<1> QED
  BY <1>2, <1>4, <1>7, <1>8, <1>9, <1>10, <1>11, <1>12, SameItems DEF TransactionInv, outVars

\* Leaving a call keeps what is said of the stack alone, and closes the
\* transaction of that call, if it began one.
LEMMA LeaveKeepsStack ==
  ASSUME TypeOK, ContextInv, MarksGrow, NEW kind, Leave(kind)
  PROVE  /\ stack' \in Seq(Frame) /\ Len(stack') <= MaxDepth
         /\ \A d \in 1..Len(stack') :
              /\ stack'[d].kind = "new" <=> stack'[d].tx = d
              /\ stack'[d].kind \in {"join", "nested"} => stack'[d].tx # None
         /\ ContextInv' /\ MarksGrow'
         /\ \A t : Open(stack', t) <=> Open(stack, t) /\ t # Len(stack)
<1> DEFINE n == Len(stack)
<1>1. /\ stack' \in Seq(Frame) /\ n \in Nat \ {0} /\ n <= MaxDepth /\ Len(stack') = n - 1
      /\ \A d \in 1..(n - 1) : stack'[d] = stack[d]
      /\ \A d \in 1..n : stack[d] \in Frame
  BY Popped
<1>2. \A t : Open(stack', t) <=> Open(stack, t) /\ t # n
  BY <1>1 DEF Open
<1>3. ContextInv'
  <2> SUFFICES ASSUME NEW d \in 1..(n - 1)
               PROVE  /\ stack'[d].events = stack'[d].tx
                      /\ stack'[d].tx # None => stack'[d].tx <= d /\ Open(stack', stack'[d].tx)
    BY <1>1 DEF ContextInv
  <2>1. d \in 1..n /\ stack'[d] = stack[d] /\ stack[d] \in Frame /\ d < n
    BY <1>1
  <2>2. /\ stack[d].events = stack[d].tx
        /\ stack[d].tx # None => stack[d].tx <= d /\ Open(stack, stack[d].tx)
    BY <2>1, Zenon DEF ContextInv
  <2>3. stack[d].tx <= d => stack[d].tx # n
    BY <1>1, <2>1 DEF Frame, Depths, None
  <2> QED
    BY <1>2, <2>1, <2>2, <2>3
<1>4. MarksGrow'
  BY <1>1 DEF MarksGrow
<1>5. \A d \in 1..(n - 1) :
        /\ stack'[d].kind = "new" <=> stack'[d].tx = d
        /\ stack'[d].kind \in {"join", "nested"} => stack'[d].tx # None
  BY <1>1 DEF TypeOK
<1> QED
  BY <1>1, <1>2, <1>3, <1>4, <1>5, DepthAssumption

-----------------------------------------------------------------------------
(* Entering a scope *)

LEMMA BeginTxKeepsInv == TransactionInv /\ BeginTx => TransactionInv'
<1> SUFFICES ASSUME TransactionInv, BeginTx PROVE TransactionInv'
  OBVIOUS
<1> DEFINE d == Len(stack) + 1
           f == [kind |-> "new", tx |-> d, events |-> d, saved |-> {}, mark |-> 0]
<1>1. Enter(f) /\ UNCHANGED txVars
  BY DEF BeginTx
<1>2. d \in Depths
  BY <1>1, DepthAssumption DEF Enter, Depths, TransactionInv, TypeOK
<1>3. f \in Frame
  BY <1>2 DEF Frame
<1>4. Fits(f)
  BY DEF Fits
<1> HIDE DEF f
<1> QED
  BY <1>1, <1>3, <1>4, EnterKeepsInv

LEMMA JoinTxKeepsInv == TransactionInv /\ InTx /\ JoinTx => TransactionInv'
<1> SUFFICES ASSUME TransactionInv, InTx, JoinTx PROVE TransactionInv'
  OBVIOUS
<1> DEFINE f == [Ctx EXCEPT !.kind = "join"]
<1>1. Enter(f) /\ UNCHANGED txVars
  BY DEF JoinTx
<1>2. /\ Len(stack) \in Nat /\ Ctx \in Frame /\ Ctx.events = Ctx.tx /\ Ctx.tx # None
      /\ Ctx.tx <= Len(stack) /\ Open(stack, Ctx.tx) /\ Ctx.tx \in Depths
  BY CtxFacts DEF TransactionInv, InTx
<1>3. /\ f \in Frame /\ f.kind = "join" /\ f.tx = Ctx.tx /\ f.events = Ctx.events
  BY <1>2 DEF Frame
<1>4. Fits(f)
  BY <1>2, <1>3, DepthAssumption DEF Fits, Depths
<1> HIDE DEF f
<1> QED
  BY <1>1, <1>3, <1>4, EnterKeepsInv

LEMMA SavepointKeepsInv == TransactionInv /\ InTx /\ Savepoint => TransactionInv'
<1> SUFFICES ASSUME TransactionInv, InTx, Savepoint PROVE TransactionInv'
  OBVIOUS
<1> DEFINE f == [kind |-> "nested", tx |-> Ctx.tx, events |-> Ctx.events,
                 saved |-> pending[Ctx.tx], mark |-> Len(buffer[Ctx.events])]
<1>1. Enter(f) /\ UNCHANGED txVars /\ ~doomed[Ctx.tx]
  BY DEF Savepoint
<1>2. /\ Len(stack) \in Nat /\ Ctx \in Frame /\ Ctx.events = Ctx.tx /\ Ctx.tx # None
      /\ Ctx.tx <= Len(stack) /\ Open(stack, Ctx.tx) /\ Ctx.tx \in Depths
  BY CtxFacts DEF TransactionInv, InTx
<1>3. buffer[Ctx.tx] \in Seq(Items) /\ pending[Ctx.tx] \in SUBSET Items
  BY <1>2 DEF TransactionInv, TypeOK
<1>4. /\ f \in Frame /\ f.kind = "nested" /\ f.tx = Ctx.tx /\ f.events = Ctx.events
      /\ f.saved = pending[Ctx.tx] /\ f.mark = Len(buffer[Ctx.tx])
  <2>1. Ctx.tx \in Depths \cup {None} /\ Ctx.events \in Depths \cup {None}
    BY <1>2
  <2>2. Len(buffer[Ctx.tx]) \in Nat
    BY <1>3
  <2> QED
    BY <1>2, <1>3, <2>1, <2>2 DEF Frame
<1> HIDE DEF f
<1>5. Remembers(f, buffer[f.tx])
  <2>1. SubSeq(buffer[Ctx.tx], 1, f.mark) = buffer[Ctx.tx]
    BY <1>3, <1>4, WholePrefix
  <2>2. ToSet(buffer[Ctx.tx]) = pending[Ctx.tx]
    BY <1>1, <1>2 DEF TransactionInv, BufferInv
  <2>3. ToSet(SubSeq(buffer[Ctx.tx], 1, f.mark)) = pending[Ctx.tx]
    BY <2>1, <2>2
  <2> QED
    BY <1>4, <2>3, Zenon DEF Remembers
<1>6. \A d \in 1..Len(stack) :
        stack[d].kind = "nested" /\ stack[d].tx = f.tx => stack[d].mark <= f.mark
  BY <1>4 DEF TransactionInv, CutInv
<1>7. Fits(f)
  BY <1>2, <1>3, <1>4, <1>5, <1>6, DepthAssumption DEF Fits, Depths
<1> QED
  BY <1>1, <1>4, <1>7, EnterKeepsInv

LEMMA SameContextKeepsInv == TransactionInv /\ SameContext => TransactionInv'
<1> SUFFICES ASSUME TransactionInv, SameContext PROVE TransactionInv'
  OBVIOUS
<1> DEFINE f == [Ctx EXCEPT !.kind = "plain"]
<1>1. Enter(f) /\ UNCHANGED txVars
  BY DEF SameContext
<1>2. /\ Len(stack) \in Nat /\ Ctx \in Frame /\ Ctx.events = Ctx.tx
      /\ Ctx.tx # None => Ctx.tx <= Len(stack) /\ Open(stack, Ctx.tx) /\ Ctx.tx \in Depths
  BY CtxFacts DEF TransactionInv
<1>3. /\ f \in Frame /\ f.kind = "plain" /\ f.tx = Ctx.tx /\ f.events = Ctx.events
  BY <1>2 DEF Frame
<1>4. Fits(f)
  BY <1>2, <1>3, DepthAssumption DEF Fits, Depths, None
<1> HIDE DEF f
<1> QED
  BY <1>1, <1>3, <1>4, EnterKeepsInv

LEMMA SuspendKeepsInv == TransactionInv /\ Suspend => TransactionInv'
<1> SUFFICES ASSUME TransactionInv, Suspend PROVE TransactionInv'
  OBVIOUS
<1>1. Enter(Background) /\ UNCHANGED txVars
  BY DEF Suspend
<1>2. Background \in Frame /\ Len(stack) \in Nat
  BY CtxFacts DEF TransactionInv, Background, Frame
<1>3. Fits(Background)
  BY <1>2 DEF Fits, Background, None
<1> QED
  BY <1>1, <1>2, <1>3, EnterKeepsInv

LEMMA CallKeepsInv == TransactionInv /\ Call => TransactionInv'
BY BeginTxKeepsInv, JoinTxKeepsInv, SavepointKeepsInv, SameContextKeepsInv, SuspendKeepsInv
   DEF Call, Required, RequiresNew, Nested, Supports, NotSupported, Mandatory, Never

-----------------------------------------------------------------------------
(* What the functions do in between *)

LEMMA SavepointFailsKeepsInv == TransactionInv /\ SavepointFails => TransactionInv'
<1> SUFFICES ASSUME TransactionInv, SavepointFails PROVE TransactionInv'
  OBVIOUS
<1>1. /\ UNCHANGED <<stack, pending, buffer, outVars, begun, failed>>
      /\ doomed' = [doomed EXCEPT ![Ctx.tx] = TRUE]
      /\ Ctx.tx \in Depths /\ Open(stack, Ctx.tx)
  BY CtxFacts DEF TransactionInv, SavepointFails, InTx
<1>2. doomed' \in [Depths -> BOOLEAN] /\ \A t \in Depths : ~doomed'[t] => ~doomed[t]
  BY <1>1 DEF TransactionInv, TypeOK
<1>3. TypeOK'
  BY <1>1, <1>2 DEF TransactionInv, TypeOK, outVars
<1>4. ContextInv' /\ CutInv' /\ MarksGrow'
  BY <1>1 DEF TransactionInv, ContextInv, CutInv, MarksGrow
<1>5. ClosedInv'
  BY <1>1 DEF TransactionInv, ClosedInv, TypeOK
<1>6. BufferInv'
  BY <1>1, <1>2 DEF TransactionInv, BufferInv
<1>7. MarkInv'
  <2> SUFFICES ASSUME NEW d \in 1..Len(stack), stack[d].kind = "nested", ~doomed'[stack[d].tx]
               PROVE  Remembers(stack[d], buffer[stack[d].tx])
    BY <1>1 DEF MarkInv
  <2>1. stack[d].tx \in Depths
    BY NestedFrame DEF TransactionInv
  <2> QED
    BY <1>2, <2>1 DEF TransactionInv, MarkInv
<1>8. ItemsInv' /\ EventsMatchWrites' /\ FailedScopeLeavesNothing'
  BY <1>1, <1>2 DEF TransactionInv, ItemsInv, EventsMatchWrites, FailedScopeLeavesNothing, outVars
<1> QED
  BY <1>3, <1>4, <1>5, <1>6, <1>7, <1>8 DEF TransactionInv

LEMMA WorkKeepsInv == ASSUME NEW i \in Items PROVE TransactionInv /\ Work(i) => TransactionInv'
<1> SUFFICES ASSUME TransactionInv, Work(i) PROVE TransactionInv'
  OBVIOUS
<1> DEFINE t == Ctx.tx
<1>1. /\ t \in Depths \cup {None} /\ Ctx.events = t
      /\ t # None => t \in Depths /\ Open(stack, t)
  BY CtxFacts DEF TransactionInv, Frame
<1>2. /\ i \notin begun /\ begun' = begun \cup {i}
      /\ UNCHANGED <<stack, doomed, failed>>
  BY DEF Work
<1>3. ContextInv' /\ MarksGrow'
  BY <1>2 DEF TransactionInv, ContextInv, MarksGrow
<1>4. CASE t = None
  <2>1. /\ committed' = committed \cup {i} /\ dispatched' = dispatched \cup {i}
        /\ UNCHANGED <<pending, buffer>>
    BY <1>1, <1>4 DEF Work
  <2>2. TypeOK'
    BY <1>2, <2>1 DEF TransactionInv, TypeOK
  <2>3. ClosedInv' /\ BufferInv' /\ CutInv' /\ MarkInv'
    BY <1>2, <2>1 DEF TransactionInv, ClosedInv, BufferInv, CutInv, MarkInv
  <2>4. ItemsInv' /\ EventsMatchWrites' /\ FailedScopeLeavesNothing'
    BY <1>2, <2>1 DEF TransactionInv, ItemsInv, EventsMatchWrites, FailedScopeLeavesNothing
  <2> QED
    BY <1>3, <2>2, <2>3, <2>4 DEF TransactionInv
<1>5. CASE t # None
  <2>1. /\ pending' = IF doomed[t] THEN pending ELSE [pending EXCEPT ![t] = @ \cup {i}]
        /\ buffer' = [buffer EXCEPT ![t] = Append(@, i)]
        /\ UNCHANGED outVars
        /\ t \in Depths /\ Open(stack, t)
    BY <1>1, <1>5 DEF Work, outVars
  <2>2. buffer[t] \in Seq(Items)
    BY <2>1 DEF TransactionInv, TypeOK
  <2>3. /\ Append(buffer[t], i) \in Seq(Items)
        /\ ToSet(Append(buffer[t], i)) = ToSet(buffer[t]) \cup {i}
    BY <2>2, ToSetAppend
  <2>4. /\ buffer'[t] = Append(buffer[t], i)
        /\ \A u \in Depths : u # t => buffer'[u] = buffer[u] /\ pending'[u] = pending[u]
        /\ pending'[t] = IF doomed[t] THEN pending[t] ELSE pending[t] \cup {i}
    BY <2>1 DEF TransactionInv, TypeOK
  <2>5. TypeOK'
    <3>1. buffer' \in [Depths -> Seq(Items)]
      BY <2>1, <2>3 DEF TransactionInv, TypeOK
    <3>2. pending' \in [Depths -> SUBSET Items]
      BY <2>1 DEF TransactionInv, TypeOK
    <3> QED
      BY <1>2, <2>1, <3>1, <3>2 DEF TransactionInv, TypeOK, outVars
  <2>6. ClosedInv'
    BY <1>2, <2>1, <2>4 DEF TransactionInv, ClosedInv
  <2>7. BufferInv'
    BY <1>2, <2>3, <2>4 DEF TransactionInv, BufferInv
  <2>8. CutInv' /\ MarkInv'
    <3> SUFFICES ASSUME NEW d \in 1..Len(stack), stack[d].kind = "nested"
                 PROVE  /\ stack[d].mark <= Len(buffer'[stack[d].tx])
                        /\ ~doomed[stack[d].tx] => Remembers(stack[d], buffer'[stack[d].tx])
      BY <1>2 DEF CutInv, MarkInv
    <3>1. stack[d].tx \in Depths /\ stack[d].mark \in Nat
      BY NestedFrame DEF TransactionInv
    <3>2. /\ stack[d].mark <= Len(buffer[stack[d].tx])
          /\ ~doomed[stack[d].tx] => Remembers(stack[d], buffer[stack[d].tx])
      BY DEF TransactionInv, CutInv, MarkInv
    <3>3. CASE stack[d].tx # t
      BY <2>4, <3>1, <3>2, <3>3
    <3>4. CASE stack[d].tx = t
      <4>1. stack[d].mark <= Len(buffer[t])
        BY <3>2, <3>4
      <4>2. SubSeq(buffer'[t], 1, stack[d].mark) = SubSeq(buffer[t], 1, stack[d].mark)
        BY <2>2, <2>4, <3>1, <4>1, CutPrefix
      <4>3. stack[d].mark <= Len(buffer'[t])
        BY <2>2, <2>4, <3>1, <4>1
      <4> QED
        BY <3>2, <3>4, <4>2, <4>3 DEF Remembers
    <3> QED
      BY <3>3, <3>4
  <2>9. ItemsInv'
    BY <1>2, <2>1, <2>4 DEF TransactionInv, ItemsInv, outVars
  <2>10. EventsMatchWrites' /\ FailedScopeLeavesNothing'
    BY <1>2, <2>1 DEF TransactionInv, EventsMatchWrites, FailedScopeLeavesNothing, outVars
  <2> QED
    BY <1>3, <2>5, <2>6, <2>7, <2>8, <2>9, <2>10 DEF TransactionInv
<1> QED
  BY <1>4, <1>5

-----------------------------------------------------------------------------
(* Leaving a scope *)

\* Leaving a call that began no transaction keeps the invariant, if nothing but
\* the stack changes.
LEMMA ReturnsKeepsInv == TransactionInv /\ Returns => TransactionInv'
<1> SUFFICES ASSUME TransactionInv, Returns PROVE TransactionInv'
  OBVIOUS
<1> PICK kind \in {"join", "nested", "plain"} : Leave(kind)
  BY DEF Returns
<1>1. UNCHANGED <<doomed, pending, buffer, committed, dispatched, begun, failed>>
  BY DEF Returns, txVars, outVars
<1>2. /\ TypeOK' /\ ContextInv' /\ MarksGrow'
      /\ \A t : Open(stack', t) <=> Open(stack, t) /\ t # Len(stack)
  BY <1>1, LeaveKeepsStack DEF TransactionInv, TypeOK
<1>3. ~Open(stack, Len(stack))
  BY Popped DEF TransactionInv, Open
<1>4. ClosedInv' /\ BufferInv'
  BY <1>1, <1>2, <1>3 DEF TransactionInv, ClosedInv, BufferInv
<1>5. CutInv' /\ MarkInv'
  BY <1>1, Popped DEF TransactionInv, CutInv, MarkInv
<1> QED
  BY <1>1, <1>2, <1>4, <1>5, SameItems DEF TransactionInv, outVars

LEMMA JoinFailsKeepsInv == TransactionInv /\ JoinFails => TransactionInv'
<1> SUFFICES ASSUME TransactionInv, JoinFails PROVE TransactionInv'
  OBVIOUS
<1> DEFINE t == Ctx.tx
<1>1. /\ Leave("join")
      /\ doomed' = [doomed EXCEPT ![t] = TRUE] /\ failed' = failed \cup pending[t]
      /\ UNCHANGED <<pending, buffer, committed, dispatched, begun>>
  BY DEF JoinFails, outVars
<1>2. /\ Len(stack) \in Nat \ {0} /\ Len(stack') = Len(stack) - 1
      /\ \A d \in 1..(Len(stack) - 1) : stack'[d] = stack[d]
      /\ Ctx = stack[Len(stack)] /\ Ctx.kind = "join"
  BY <1>1, Popped DEF TransactionInv
<1>3. t # None
  BY <1>2 DEF TransactionInv, TypeOK
<1>4. t \in Depths /\ Open(stack, t)
  BY <1>3, CtxFacts DEF TransactionInv
<1>5. /\ doomed' \in [Depths -> BOOLEAN] /\ doomed'[t]
      /\ \A u \in Depths : ~doomed'[u] => ~doomed[u] /\ u # t
      /\ pending[t] \subseteq Items
  BY <1>1, <1>4 DEF TransactionInv, TypeOK
<1>6. /\ TypeOK' /\ ContextInv' /\ MarksGrow'
      /\ \A u : Open(stack', u) <=> Open(stack, u) /\ u # Len(stack)
  BY <1>1, <1>5, LeaveKeepsStack DEF TransactionInv, TypeOK
<1>7. ~Open(stack, Len(stack))
  BY <1>2 DEF Open
<1>8. ClosedInv'
  BY <1>1, <1>4, <1>6, <1>7 DEF TransactionInv, ClosedInv, TypeOK
<1>9. BufferInv'
  BY <1>1, <1>5 DEF TransactionInv, BufferInv
<1>10. MarkInv'
  <2> SUFFICES ASSUME NEW d \in 1..(Len(stack) - 1), stack[d].kind = "nested",
                      ~doomed'[stack[d].tx]
               PROVE  Remembers(stack[d], buffer[stack[d].tx])
    BY <1>1, <1>2 DEF MarkInv
  <2>1. d \in 1..Len(stack)
    BY <1>2
  <2>2. stack[d].tx \in Depths
    BY <2>1, NestedFrame DEF TransactionInv
  <2> QED
    BY <1>5, <2>1, <2>2 DEF TransactionInv, MarkInv
<1>11. ItemsInv'
  BY <1>1, <1>4, <1>5 DEF TransactionInv, ItemsInv
<1>12. EventsMatchWrites' /\ FailedScopeLeavesNothing'
  BY <1>1, <1>4 DEF TransactionInv, ItemsInv, EventsMatchWrites, FailedScopeLeavesNothing
<1>13. CutInv'
  BY <1>1, <1>2 DEF TransactionInv, CutInv
<1> QED
  BY <1>6, <1>8, <1>9, <1>10, <1>11, <1>12, <1>13 DEF TransactionInv

LEMMA NestedFailsKeepsInv == TransactionInv /\ NestedFails => TransactionInv'
<1> SUFFICES ASSUME TransactionInv, NestedFails PROVE TransactionInv'
  OBVIOUS
<1> DEFINE t == Ctx.tx
           n == Len(stack)
<1>1. /\ Leave("nested") /\ ~doomed[t]
      /\ UNCHANGED <<doomed, committed, dispatched, begun>>
  BY DEF NestedFails, outVars
<1>2. /\ n \in Nat \ {0} /\ Len(stack') = n - 1 /\ n \in 1..n
      /\ \A d \in 1..(n - 1) : stack'[d] = stack[d]
      /\ Ctx = stack[n] /\ Ctx.kind = "nested"
  BY <1>1, Popped DEF TransactionInv
<1>3. t \in Depths /\ Ctx.mark \in Nat /\ Ctx.saved \subseteq Items
  BY <1>2, NestedFrame DEF TransactionInv
<1>4. Ctx.events = t /\ Open(stack, t)
  BY <1>3, CtxFacts DEF TransactionInv, Depths, None
<1>5. buffer[t] \in Seq(Items) /\ pending[t] \subseteq Items
  BY <1>3 DEF TransactionInv, TypeOK
<1> DEFINE cut == SubSeq(buffer[t], 1, Ctx.mark)
<1>6. Ctx.mark <= Len(buffer[t]) /\ Remembers(Ctx, buffer[t])
  BY <1>1, <1>2 DEF TransactionInv, CutInv, MarkInv
<1>7. /\ Ctx.mark <= Len(buffer[t]) /\ ToSet(cut) = Ctx.saved
      /\ cut \in Seq(Items) /\ Len(cut) = Ctx.mark
  BY <1>3, <1>5, <1>6, CutPrefix DEF Remembers
<1>8. Ctx.saved \subseteq pending[t]
  <2>1. ToSet(cut) \subseteq ToSet(buffer[t])
    BY <1>3, <1>5, <1>7, PrefixSubset
  <2>2. ToSet(buffer[t]) = pending[t]
    BY <1>1, <1>3 DEF TransactionInv, BufferInv
  <2> QED
    BY <1>7, <2>1, <2>2
<1>9. /\ pending' = [pending EXCEPT ![t] = Ctx.saved]
      /\ buffer' = [buffer EXCEPT ![t] = cut]
      /\ failed' = failed \cup (pending[t] \ Ctx.saved)
  BY <1>4 DEF NestedFails, Nesting
<1>10. /\ pending'[t] = Ctx.saved /\ buffer'[t] = cut
       /\ \A u \in Depths : u # t => pending'[u] = pending[u] /\ buffer'[u] = buffer[u]
       /\ pending' \in [Depths -> SUBSET Items] /\ buffer' \in [Depths -> Seq(Items)]
  <2> HIDE DEF cut
  <2> QED
    BY <1>3, <1>7, <1>9 DEF TransactionInv, TypeOK
<1> HIDE DEF cut
<1>11. /\ TypeOK' /\ ContextInv' /\ MarksGrow'
       /\ \A u : Open(stack', u) <=> Open(stack, u) /\ u # n
  BY <1>1, <1>5, <1>9, <1>10, LeaveKeepsStack DEF TransactionInv, TypeOK
<1>12. ~Open(stack, n)
  BY <1>2 DEF Open
<1>13. ClosedInv'
  BY <1>1, <1>4, <1>10, <1>11, <1>12 DEF TransactionInv, ClosedInv
<1>14. BufferInv'
  BY <1>1, <1>7, <1>10 DEF TransactionInv, BufferInv
<1>15. CutInv' /\ MarkInv'
  <2> SUFFICES ASSUME NEW d \in 1..(n - 1), stack[d].kind = "nested"
               PROVE  /\ stack[d].mark <= Len(buffer'[stack[d].tx])
                      /\ ~doomed[stack[d].tx] => Remembers(stack[d], buffer'[stack[d].tx])
    BY <1>1, <1>2 DEF CutInv, MarkInv
  <2>1. d \in 1..n /\ d < n
    BY <1>2
  <2>2. stack[d].tx \in Depths /\ stack[d].mark \in Nat
    BY <2>1, NestedFrame DEF TransactionInv
  <2>3. /\ stack[d].mark <= Len(buffer[stack[d].tx])
        /\ ~doomed[stack[d].tx] => Remembers(stack[d], buffer[stack[d].tx])
    BY <2>1 DEF TransactionInv, CutInv, MarkInv
  <2>4. CASE stack[d].tx # t
    BY <1>10, <2>2, <2>3, <2>4
  <2>5. CASE stack[d].tx = t
    <3>1. stack[d].mark <= Ctx.mark
      BY <1>2, <2>1, <2>5 DEF TransactionInv, MarksGrow
    <3>2. SubSeq(cut, 1, stack[d].mark) = SubSeq(buffer[t], 1, stack[d].mark)
      BY <1>3, <1>5, <1>7, <2>2, <3>1, CutPrefix DEF cut
    <3>3. stack[d].mark <= Len(cut)
      BY <1>7, <3>1
    <3> QED
      BY <1>10, <2>3, <2>5, <3>2, <3>3 DEF Remembers
  <2> QED
    BY <2>4, <2>5
<1>16. ItemsInv'
  BY <1>1, <1>3, <1>8, <1>9, <1>10 DEF TransactionInv, ItemsInv
<1>17. EventsMatchWrites' /\ FailedScopeLeavesNothing'
  BY <1>1, <1>3, <1>9 DEF TransactionInv, ItemsInv, EventsMatchWrites, FailedScopeLeavesNothing
<1> QED
  BY <1>11, <1>13, <1>14, <1>15, <1>16, <1>17 DEF TransactionInv

LEMMA NestedRollbackFailsKeepsInv == TransactionInv /\ NestedRollbackFails => TransactionInv'
<1> SUFFICES ASSUME TransactionInv, NestedRollbackFails PROVE TransactionInv'
  OBVIOUS
<1> DEFINE t == Ctx.tx
           n == Len(stack)
<1>1. /\ Leave("nested")
      /\ doomed' = [doomed EXCEPT ![t] = TRUE]
      /\ failed' = failed \cup (pending[t] \ Ctx.saved)
      /\ UNCHANGED <<pending, committed, dispatched, begun>>
  BY DEF NestedRollbackFails, Nesting, outVars
<1>2. /\ n \in Nat \ {0} /\ Len(stack') = n - 1 /\ n \in 1..n
      /\ \A d \in 1..(n - 1) : stack'[d] = stack[d]
      /\ Ctx = stack[n] /\ Ctx.kind = "nested"
  BY <1>1, Popped DEF TransactionInv
<1>3. t \in Depths /\ Ctx.mark \in Nat
  BY <1>2, NestedFrame DEF TransactionInv
<1>4. Ctx.events = t /\ Open(stack, t)
  BY <1>3, CtxFacts DEF TransactionInv, Depths, None
<1>5. /\ buffer' \in [Depths -> Seq(Items)]
      /\ \A u \in Depths : u # t => buffer'[u] = buffer[u]
      /\ Ctx.mark <= Len(buffer'[t])
  <2>1. buffer[t] \in Seq(Items) /\ Ctx.mark <= Len(buffer[t])
    BY <1>2, <1>3 DEF TransactionInv, TypeOK, CutInv
  <2>2. CASE UNCHANGED buffer
    BY <2>1, <2>2 DEF TransactionInv, TypeOK
  <2>3. CASE buffer' = [buffer EXCEPT ![t] = SubSeq(@, 1, Ctx.mark)]
    <3> DEFINE cut == SubSeq(buffer[t], 1, Ctx.mark)
    <3>1. cut \in Seq(Items) /\ Ctx.mark <= Len(cut)
      BY <1>3, <2>1, CutPrefix
    <3>2. buffer' = [buffer EXCEPT ![t] = cut]
      BY <2>3
    <3> HIDE DEF cut
    <3> QED
      BY <1>3, <3>1, <3>2 DEF TransactionInv, TypeOK
  <2> QED
    BY <1>4, <2>2, <2>3 DEF NestedRollbackFails
<1>6. /\ doomed' \in [Depths -> BOOLEAN] /\ doomed'[t]
      /\ \A u \in Depths : ~doomed'[u] => ~doomed[u] /\ u # t
      /\ pending[t] \subseteq Items
  BY <1>1, <1>3 DEF TransactionInv, TypeOK
<1>7. /\ TypeOK' /\ ContextInv' /\ MarksGrow'
      /\ \A u : Open(stack', u) <=> Open(stack, u) /\ u # n
  BY <1>1, <1>5, <1>6, LeaveKeepsStack DEF TransactionInv, TypeOK
<1>8. ~Open(stack, n)
  BY <1>2 DEF Open
<1>9. ClosedInv'
  BY <1>1, <1>4, <1>5, <1>7, <1>8 DEF TransactionInv, ClosedInv, TypeOK
<1>10. BufferInv'
  BY <1>1, <1>5, <1>6 DEF TransactionInv, BufferInv
<1>11. MarkInv'
  <2> SUFFICES ASSUME NEW d \in 1..(n - 1), stack[d].kind = "nested", ~doomed'[stack[d].tx]
               PROVE  Remembers(stack[d], buffer'[stack[d].tx])
    BY <1>2 DEF MarkInv
  <2>1. d \in 1..n
    BY <1>2
  <2>2. stack[d].tx \in Depths
    BY <2>1, NestedFrame DEF TransactionInv
  <2> QED
    BY <1>5, <1>6, <2>1, <2>2 DEF TransactionInv, MarkInv
<1>12. ItemsInv'
  BY <1>1, <1>3, <1>6 DEF TransactionInv, ItemsInv
<1>13. EventsMatchWrites' /\ FailedScopeLeavesNothing'
  BY <1>1, <1>3 DEF TransactionInv, ItemsInv, EventsMatchWrites, FailedScopeLeavesNothing
<1>14. CutInv'
  <2> SUFFICES ASSUME NEW d \in 1..(n - 1), stack[d].kind = "nested"
               PROVE  stack[d].mark <= Len(buffer'[stack[d].tx])
    BY <1>2 DEF CutInv
  <2>1. d \in 1..n /\ d < n
    BY <1>2
  <2>2. stack[d].tx \in Depths /\ stack[d].mark \in Nat
    BY <2>1, NestedFrame DEF TransactionInv
  <2>3. CASE stack[d].tx # t
    BY <1>5, <2>1, <2>2, <2>3 DEF TransactionInv, CutInv
  <2>4. CASE stack[d].tx = t
    <3>1. stack[d].mark <= Ctx.mark
      BY <1>2, <2>1, <2>4 DEF TransactionInv, MarksGrow
    <3>2. Len(buffer'[t]) \in Nat
      BY <1>3, <1>5
    <3> QED
      BY <1>3, <1>5, <2>2, <2>4, <3>1, <3>2
  <2> QED
    BY <2>3, <2>4
<1> QED
  BY <1>7, <1>9, <1>10, <1>11, <1>12, <1>13, <1>14 DEF TransactionInv

\* The call that ends a transaction is the one that began it.
LEMMA NewFrame ==
  ASSUME TypeOK, Leave("new")
  PROVE  Ctx.tx = Len(stack) /\ Ctx.tx \in Depths
<1>1. /\ Len(stack) \in Nat \ {0} /\ Len(stack) <= MaxDepth
      /\ Ctx = stack[Len(stack)] /\ Ctx.kind = "new"
  BY Popped
<1>2. Len(stack) \in 1..Len(stack) /\ Len(stack) \in Depths
  BY <1>1, DepthAssumption DEF Depths
<1> QED
  BY <1>1, <1>2 DEF TypeOK

\* The end of a physical transaction leaves nothing of it behind.
LEMMA EndOfTx ==
  ASSUME TransactionInv, Leave("new"), Forget(Ctx.tx), committed' \subseteq Items,
         dispatched' \subseteq Items, begun' \subseteq Items, failed' \subseteq Items
  PROVE  /\ Ctx.tx \in Depths
         /\ TypeOK' /\ ContextInv' /\ ClosedInv' /\ BufferInv' /\ CutInv' /\ MarkInv'
         /\ MarksGrow'
         /\ pending'[Ctx.tx] = {}
         /\ \A u \in Depths : u # Ctx.tx => pending'[u] = pending[u] /\ doomed'[u] = doomed[u]
<1> DEFINE n == Len(stack)
<1>1. /\ n \in Nat \ {0} /\ n <= MaxDepth /\ Len(stack') = n - 1
      /\ \A d \in 1..(n - 1) : stack'[d] = stack[d]
      /\ Ctx = stack[n] /\ Ctx.kind = "new"
  BY Popped DEF TransactionInv
<1>2. n \in 1..n
  BY <1>1
<1>3. Ctx.tx = n /\ n \in Depths
  BY NewFrame DEF TransactionInv
<1>5. /\ doomed' \in [Depths -> BOOLEAN] /\ pending' \in [Depths -> SUBSET Items]
      /\ ~doomed'[n] /\ pending'[n] = {} /\ buffer'[n] = << >>
      /\ \A u \in Depths : u # n => /\ pending'[u] = pending[u] /\ doomed'[u] = doomed[u]
                                    /\ buffer'[u] = buffer[u]
  BY <1>3 DEF TransactionInv, TypeOK, Forget
<1>6. buffer' \in [Depths -> Seq(Items)]
  BY <1>3 DEF TransactionInv, TypeOK, Forget
<1>7. /\ TypeOK' /\ ContextInv' /\ MarksGrow'
      /\ \A u : Open(stack', u) <=> Open(stack, u) /\ u # n
  BY <1>5, <1>6, LeaveKeepsStack DEF TransactionInv, TypeOK
<1>8. ClosedInv'
  BY <1>5, <1>7 DEF TransactionInv, ClosedInv
<1>9. BufferInv'
  <2>1. ToSet(<< >>) = {}
    BY DEF ToSet
  <2> QED
    BY <1>5, <2>1 DEF TransactionInv, BufferInv
<1>10. CutInv' /\ MarkInv'
  <2> SUFFICES ASSUME NEW d \in 1..(n - 1), stack[d].kind = "nested"
               PROVE  /\ stack[d].mark <= Len(buffer'[stack[d].tx])
                      /\ ~doomed'[stack[d].tx] => Remembers(stack[d], buffer'[stack[d].tx])
    BY <1>1 DEF CutInv, MarkInv
  <2>1. d \in 1..n /\ d < n
    BY <1>1
  <2>2. stack[d].tx \in Depths /\ stack[d].tx # None
    BY <2>1, NestedFrame DEF TransactionInv, Depths, None
  <2>3. stack[d].tx <= d
    BY <2>1, <2>2, Zenon DEF TransactionInv, ContextInv
  <2>4. stack[d].tx # n
    BY <1>1, <2>1, <2>2, <2>3, DepthAssumption DEF Depths
  <2> QED
    BY <1>5, <2>1, <2>2, <2>4 DEF TransactionInv, CutInv, MarkInv
<1> QED
  BY <1>3, <1>5, <1>7, <1>8, <1>9, <1>10

LEMMA CommitKeepsInv == TransactionInv /\ Commit => TransactionInv'
<1> SUFFICES ASSUME TransactionInv, Commit PROVE TransactionInv'
  OBVIOUS
<1> DEFINE t == Ctx.tx
<1>1. /\ Leave("new") /\ ~doomed[t] /\ Forget(t)
      /\ committed' = committed \cup pending[t]
      /\ dispatched' = dispatched \cup ToSet(buffer[t])
      /\ UNCHANGED <<begun, failed>>
  BY DEF Commit
<1>2. t \in Depths
  BY <1>1, NewFrame DEF TransactionInv
<1>3. ToSet(buffer[t]) = pending[t] /\ pending[t] \subseteq Items
  BY <1>1, <1>2 DEF TransactionInv, BufferInv, TypeOK
<1>4. /\ TypeOK' /\ ContextInv' /\ ClosedInv' /\ BufferInv' /\ CutInv' /\ MarkInv'
      /\ MarksGrow'
      /\ pending'[t] = {}
      /\ \A u \in Depths : u # t => pending'[u] = pending[u] /\ doomed'[u] = doomed[u]
  <2>1. committed' \subseteq Items /\ dispatched' \subseteq Items /\ begun' \subseteq Items
        /\ failed' \subseteq Items
    BY <1>1, <1>3 DEF TransactionInv, TypeOK
  <2> QED
    BY <1>1, <2>1, EndOfTx
<1>5. ItemsInv'
  BY <1>1, <1>2, <1>4 DEF TransactionInv, ItemsInv
<1>6. EventsMatchWrites' /\ FailedScopeLeavesNothing'
  BY <1>1, <1>2, <1>3 DEF TransactionInv, ItemsInv, EventsMatchWrites, FailedScopeLeavesNothing
<1> QED
  BY <1>4, <1>5, <1>6 DEF TransactionInv

LEMMA RollbackKeepsInv == TransactionInv /\ Rollback => TransactionInv'
<1> SUFFICES ASSUME TransactionInv, Rollback PROVE TransactionInv'
  OBVIOUS
<1> DEFINE t == Ctx.tx
<1>1. /\ Leave("new") /\ Forget(t) /\ failed' = failed \cup pending[t]
      /\ UNCHANGED <<committed, dispatched, begun>>
  BY DEF Rollback, outVars
<1>2. t \in Depths
  BY <1>1, NewFrame DEF TransactionInv
<1>3. pending[t] \subseteq Items
  BY <1>2 DEF TransactionInv, TypeOK
<1>4. /\ TypeOK' /\ ContextInv' /\ ClosedInv' /\ BufferInv' /\ CutInv' /\ MarkInv'
      /\ MarksGrow'
      /\ pending'[t] = {}
      /\ \A u \in Depths : u # t => pending'[u] = pending[u] /\ doomed'[u] = doomed[u]
  <2>1. committed' \subseteq Items /\ dispatched' \subseteq Items /\ begun' \subseteq Items
        /\ failed' \subseteq Items
    BY <1>1, <1>3 DEF TransactionInv, TypeOK
  <2> QED
    BY <1>1, <2>1, EndOfTx
<1>5. ItemsInv'
  BY <1>1, <1>2, <1>4 DEF TransactionInv, ItemsInv
<1>6. EventsMatchWrites' /\ FailedScopeLeavesNothing'
  BY <1>1, <1>2 DEF TransactionInv, ItemsInv, EventsMatchWrites, FailedScopeLeavesNothing
<1> QED
  BY <1>4, <1>5, <1>6 DEF TransactionInv

-----------------------------------------------------------------------------
(* The theorems *)

LEMMA InvInit == TxInit => TransactionInv
<1> SUFFICES ASSUME TxInit PROVE TransactionInv
  OBVIOUS
<1>1. Len(stack) = 0 /\ stack \in Seq(Frame) /\ 1..Len(stack) = {}
  BY DEF TxInit
<1>2. TypeOK
  BY <1>1, DepthAssumption DEF TxInit, TypeOK
<1>3. ContextInv /\ CutInv /\ MarkInv /\ MarksGrow
  BY <1>1 DEF ContextInv, CutInv, MarkInv, MarksGrow
<1>4. ClosedInv
  BY DEF TxInit, ClosedInv
<1>5. BufferInv
  BY DEF TxInit, BufferInv, ToSet
<1>6. ItemsInv /\ EventsMatchWrites /\ FailedScopeLeavesNothing
  BY DEF TxInit, ItemsInv, EventsMatchWrites, FailedScopeLeavesNothing
<1> QED
  BY <1>2, <1>3, <1>4, <1>5, <1>6 DEF TransactionInv

LEMMA StutterKeepsInv == TransactionInv /\ UNCHANGED callVars => TransactionInv'
BY DEF callVars, txVars, outVars, TransactionInv, TypeOK, ContextInv, ClosedInv, BufferInv, CutInv, MarkInv,
       MarksGrow, ItemsInv, EventsMatchWrites, FailedScopeLeavesNothing

LEMMA InvStep == TransactionInv /\ [TxNext]_callVars => TransactionInv'
BY CallKeepsInv, SavepointFailsKeepsInv, WorkKeepsInv, ReturnsKeepsInv, JoinFailsKeepsInv,
   NestedFailsKeepsInv, NestedRollbackFailsKeepsInv, CommitKeepsInv, RollbackKeepsInv,
   StutterKeepsInv
   DEF TxNext

LEMMA InvAlways == TxSpec => []TransactionInv
BY InvInit, InvStep, PTL DEF TxSpec

\* The stack of calls, the transactions and the outcomes keep their types
\* (transaction.go, executeIn*).
THEOREM TypeCorrect == TxSpec => []TypeOK
<1>1. TransactionInv => TypeOK
  BY DEF TransactionInv
<1> QED
  BY <1>1, InvAlways, PTL

\* However deep calls of Transactional nest, the events given to the event bus are
\* those of the writes that are committed (executeInNewTx, the post-commit hook).
THEOREM EventsAlwaysMatchWrites == TxSpec => []EventsMatchWrites
<1>1. TransactionInv => EventsMatchWrites
  BY DEF TransactionInv
<1> QED
  BY <1>1, InvAlways, PTL

\* Nothing that was written in a scope that failed is ever committed
\* (executeInActiveTx, executeInNestedTx, executeInNewTx).
THEOREM FailedScopesLeaveNothing == TxSpec => []FailedScopeLeavesNothing
<1>1. TransactionInv => FailedScopeLeavesNothing
  BY DEF TransactionInv
<1> QED
  BY <1>1, InvAlways, PTL

\* The cut of a rollback to a savepoint stays within the buffer, in a doomed
\* transaction too ("(*buffer)[:initialLen]" in executeInNestedTx).
THEOREM CutsStayInRange == TxSpec => []CutInv
<1>1. TransactionInv => CutInv
  BY DEF TransactionInv
<1> QED
  BY <1>1, InvAlways, PTL

\* What a step commits was not pending in a transaction with an error: a commit
\* is one of another transaction, and work outside of any is new.
LEMMA DoomedStep ==
  ASSUME TransactionInv, [TxNext]_callVars, NEW t \in Depths, doomed[t]
  PROVE  (committed' \ committed) \cap pending[t] = {}
<1>1. CASE Commit
  <2>1. Ctx.tx \in Depths
    BY <1>1, NewFrame DEF TransactionInv, Commit
  <2>2. Ctx.tx # t /\ committed' = committed \cup pending[Ctx.tx]
    BY <1>1 DEF Commit
  <2> QED
    BY <2>1, <2>2 DEF TransactionInv, ItemsInv
<1>2. ASSUME NEW i \in Items, Work(i)
      PROVE  (committed' \ committed) \cap pending[t] = {}
  <2>1. i \notin pending[t] /\ committed' \subseteq committed \cup {i}
    BY <1>2 DEF Work, TransactionInv, ItemsInv
  <2> QED
    BY <2>1
<1>3. CASE Call
  BY <1>3 DEF Call, Required, RequiresNew, Nested, Supports, NotSupported, Mandatory, Never,
              BeginTx, JoinTx, Savepoint, SameContext, Suspend, Enter, outVars
<1>4. CASE SavepointFails \/ Returns \/ JoinFails \/ NestedFails \/ NestedRollbackFails
           \/ Rollback \/ UNCHANGED callVars
  BY <1>4 DEF SavepointFails, Returns, JoinFails, NestedFails, NestedRollbackFails, Rollback,
              callVars, outVars
<1> QED
  BY <1>1, <1>2, <1>3, <1>4 DEF TxNext

\* A transaction that carries an error is never committed (executeInNewTx).
THEOREM DoomedIsLost == TxSpec => DoomedNeverCommits
<1>1. TransactionInv /\ [TxNext]_callVars =>
        [\A t \in Depths : doomed[t] => (committed' \ committed) \cap pending[t] = {}]_callVars
  BY DoomedStep
<1> QED
  BY <1>1, InvAlways, PTL DEF TxSpec, DoomedNeverCommits

-----------------------------------------------------------------------------
(* Migrations.                                                             *)

Fields == {"pc", "kind", "steps", "deadline", "t", "at", "seen", "todo", "batch"}

\* The lock row, as far as it matters: whose it is and how old its heartbeat.
Owns(r) == lock.locked /\ lock.by = r /\ now - 1 <= lock.at

\* What a waiting replica knows of the clock and of the row it has read.
Knows(r) ==
  /\ run[r].pc \in {"wait", "look", "break"} =>
       run[r].kind \in {"migrate", "rollback", "reset", "refresh"}
  /\ run[r].pc \in {"look", "break"} => run[r].t \in now - 1 .. now
  /\ run[r].pc = "break" => run[r].at \in Int /\ run[r].t - run[r].at > Timeout

\* A replica that holds and is not stalled owns a row with a fresh heartbeat;
\* only who holds is stalled.
IInv ==
  /\ now \in Int
  /\ lock \in [locked : BOOLEAN, at : Int, by : Replicas \cup {Nil}]
  /\ run = [r \in Replicas |-> run[r]]
  /\ \A r \in Replicas : DOMAIN run[r] = Fields
  /\ stalled \subseteq Replicas /\ \A r \in stalled : Holding(r)
  /\ \A r \in Replicas : Holding(r) /\ r \notin stalled => Owns(r)
  /\ \A r \in Replicas : Knows(r)

LEMMA IdleFields == DOMAIN Idle = Fields /\ Idle.pc = "idle"
BY DEF Idle, Fields

LEMMA InitIInv == Init => IInv
<1> SUFFICES ASSUME Init PROVE IInv
  OBVIOUS
<1>1. now \in Int /\ lock \in [locked : BOOLEAN, at : Int, by : Replicas \cup {Nil}]
  BY DEF Init
<1>2. run = [r \in Replicas |-> run[r]] /\ \A r \in Replicas : run[r] = Idle
  BY DEF Init
<1>3. stalled = {}
  BY DEF Init
<1>4. \A r \in Replicas : ~Holding(r) /\ Knows(r)
  BY <1>2, IdleFields DEF Holding, Critical, Knows
<1> QED
  BY <1>1, <1>2, <1>3, <1>4, IdleFields DEF IInv

\* Of the replicas only r moves.
Only(r) ==
  /\ run' = [s \in Replicas |-> run'[s]]
  /\ DOMAIN run'[r] = Fields
  /\ \A s \in Replicas \ {r} : run'[s] = run[s]

\* A step that leaves the row and the clock alone, and nobody enters or leaves.
LEMMA StepIInv ==
  ASSUME IInv, NEW r \in Replicas, Only(r), Holding(r)' <=> Holding(r), Knows(r)',
         now' = now, lock' = lock, stalled' = stalled
  PROVE  IInv'
<1>1. \A s \in Replicas : Holding(s)' <=> Holding(s)
  BY DEF Only, Holding
<1>2. \A s \in Replicas : Knows(s)' /\ DOMAIN run'[s] = Fields
  BY DEF IInv, Knows, Only
<1>3. \A s \in stalled : Holding(s)'
  BY <1>1 DEF IInv
<1> QED
  BY <1>1, <1>2, <1>3 DEF IInv, Owns, Only

\* A replica takes the row while no heart beats for it.
LEMMA OwnIInv ==
  ASSUME IInv, NEW r \in Replicas, NEW t \in Int, now - 1 <= t,
         \A s \in Replicas \ stalled : ~Holding(s),
         run[r].pc \in {"wait", "break"}, Own(r, t),
         now' = now, stalled' = stalled
  PROVE  IInv'
<1> DEFINE new == [Idle EXCEPT !.pc = FirstStep(run[r].kind), !.kind = run[r].kind, !.steps = run[r].steps]
<1>1. run' = [run EXCEPT ![r] = new]
  BY DEF Own
<1>2. new.pc = FirstStep(run[r].kind) /\ DOMAIN new = Fields
  BY IdleFields DEF Fields
<1>3. FirstStep(run[r].kind) \in Critical
  BY DEF IInv, Knows, FirstStep, Critical
<1> HIDE DEF new
<1>4. Only(r) /\ run'[r] = new
  BY <1>1, <1>2 DEF IInv, Only
<1>5. Holding(r)' /\ Knows(r)' /\ Owns(r)'
  BY <1>2, <1>3, <1>4 DEF Holding, Knows, Critical, Owns, Own
<1>6. \A s \in Replicas \ {r} : (Holding(s)' <=> Holding(s)) /\ Knows(s)'
  BY <1>4 DEF Only, Holding, Knows, IInv
<1>7. lock' \in [locked : BOOLEAN, at : Int, by : Replicas \cup {Nil}]
  BY DEF Own
<1> QED
  BY <1>4, <1>5, <1>6, <1>7 DEF IInv, Only

\* Every step of an operation under the lock, but its end.
LEMMA InsideIInv ==
  ASSUME IInv, NEW r \in Replicas,
         \/ ReadExecuted(r) \/ ApplyBaseline(r) \/ Plan(r) \/ Up(r) \/ UpFails(r)
         \/ Count(r) \/ ReadDescending(r) \/ Down(r) \/ DownFails(r)
  PROVE  IInv'
<1>1. SUFFICES Only(r) /\ run[r].pc \in Critical /\ run'[r].pc \in Critical
               /\ now' = now /\ lock' = lock /\ stalled' = stalled
  BY <1>1, StepIInv DEF Holding, Knows, Critical
<1>2. CASE ReadExecuted(r)
  BY <1>2 DEF ReadExecuted, IInv, Only, Fields, Critical
<1>3. CASE ApplyBaseline(r)
  <2>1. \/ \E seen : run' = [run EXCEPT ![r].pc = "plan", ![r].seen = seen]
        \/ run' = [run EXCEPT ![r].pc = "release"]
    BY <1>3 DEF ApplyBaseline, Goto
  <2>2. Only(r) /\ run'[r].pc \in {"plan", "release"}
    BY <2>1 DEF IInv, Only, Fields
  <2> QED
    BY <1>3, <2>2 DEF ApplyBaseline, Critical
<1>4. CASE Plan(r)
  <2>1. \/ \E todo, batch : run' = [run EXCEPT ![r].pc = "up", ![r].todo = todo,
                                              ![r].batch = batch, ![r].seen = {}]
        \/ run' = [run EXCEPT ![r].pc = "release"]
    BY <1>4 DEF Plan, Goto
  <2>2. ASSUME NEW todo, NEW batch,
               run' = [run EXCEPT ![r].pc = "up", ![r].todo = todo,
                                  ![r].batch = batch, ![r].seen = {}]
        PROVE  Only(r) /\ run'[r].pc = "up"
    BY <2>2 DEF IInv, Only, Fields
  <2>3. ASSUME run' = [run EXCEPT ![r].pc = "release"]
        PROVE  Only(r) /\ run'[r].pc = "release"
    BY <2>3 DEF IInv, Only, Fields
  <2>4. Only(r) /\ run'[r].pc \in {"up", "release"}
    BY <2>1, <2>2, <2>3
  <2> QED
    BY <1>4, <2>4 DEF Plan, Critical
<1>5. CASE Up(r)
  BY <1>5 DEF Up, Advance, Goto, IInv, Only, Fields, Critical
<1>6. CASE UpFails(r) \/ DownFails(r)
  BY <1>6 DEF UpFails, DownFails, Fails, IInv, Only, Fields, Critical
<1>7. CASE Count(r)
  BY <1>7 DEF Count, IInv, Only, Fields, Critical
<1>8. CASE ReadDescending(r)
  BY <1>8 DEF ReadDescending, AfterDown, IInv, Only, Fields, Critical
<1>9. CASE Down(r)
  BY <1>9 DEF Down, Advance, AfterDown, IInv, Only, Fields, Critical
<1> QED
  BY <1>2, <1>3, <1>4, <1>5, <1>6, <1>7, <1>8, <1>9

\* Nobody's heart beats for a row that is free, or older than the timeout.
LEMMA NoHeart ==
  ASSUME IInv, NEW r \in Replicas,
         \/ ~lock.locked
         \/ run[r].pc = "break" /\ lock.at = run[r].at
  PROVE  \A s \in Replicas \ stalled : ~Holding(s)
<1>1. Timeout \in Int /\ Timeout >= 1
  BY MigrationAssumption
<1>2. now \in Int /\ lock.at \in Int
  BY DEF IInv
<1>3. CASE ~lock.locked
  BY <1>3 DEF IInv, Owns
<1>4. CASE run[r].pc = "break" /\ lock.at = run[r].at
  <2>1. lock.at < now - 1
    BY <1>1, <1>2, <1>4 DEF IInv, Knows
  <2> QED
    BY <1>2, <2>1 DEF IInv, Owns
<1> QED
  BY <1>3, <1>4

\* The steps of waitForLock and acquireLock.
LEMMA WaitIInv ==
  ASSUME IInv, NEW r \in Replicas, TryLock(r) \/ Look(r) \/ Break(r) \/ GiveUp(r)
  PROVE  IInv'
<1>1. CASE TryLock(r)
  <2>1. CASE lock.locked
    <3>1. run' = [run EXCEPT ![r].pc = "look", ![r].t = now]
      BY <1>1, <2>1 DEF TryLock
    <3>2. Only(r) /\ run'[r].pc = "look" /\ run'[r].t = now /\ run'[r].kind = run[r].kind
      BY <3>1 DEF IInv, Only, Fields
    <3>3. Knows(r)' /\ ~Holding(r) /\ ~Holding(r)'
      BY <1>1, <3>2 DEF TryLock, IInv, Knows, Holding, Critical
    <3> QED
      BY <1>1, <2>1, <3>2, <3>3, StepIInv DEF TryLock
  <2>2. CASE ~lock.locked
    BY <1>1, <2>2, NoHeart, OwnIInv DEF TryLock, IInv
  <2> QED
    BY <2>1, <2>2
<1>2. CASE Look(r)
  <2>1. Only(r) /\ run'[r].kind = run[r].kind
    BY <1>2 DEF Look, IInv, Only, Fields
  <2>2. CASE lock.locked /\ run[r].t - lock.at > Timeout
    <3>1. run' = [run EXCEPT ![r].pc = "break", ![r].at = lock.at]
      BY <1>2, <2>2 DEF Look
    <3>2. run'[r].pc = "break" /\ run'[r].at = lock.at /\ run'[r].t = run[r].t
      BY <3>1 DEF IInv, Fields
    <3> QED
      BY <1>2, <2>1, <2>2, <3>2, StepIInv DEF Look, IInv, Knows, Holding, Critical
  <2>3. CASE ~(lock.locked /\ run[r].t - lock.at > Timeout)
    <3>1. run' = [run EXCEPT ![r].pc = "wait", ![r].t = 0]
      BY <1>2, <2>3 DEF Look
    <3>2. run'[r].pc = "wait"
      BY <3>1 DEF IInv, Fields
    <3> QED
      BY <1>2, <2>1, <3>2, StepIInv DEF Look, IInv, Knows, Holding, Critical
  <2> QED
    BY <2>2, <2>3
<1>3. CASE Break(r)
  <2>1. CASE lock.locked /\ lock.at = run[r].at
    BY <1>3, <2>1, NoHeart, OwnIInv DEF Break, IInv, Knows
  <2>2. CASE ~(lock.locked /\ lock.at = run[r].at)
    <3>1. Only(r) /\ run'[r].pc = "wait" /\ run'[r].kind = run[r].kind
      BY <1>3, <2>2 DEF Break, IInv, Only, Fields
    <3>2. Knows(r)' /\ ~Holding(r) /\ ~Holding(r)'
      BY <1>3, <3>1 DEF Break, IInv, Knows, Holding, Critical
    <3> QED
      BY <1>3, <2>2, <3>1, <3>2, StepIInv DEF Break
  <2> QED
    BY <2>1, <2>2
<1>4. CASE GiveUp(r)
  <2>1. Only(r) /\ run'[r] = Idle
    BY <1>4, IdleFields DEF GiveUp, IInv, Only
  <2>2. Knows(r)' /\ ~Holding(r) /\ ~Holding(r)'
    BY <1>4, <2>1, IdleFields DEF GiveUp, Knows, Holding, Critical
  <2> QED
    BY <1>4, <2>1, <2>2, StepIInv DEF GiveUp
<1> QED
  BY <1>1, <1>2, <1>3, <1>4

\* A replica that held or waited is out: it neither holds nor waits.
LEMMA LeaveIInv ==
  ASSUME IInv, NEW r \in Replicas, Only(r), run'[r].pc \in {"idle", "crashed"},
         stalled' = stalled \ {r}, now' = now, lock' = lock
  PROVE  IInv'
<1>1. ~Holding(r)' /\ Knows(r)'
  BY DEF Holding, Critical, Knows
<1>2. \A s \in Replicas \ {r} : (Holding(s)' <=> Holding(s)) /\ Knows(s)' /\ (Owns(s) => Owns(s)')
  BY DEF Only, Holding, Knows, Owns, IInv
<1> QED
  BY <1>1, <1>2 DEF IInv, Only

LEMMA CrashIInv == ASSUME IInv, NEW r \in Replicas, Crash(r) PROVE IInv'
<1> DEFINE new == [Idle EXCEPT !.pc = "crashed"]
<1>1. run' = [run EXCEPT ![r] = new]
  BY DEF Crash
<1>2. new.pc = "crashed" /\ DOMAIN new = Fields
  BY IdleFields DEF Fields
<1> HIDE DEF new
<1>3. Only(r) /\ run'[r] = new
  BY <1>1, <1>2 DEF IInv, Only
<1> QED
  BY <1>2, <1>3, LeaveIInv DEF Crash

\* A replica releases only its own row, which no other heart beats for.
LEMMA ReleaseIInv == ASSUME IInv, NEW r \in Replicas, Release(r) PROVE IInv'
<1>1. Only(r) /\ run'[r] = Idle
  BY IdleFields DEF Release, IInv, Only
<1>2. CASE lock.by # r
  BY <1>1, <1>2, IdleFields, LeaveIInv DEF Release
<1>3. CASE lock.by = r
  <2>1. lock' \in [locked : BOOLEAN, at : Int, by : Replicas \cup {Nil}]
    BY <1>3 DEF Release, IInv
  <2>2. ~Holding(r)' /\ Knows(r)'
    BY <1>1, IdleFields DEF Holding, Critical, Knows
  <2>3. \A s \in Replicas \ {r} : (Holding(s)' <=> Holding(s)) /\ Knows(s)' /\ ~Owns(s)
    BY <1>1, <1>3 DEF Only, Holding, Knows, Owns, IInv, Release
  <2>4. stalled' = stalled \ {r} /\ now' = now
    BY DEF Release
  <2> QED
    BY <1>1, <2>1, <2>2, <2>3, <2>4 DEF IInv, Only
<1> QED
  BY <1>2, <1>3

LEMMA StartIInv ==
  ASSUME IInv, NEW r \in Replicas, NEW kind \in {"migrate", "rollback", "reset", "refresh"},
         NEW steps, Start(r, kind, steps)
  PROVE  IInv'
<1> DEFINE new == [Idle EXCEPT !.pc = "wait", !.kind = kind, !.steps = steps,
                               !.deadline = now + MaxWait]
<1>1. run' = [run EXCEPT ![r] = new]
  BY DEF Start
<1>2. new.pc = "wait" /\ new.kind = kind /\ DOMAIN new = Fields
  BY IdleFields DEF Idle, Fields
<1> HIDE DEF new
<1>3. Only(r) /\ run'[r] = new
  BY <1>1, <1>2 DEF IInv, Only
<1>4. Knows(r)' /\ ~Holding(r) /\ ~Holding(r)'
  BY <1>2, <1>3 DEF Start, Knows, Holding, Critical
<1> QED
  BY <1>3, <1>4, StepIInv DEF Start

\* Time passes only when every beating heart has beaten in this interval.
LEMMA TickIInv == IInv /\ Tick => IInv'
<1> SUFFICES ASSUME IInv, Tick PROVE IInv'
  OBVIOUS
<1>1. now' = now + 1 /\ lock' = lock /\ run' = run /\ stalled' = stalled
  BY DEF Tick
<1>2. \A s \in Replicas : (Holding(s)' <=> Holding(s)) /\ DOMAIN run'[s] = Fields
  BY <1>1 DEF Holding, IInv
<1>3. \A s \in Replicas : Holding(s) /\ s \notin stalled => Owns(s)'
  BY <1>1 DEF Tick, IInv, Owns
<1>4. \A s \in Replicas : Knows(s)'
  <2> SUFFICES ASSUME NEW s \in Replicas PROVE Knows(s)'
    OBVIOUS
  <2>1. CASE run[s].pc \in {"look", "break"}
    <3>1. s \notin stalled
      BY <2>1 DEF IInv, Holding, Critical
    <3>2. run[s].t = now
      BY <2>1, <3>1 DEF Tick
    <3> QED
      BY <1>1, <3>2 DEF IInv, Knows
  <2>2. CASE run[s].pc \notin {"look", "break"}
    BY <1>1, <2>2 DEF IInv, Knows
  <2> QED
    BY <2>1, <2>2
<1> QED
  BY <1>1, <1>2, <1>3, <1>4 DEF IInv

LEMMA HeartbeatIInv == ASSUME IInv, NEW r \in Replicas, updateLockHeartbeat(r) PROVE IInv'
<1>1. lock' = [lock EXCEPT !.at = now] /\ now' = now /\ run' = run /\ stalled' = stalled
  BY DEF updateLockHeartbeat
<1>2. \A s \in Replicas : (Holding(s)' <=> Holding(s)) /\ Knows(s)' /\ (Owns(s) => Owns(s)')
  BY <1>1 DEF Holding, Knows, Owns, IInv
<1> QED
  BY <1>1, <1>2 DEF IInv

LEMMA StallIInv == ASSUME IInv, NEW r \in Replicas, Stall(r) PROVE IInv'
<1>1. lock' = lock /\ now' = now /\ run' = run /\ stalled' = stalled \cup {r} /\ Holding(r)
  BY DEF Stall
<1>2. \A s \in Replicas : (Holding(s)' <=> Holding(s)) /\ Knows(s)' /\ (Owns(s) => Owns(s)')
  BY <1>1 DEF Holding, Knows, Owns, IInv
<1> QED
  BY <1>1, <1>2 DEF IInv

LEMMA NextIInv == IInv /\ [Next]_vars => IInv'
<1> SUFFICES ASSUME IInv, [Next]_vars PROVE IInv'
  OBVIOUS
<1>1. CASE Tick
  BY <1>1, TickIInv
<1>2. ASSUME NEW r \in Replicas, NEW kind \in {"migrate", "reset", "refresh"}, Start(r, kind, 0)
      PROVE  IInv'
  BY <1>2, StartIInv
<1>3. ASSUME NEW r \in Replicas, NEW steps \in {0, 1}, Start(r, "rollback", steps)
      PROVE  IInv'
  BY <1>3, StartIInv
<1>4. ASSUME NEW r \in Replicas, Operation(r)
      PROVE  IInv'
  BY <1>4, WaitIInv, ReleaseIInv, InsideIInv DEF Operation
<1>5. ASSUME NEW r \in Replicas, updateLockHeartbeat(r) \/ Stall(r) \/ Crash(r)
      PROVE  IInv'
  BY <1>5, HeartbeatIInv, StallIInv, CrashIInv
<1>6. CASE UNCHANGED vars
  <2>1. lock' = lock /\ now' = now /\ run' = run /\ stalled' = stalled
    BY <1>6 DEF vars
  <2>2. \A s \in Replicas : (Holding(s)' <=> Holding(s)) /\ Knows(s)' /\ (Owns(s) => Owns(s)')
    BY <2>1 DEF Holding, Knows, Owns, IInv
  <2> QED
    BY <2>1, <2>2 DEF IInv
<1> QED
  BY <1>1, <1>2, <1>3, <1>4, <1>5, <1>6 DEF Next

\* Two who held with beating hearts would both be the owner the row names.
LEMMA IInvImpliesOneMigrator == IInv => OneMigrator
BY DEF IInv, OneMigrator, Owns

\* Of two replicas inside a schema operation one has let its heartbeat lapse:
\* acquireLock, whatever breaks, releases and crashes happen (migration_lock.go).
THEOREM LockExcludes == Spec => []OneMigrator
<1>1. Init => IInv
  BY InitIInv
<1>2. IInv /\ [Next]_vars => IInv'
  BY NextIInv
<1>3. IInv => OneMigrator
  BY IInvImpliesOneMigrator
<1> QED
  BY <1>1, <1>2, <1>3, PTL DEF Spec
-----------------------------------------------------------------------------
(* The schema and the control table.                                       *)

Rows(s) == s \in Seq(Range(s))

LEMMA RowsOf == ASSUME NEW S, NEW s \in Seq(S) PROVE Rows(s)
BY SeqOfRange DEF Rows

LEMMA RowsDomain ==
  ASSUME NEW s, Rows(s)
  PROVE  Len(s) \in Nat /\ DOMAIN s = 1..Len(s)
BY LenProperties DEF Rows

LEMMA AppendedRow ==
  ASSUME NEW s, Rows(s), NEW x
  PROVE  /\ Rows(Append(s, x)) /\ Len(Append(s, x)) = Len(s) + 1
         /\ \A i \in 1..Len(s) : Append(s, x)[i] = s[i]
         /\ Append(s, x)[Len(s) + 1] = x
<1> DEFINE S == Range(s) \cup {x}
<1>1. s \in Seq(S) /\ x \in S
  BY SeqMonotonic DEF Rows
<1> HIDE DEF S
<1>2. Append(s, x) \in Seq(S)
  BY <1>1, AppendProperties
<1>3. Rows(Append(s, x))
  BY <1>2, RowsOf
<1> QED
  BY <1>1, <1>3, AppendProperties

LEMMA JoinedRows ==
  ASSUME NEW s, Rows(s), NEW t, Rows(t)
  PROVE  /\ Rows(s \o t) /\ Len(s \o t) = Len(s) + Len(t)
         /\ \A i \in 1..Len(s) : (s \o t)[i] = s[i]
         /\ \A i \in 1..Len(t) : (s \o t)[Len(s) + i] = t[i]
<1> DEFINE S == Range(s) \cup Range(t)
<1>1. s \in Seq(S) /\ t \in Seq(S)
  BY SeqMonotonic DEF Rows
<1>2. Len(s) \in Nat /\ Len(t) \in Nat
  BY RowsDomain
<1> HIDE DEF S
<1>3. /\ s \o t \in Seq(S) /\ Len(s \o t) = Len(s) + Len(t)
      /\ \A i \in 1..Len(s) + Len(t) : (s \o t)[i] = IF i <= Len(s) THEN s[i] ELSE t[i - Len(s)]
  BY <1>1, ConcatProperties
<1>4. \A i \in 1..Len(t) : Len(s) + i \in 1..Len(s) + Len(t) /\ ~(Len(s) + i <= Len(s))
                           /\ (Len(s) + i) - Len(s) = i
  BY <1>2
<1>5. \A i \in 1..Len(s) : i \in 1..Len(s) + Len(t) /\ i <= Len(s)
  BY <1>2
<1> QED
  BY <1>3, <1>4, <1>5, RowsOf

LEMMA RemovedRow ==
  ASSUME NEW s, Rows(s), NEW i \in 1..Len(s)
  PROVE  /\ Rows(RemoveAt(s, i)) /\ Len(RemoveAt(s, i)) = Len(s) - 1
         /\ \A j \in 1..Len(s) - 1 : RemoveAt(s, i)[j] = IF j < i THEN s[j] ELSE s[j + 1]
<1> DEFINE a == SubSeq(s, 1, i - 1)
           b == SubSeq(s, i + 1, Len(s))
           n == Len(s)
<1>1. n \in Nat /\ \A j \in 1..n : s[j] \in Range(s)
  BY RowsDomain DEF Range
<1>2. a \in Seq(Range(s)) /\ Len(a) = i - 1 /\ \A j \in 1..i - 1 : a[j] = s[j]
  <2>1. \A j \in 1..i - 1 : s[j] \in Range(s)
    BY <1>1
  <2>2. /\ a \in Seq(Range(s)) /\ Len(a) = IF 1 <= i - 1 THEN (i - 1) - 1 + 1 ELSE 0
        /\ \A j \in 1..(i - 1) - 1 + 1 : a[j] = s[1 + j - 1]
    BY <2>1, SubSeqProperties
  <2> QED
    BY <2>2
<1>3. b \in Seq(Range(s)) /\ Len(b) = n - i /\ \A j \in 1..n - i : b[j] = s[i + j]
  <2>1. \A j \in i + 1..n : s[j] \in Range(s)
    BY <1>1
  <2>2. /\ b \in Seq(Range(s)) /\ Len(b) = IF i + 1 <= n THEN n - (i + 1) + 1 ELSE 0
        /\ \A j \in 1..n - (i + 1) + 1 : b[j] = s[(i + 1) + j - 1]
    BY <2>1, <1>1, SubSeqProperties
  <2> QED
    BY <2>2, <1>1
<1> HIDE DEF a, b
<1>4. Rows(a \o b) /\ Len(a \o b) = n - 1
  <2>1. a \o b \in Seq(Range(s)) /\ Len(a \o b) = Len(a) + Len(b)
    BY <1>2, <1>3, ConcatProperties
  <2>2. Rows(a \o b)
    BY <2>1, RowsOf
  <2> QED
    BY <1>1, <1>2, <1>3, <2>1, <2>2
<1>5. \A j \in 1..n - 1 : (a \o b)[j] = IF j <= i - 1 THEN a[j] ELSE b[j - (i - 1)]
  BY <1>1, <1>2, <1>3, ConcatProperties
<1>6. \A j \in 1..n - 1 : (a \o b)[j] = IF j < i THEN s[j] ELSE s[j + 1]
  <2> SUFFICES ASSUME NEW j \in 1..n - 1
               PROVE  (a \o b)[j] = IF j < i THEN s[j] ELSE s[j + 1]
    OBVIOUS
  <2>1. CASE j < i
    <3>1. j \in 1..i - 1 /\ j <= i - 1
      BY <1>1, <2>1
    <3> QED
      BY <1>2, <1>5, <2>1, <3>1
  <2>2. CASE ~(j < i)
    <3>1. j - (i - 1) \in 1..n - i /\ ~(j <= i - 1) /\ i + (j - (i - 1)) = j + 1
      BY <1>1, <2>2
    <3> QED
      BY <1>3, <1>5, <2>2, <3>1
  <2> QED
    BY <2>1, <2>2
<1> QED
  BY <1>4, <1>6 DEF RemoveAt, a, b

\* As many places as members, and none twice: every member has its place.
LEMMA Listed ==
  ASSUME NEW S, IsFiniteSet(S), NEW s \in [1..Cardinality(S) -> S], IsInjective(s)
  PROVE  s \in Seq(S) /\ Rows(s) /\ Len(s) = Cardinality(S) /\ Range(s) = S
<1> DEFINE n == Cardinality(S)
<1>1. n \in Nat
  BY FS_CardinalityType
<1> HIDE DEF n
<1>2. s \in [1..n -> S]
  BY DEF n
<1>3. s \in Seq(S) /\ Len(s) = n
  BY <1>1, <1>2
<1>4. IsFiniteSet(1..n) /\ Cardinality(1..n) = n
  BY <1>1, FS_Interval
<1>5. s \in Injection(1..n, S)
  BY <1>2 DEF Injection
<1>6. s \in Surjection(1..n, S)
  BY <1>4, <1>5, FS_Injection DEF n
<1>7. Range(s) = S
  BY <1>2, <1>6 DEF Surjection, Range
<1> QED
  BY <1>3, <1>7, RowsOf DEF n
\* The migrations whose tables were there first, and whether the control
\* table has a record of each.
Old == IF baselineOn THEN Existing ELSE {}
Told == Old \subseteq Recorded

\* What baseline-on-migrate asks of whoever sets it: the baseline version
\* covers the migrations whose tables exist and no others, every replica has
\* them, and none of them can be reverted.
BaselineDescribes ==
  baselineOn =>
    /\ \A m \in Names : isVersionLTE(m, Baseline) <=> m \in Existing
    /\ \A r \in Replicas : Existing \subseteq Range(Coded[r]) \cup DiscoverSQLMigrations(r)
    /\ \A r \in Replicas, m \in Existing : ~HasDown(r, m)

Table ==
  /\ Rows(records) /\ nextId \in Nat
  /\ \A i \in DOMAIN records :
       records[i].name \in Names /\ records[i].id \in Nat /\ records[i].id < nextId
  /\ \A i, j \in DOMAIN records :
       i # j => records[i].id # records[j].id /\ records[i].name # records[j].name

Schema ==
  /\ effect \in [Names -> Int]
  /\ \A m \in Names : effect[m] = IF m \in Recorded \/ m \in Old THEN 1 ELSE 0

Covered == records # <<>> => Told

Active(r) == run[r].pc \notin {"idle", "crashed"}
Known(r) == Range(Coded[r]) \cup DiscoverSQLMigrations(r)

\* What a replica has registered, and what its operation relies on.
Registry(r) ==
  /\ registered[r] \in Seq(Names) /\ Range(Coded[r]) \subseteq Range(registered[r])
  /\ Active(r) => Known(r) \subseteq Range(registered[r])
Aim(r) ==
  /\ run[r].steps \in Nat
  /\ Active(r) => /\ run[r].kind \in {"migrate", "rollback", "reset", "refresh"}
                  /\ run[r].kind # "migrate" => Told
  /\ r \in stalled => run[r].kind = "migrate"
  /\ run[r].pc \in {"count", "desc", "down"} => run[r].kind # "migrate"
  /\ run[r].pc = "baseline" => baselineOn
  /\ run[r].pc = "plan" => Told /\ \A m \in Old : \E rec \in run[r].seen : rec.name = m
  /\ run[r].pc = "up" => Told /\ run[r].todo \in Seq(Names \ Old) /\ run[r].todo # <<>>
Reverting(r) ==
  run[r].pc = "down" =>
    /\ run[r].todo \in Seq(Range(records)) /\ run[r].todo # <<>>
    /\ IsInjective(run[r].todo)

SInv ==
  /\ Table /\ Schema /\ Covered
  /\ registered = [r \in Replicas |-> registered[r]]
  /\ \A r \in Replicas : Registry(r) /\ Aim(r) /\ Reverting(r)

LEMMA RecordedName ==
  ASSUME Table
  PROVE  /\ Len(records) \in Nat /\ DOMAIN records = 1..Len(records)
         /\ Recorded = {records[i].name : i \in 1..Len(records)}
         /\ Recorded \subseteq Names
BY RowsDomain DEF Table, Recorded

\* A record appended under the next id, for a name that has none.
LEMMA TableAppend ==
  ASSUME Table, NEW x, x.name \in Names \ Recorded, x.id = nextId,
         records' = Append(records, x), nextId' = nextId + 1
  PROVE  Table' /\ Recorded' = Recorded \cup {x.name} /\ Range(records) \subseteq Range(records')
<1> DEFINE n == Len(records)
<1>1. n \in Nat /\ DOMAIN records = 1..n
  BY RecordedName
<1>2. /\ Rows(records') /\ Len(records') = n + 1
      /\ \A i \in 1..n : records'[i] = records[i]
      /\ records'[n + 1] = x
  BY AppendedRow DEF Table
<1>3. DOMAIN records' = 1..n + 1
  BY <1>2, RowsDomain
<1>4. Recorded = {records[i].name : i \in 1..n}
  BY <1>1 DEF Recorded
<1> HIDE DEF n
<1>5. nextId \in Nat /\ \A i \in 1..n : /\ records[i].name \in Names /\ records[i].id \in Nat
                                        /\ records[i].id < nextId
  BY <1>1 DEF Table
<1>6. \A i, j \in 1..n : i # j => records[i].id # records[j].id /\ records[i].name # records[j].name
  BY <1>1 DEF Table
<1>7. \A i \in 1..n + 1 : i \in 1..n \/ i = n + 1
  BY <1>1
<1>8. \A i \in 1..n : i \in 1..n + 1 /\ i # n + 1
  BY <1>1
<1>9. n + 1 \in 1..n + 1
  BY <1>1
<1>10. \A i \in 1..n + 1 : /\ records'[i].name \in Names /\ records'[i].id \in Nat
                           /\ records'[i].id < nextId'
  BY <1>2, <1>5, <1>7
<1>11. \A i \in 1..n : records[i].id # x.id /\ records[i].name # x.name
  BY <1>4, <1>5
<1>12. \A i, j \in 1..n + 1 : i # j => /\ records'[i].id # records'[j].id
                                       /\ records'[i].name # records'[j].name
  BY <1>2, <1>6, <1>7, <1>11
<1>13. Recorded' = {records'[i].name : i \in 1..n + 1}
  BY <1>3 DEF Recorded
<1>14. Recorded' = Recorded \cup {x.name}
  BY <1>2, <1>4, <1>7, <1>8, <1>9, <1>13
<1>15. Range(records) \subseteq Range(records')
  BY <1>1, <1>2, <1>3, <1>8 DEF Range
<1>16. Table'
  BY <1>2, <1>3, <1>5, <1>10, <1>12 DEF Table
<1> QED
  BY <1>14, <1>15, <1>16

\* The records of the baseline appended, each under an id of its own.
LEMMA TableJoin ==
  ASSUME Table, NEW names, Rows(names), Range(names) \subseteq Names \ Recorded,
         IsInjective(names), NEW r,
         records' = records \o [i \in DOMAIN names |-> Record(r, names[i], nextId + i - 1, 1)],
         nextId' = nextId + Len(names)
  PROVE  /\ Table' /\ Recorded' = Recorded \cup Range(names)
         /\ Range(records) \subseteq Range(records')
<1> DEFINE n == Len(records)
           k == Len(names)
           added == [i \in DOMAIN names |-> Record(r, names[i], nextId + i - 1, 1)]
<1>1. n \in Nat /\ DOMAIN records = 1..n /\ k \in Nat /\ DOMAIN names = 1..k
  BY RecordedName, RowsDomain
<1>2. /\ added \in [1..k -> Range(added)]
      /\ \A i \in 1..k : added[i].name = names[i] /\ added[i].id = nextId + i - 1
  BY <1>1 DEF Range, Record
<1> HIDE DEF n, k, added
<1>3. Rows(added) /\ Len(added) = k
  BY <1>1, <1>2 DEF Rows
<1>4. /\ Rows(records') /\ Len(records') = n + k
      /\ \A i \in 1..n : records'[i] = records[i]
      /\ \A i \in 1..k : records'[n + i] = added[i]
  BY <1>3, JoinedRows DEF Table, added, n
<1>5. DOMAIN records' = 1..n + k
  BY <1>4, RowsDomain
<1>6. nextId \in Nat /\ \A i \in 1..n : /\ records[i].name \in Names /\ records[i].id \in Nat
                                        /\ records[i].id < nextId
  BY <1>1 DEF Table
<1>7. \A i, j \in 1..n : i # j => records[i].id # records[j].id /\ records[i].name # records[j].name
  BY <1>1 DEF Table
<1>8. nextId' = nextId + k
  BY DEF k
<1>9. \A i \in 1..n + k : i \in 1..n \/ \E j \in 1..k : i = n + j
  <2> SUFFICES ASSUME NEW i \in 1..n + k, i \notin 1..n PROVE \E j \in 1..k : i = n + j
    OBVIOUS
  <2>1. i - n \in 1..k /\ i = n + (i - n)
    BY <1>1
  <2> QED
    BY <2>1
<1>10. \A i \in 1..k : names[i] \in Names \ Recorded
  BY <1>1 DEF Range
<1>11. \A i, j \in 1..k : i # j => names[i] # names[j]
  BY <1>1 DEF IsInjective
<1>12. \A i \in 1..n : records[i].name \in Recorded
  BY <1>1 DEF Recorded
<1>13. \A i \in 1..n + k : /\ records'[i].name \in Names /\ records'[i].id \in Nat
                           /\ records'[i].id < nextId'
  <2> SUFFICES ASSUME NEW i \in 1..n + k
               PROVE  /\ records'[i].name \in Names /\ records'[i].id \in Nat
                      /\ records'[i].id < nextId'
    OBVIOUS
  <2>1. CASE i \in 1..n
    BY <1>1, <1>4, <1>6, <1>8, <2>1
  <2>2. ASSUME NEW j \in 1..k, i = n + j
        PROVE  /\ records'[i].name \in Names /\ records'[i].id \in Nat
               /\ records'[i].id < nextId'
    <3>1. records'[i].name = names[j] /\ records'[i].id = nextId + j - 1
      BY <1>2, <1>4, <2>2
    <3>2. nextId + j - 1 \in Nat /\ nextId + j - 1 < nextId + k
      BY <1>1, <1>6
    <3> QED
      BY <1>8, <1>10, <2>2, <3>1, <3>2
  <2> QED
    BY <1>9, <2>1, <2>2
<1>14. \A i, j \in 1..n + k : i # j => /\ records'[i].id # records'[j].id
                                       /\ records'[i].name # records'[j].name
  <2> DEFINE Differ(i, j) == /\ records'[i].id # records'[j].id
                             /\ records'[i].name # records'[j].name
  <2>1. \A i, j \in 1..n : i # j => Differ(i, j)
    <3> SUFFICES ASSUME NEW i \in 1..n, NEW j \in 1..n, i # j PROVE Differ(i, j)
      OBVIOUS
    <3>1. records'[i] = records[i] /\ records'[j] = records[j]
      BY <1>4
    <3> QED
      BY <1>7, <3>1
  <2>2. \A i \in 1..n, j \in 1..k : Differ(i, n + j) /\ Differ(n + j, i)
    <3> SUFFICES ASSUME NEW i \in 1..n, NEW j \in 1..k PROVE Differ(i, n + j)
      OBVIOUS
    <3>1. records'[n + j].name = names[j] /\ records'[n + j].id = nextId + j - 1
      BY <1>2, <1>4
    <3>2. records'[i] = records[i]
      BY <1>4
    <3>3. records[i].id # nextId + j - 1
      BY <1>6
    <3>4. records[i].name # names[j]
      BY <1>10, <1>12
    <3> QED
      BY <3>1, <3>2, <3>3, <3>4
  <2>3. \A i, j \in 1..k : i # j => Differ(n + i, n + j)
    <3> SUFFICES ASSUME NEW i \in 1..k, NEW j \in 1..k, i # j PROVE Differ(n + i, n + j)
      OBVIOUS
    <3>1. records'[n + i].name = names[i] /\ records'[n + i].id = nextId + i - 1
      BY <1>2, <1>4
    <3>2. records'[n + j].name = names[j] /\ records'[n + j].id = nextId + j - 1
      BY <1>2, <1>4
    <3>3. nextId + i - 1 # nextId + j - 1
      BY <1>6
    <3> QED
      BY <1>11, <3>1, <3>2, <3>3
  <2> HIDE DEF Differ
  <2>4. \A i, j \in 1..n + k : i # j => Differ(i, j)
    BY <1>9, <2>1, <2>2, <2>3
  <2> QED
    BY <2>4 DEF Differ
<1>15. \A i \in 1..n : i \in 1..n + k
  BY <1>1
<1>16. \A i \in 1..k : n + i \in 1..n + k
  BY <1>1
<1>17. Recorded' = Recorded \cup Range(names)
  <2>1. Recorded' = {records'[i].name : i \in 1..n + k} /\ Recorded = {records[i].name : i \in 1..n}
    BY <1>1, <1>5 DEF Recorded
  <2>2. Range(names) = {names[i] : i \in 1..k}
    BY <1>1 DEF Range
  <2>3. \A i \in 1..k : records'[n + i].name = names[i]
    BY <1>2, <1>4
  <2>4. \A i \in 1..n : records'[i].name = records[i].name
    BY <1>4
  <2>5. ASSUME NEW m \in Recorded' PROVE m \in Recorded \cup Range(names)
    <3>1. PICK i \in 1..n + k : m = records'[i].name
      BY <2>1
    <3>2. CASE i \in 1..n
      BY <2>1, <2>4, <3>1, <3>2
    <3>3. ASSUME NEW j \in 1..k, i = n + j PROVE m \in Range(names)
      BY <2>2, <2>3, <3>1, <3>3
    <3> QED
      BY <1>9, <3>2, <3>3
  <2>6. \A m \in Recorded : m \in Recorded'
    BY <1>15, <2>1, <2>4
  <2>7. \A m \in Range(names) : m \in Recorded'
    BY <1>16, <2>1, <2>2, <2>3
  <2> QED
    BY <2>5, <2>6, <2>7
<1>18. Range(records) \subseteq Range(records')
  BY <1>1, <1>4, <1>5, <1>15 DEF Range
<1>19. nextId' \in Nat
  BY <1>1, <1>6, <1>8
<1>20. Table'
  <2>1. \A i \in DOMAIN records' : /\ records'[i].name \in Names /\ records'[i].id \in Nat
                                  /\ records'[i].id < nextId'
    BY <1>5, <1>13
  <2>2. \A i, j \in DOMAIN records' : i # j => /\ records'[i].id # records'[j].id
                                              /\ records'[i].name # records'[j].name
    <3> SUFFICES ASSUME NEW i \in DOMAIN records', NEW j \in DOMAIN records', i # j
                 PROVE  records'[i].id # records'[j].id /\ records'[i].name # records'[j].name
      OBVIOUS
    <3>1. i \in 1..n + k /\ j \in 1..n + k
      BY <1>5
    <3> QED
      BY <1>14, <3>1
  <2> QED
    BY <1>4, <1>19, <2>1, <2>2 DEF Table
<1> QED
  BY <1>17, <1>18, <1>20

\* One record removed, with the only name it bears.
LEMMA TableRemove ==
  ASSUME Table, NEW i \in DOMAIN records, records' = RemoveAt(records, i), nextId' = nextId
  PROVE  /\ Table' /\ Recorded' = Recorded \ {records[i].name}
         /\ \A x \in Range(records) : x # records[i] => x \in Range(records')
<1> DEFINE n == Len(records)
<1>1. n \in Nat /\ DOMAIN records = 1..n
  BY RecordedName
<1>2. /\ Rows(records') /\ Len(records') = n - 1
      /\ \A j \in 1..n - 1 : records'[j] = IF j < i THEN records[j] ELSE records[j + 1]
  BY <1>1, RemovedRow DEF Table
<1> HIDE DEF n
<1>3. DOMAIN records' = 1..n - 1
  BY <1>2, RowsDomain
<1> DEFINE from(j) == IF j < i THEN j ELSE j + 1
<1>4. \A j \in 1..n - 1 : from(j) \in 1..n /\ from(j) # i /\ records'[j] = records[from(j)]
  BY <1>1, <1>2
<1>5. \A j, k \in 1..n - 1 : j # k => from(j) # from(k)
  BY <1>1
<1>6. \A k \in 1..n : k # i => \E j \in 1..n - 1 : from(j) = k
  <2> SUFFICES ASSUME NEW k \in 1..n, k # i PROVE \E j \in 1..n - 1 : from(j) = k
    OBVIOUS
  <2>1. CASE k < i
    BY <1>1, <2>1
  <2>2. CASE k > i
    <3>1. k - 1 \in 1..n - 1 /\ from(k - 1) = k
      BY <1>1, <2>2
    <3> QED
      BY <3>1
  <2> QED
    BY <1>1, <2>1, <2>2
<1> HIDE DEF from
<1>7. nextId \in Nat /\ \A j \in 1..n : /\ records[j].name \in Names /\ records[j].id \in Nat
                                        /\ records[j].id < nextId
  BY <1>1 DEF Table
<1>8. \A j, k \in 1..n : j # k => records[j].id # records[k].id /\ records[j].name # records[k].name
  BY <1>1 DEF Table
<1>9. Table'
  BY <1>2, <1>3, <1>4, <1>5, <1>7, <1>8 DEF Table
<1>10. Recorded' = Recorded \ {records[i].name}
  <2>1. Recorded' = {records'[j].name : j \in 1..n - 1} /\ Recorded = {records[j].name : j \in 1..n}
    BY <1>1, <1>3 DEF Recorded
  <2>2. \A j \in 1..n : j # i => records[j].name # records[i].name
    BY <1>1, <1>8
  <2> QED
    BY <1>4, <1>6, <2>1, <2>2
<1>11. \A x \in Range(records) : x # records[i] => x \in Range(records')
  <2> SUFFICES ASSUME NEW x \in Range(records), x # records[i] PROVE x \in Range(records')
    OBVIOUS
  <2>1. PICK k \in 1..n : x = records[k]
    BY <1>1 DEF Range
  <2>2. PICK j \in 1..n - 1 : from(j) = k
    BY <1>6, <2>1
  <2> QED
    BY <1>3, <1>4, <2>1, <2>2 DEF Range
<1> QED
  BY <1>9, <1>10, <1>11

\* What the other replicas rely on outlives a step of r that removes no
\* record of a migration that was there first, and no record at all.
LEMMA OthersAim ==
  ASSUME SInv, NEW r \in Replicas, Only(r), baselineOn' = baselineOn, Told => Told',
         stalled' \ {r} \subseteq stalled, NEW s \in Replicas \ {r}, registered'[s] = registered[s]
  PROVE  Registry(s)' /\ Aim(s)'
<1>1. run'[s] = run[s]
  BY DEF Only
<1>2. Old' = Old
  BY DEF Old
<1>3. Registry(s)'
  BY <1>1 DEF SInv, Registry, Active, Known
<1>4. Aim(s)'
  BY <1>1, <1>2 DEF SInv, Aim, Active
<1> QED
  BY <1>3, <1>4

LEMMA OthersReverting ==
  ASSUME SInv, NEW r \in Replicas, Only(r), Range(records) \subseteq Range(records'),
         NEW s \in Replicas \ {r}
  PROVE  Reverting(s)'
<1>1. run'[s] = run[s] /\ Reverting(s)
  BY DEF Only, SInv
<1>2. run[s].todo \in Seq(Range(records)) => run[s].todo \in Seq(Range(records'))
  BY SeqMonotonic
<1> QED
  BY <1>1, <1>2 DEF Reverting

LEMMA QuietSInv ==
  ASSUME SInv, NEW r \in Replicas, Only(r), UNCHANGED dbVars, UNCHANGED confVars,
         stalled' \ {r} \subseteq stalled, Active(r)' => Active(r), Aim(r)', Reverting(r)'
  PROVE  SInv'
<1>1. /\ records' = records /\ nextId' = nextId /\ effect' = effect
      /\ registered' = registered /\ baselineOn' = baselineOn
  BY DEF dbVars, confVars
<1>2. Old' = Old /\ Recorded' = Recorded /\ Told' = Told
  BY <1>1 DEF Old, Recorded, Told
<1>3. Table' /\ Schema' /\ Covered'
  BY <1>1, <1>2 DEF SInv, Table, Schema, Covered
<1>4. Registry(r)'
  BY <1>1 DEF SInv, Registry, Active, Known
<1>5. \A s \in Replicas \ {r} : Registry(s)' /\ Aim(s)' /\ Reverting(s)'
  BY <1>1, <1>2, OthersAim, OthersReverting
<1>6. registered' = [s \in Replicas |-> registered'[s]]
  BY <1>1 DEF SInv
<1> QED
  BY <1>3, <1>4, <1>5, <1>6 DEF SInv

\* A replica that has the lock begins its operation.
LEMMA OwnSInv ==
  ASSUME IInv, SInv, NEW r \in Replicas, NEW t, run[r].pc \in {"wait", "break"}, Own(r, t),
         UNCHANGED dbVars, UNCHANGED confVars, stalled' = stalled
  PROVE  SInv'
<1> DEFINE new == [Idle EXCEPT !.pc = FirstStep(run[r].kind), !.kind = run[r].kind, !.steps = run[r].steps]
<1>1. run' = [run EXCEPT ![r] = new]
  BY DEF Own
<1>2. /\ new.pc = FirstStep(run[r].kind) /\ new.kind = run[r].kind
      /\ new.steps = run[r].steps /\ DOMAIN new = Fields
  BY IdleFields DEF Fields, Idle
<1> HIDE DEF new
<1>3. Only(r) /\ run'[r] = new
  BY <1>1, <1>2 DEF IInv, Only
<1>4. /\ run[r].kind \in {"migrate", "rollback", "reset", "refresh"}
      /\ run[r].kind # "migrate" => Told
      /\ run[r].steps \in Nat
  BY DEF SInv, Aim, Active
<1>5. /\ new.pc \in {"read", "desc", "count"}
      /\ new.pc \in {"desc", "count"} => run[r].kind # "migrate"
  BY <1>2, <1>4 DEF FirstStep
<1>6. Told' = Told
  BY DEF Told, Old, Recorded, dbVars, confVars
<1>7. r \notin stalled
  BY DEF IInv, Holding, Critical
<1>8. Aim(r)' /\ Reverting(r)'
  BY <1>2, <1>3, <1>4, <1>5, <1>6, <1>7 DEF Aim, Active, Reverting
<1> QED
  BY <1>3, <1>8, QuietSInv DEF Active

\* Steps that change no more of the operation than where it stands and what
\* it has read of the clock and the lock row.
LEMMA MoveSInv ==
  ASSUME IInv, SInv, NEW r \in Replicas, Only(r), UNCHANGED dbVars, UNCHANGED confVars,
         stalled' = stalled, Active(r), run'[r].kind = run[r].kind, run'[r].steps = run[r].steps,
         run'[r].pc \in {"wait", "look", "break", "read", "release"}
  PROVE  SInv'
<1>1. Told' = Told
  BY DEF Told, Old, Recorded, dbVars, confVars
<1>2. Aim(r)' /\ Reverting(r)'
  BY <1>1 DEF SInv, Aim, Active, Reverting
<1> QED
  BY <1>2, QuietSInv

LEMMA WaitSInv ==
  ASSUME IInv, SInv, NEW r \in Replicas, TryLock(r) \/ Look(r) \/ Break(r)
  PROVE  SInv'
<1>1. CASE TryLock(r)
  <2>1. CASE lock.locked
    <3>1. run' = [run EXCEPT ![r].pc = "look", ![r].t = now]
      BY <1>1, <2>1 DEF TryLock
    <3>2. /\ Only(r) /\ run'[r].pc = "look" /\ run'[r].kind = run[r].kind
          /\ run'[r].steps = run[r].steps
      BY <3>1 DEF IInv, Only, Fields
    <3> QED
      BY <1>1, <3>2, MoveSInv DEF TryLock, Active
  <2>2. CASE ~lock.locked
    BY <1>1, <2>2, OwnSInv DEF TryLock
  <2> QED
    BY <2>1, <2>2
<1>2. CASE Look(r)
  <2>1. \/ run' = [run EXCEPT ![r].pc = "break", ![r].at = lock.at]
        \/ run' = [run EXCEPT ![r].pc = "wait", ![r].t = 0]
    BY <1>2 DEF Look
  <2>2. /\ Only(r) /\ run'[r].pc \in {"wait", "break"} /\ run'[r].kind = run[r].kind
        /\ run'[r].steps = run[r].steps
    BY <2>1 DEF IInv, Only, Fields
  <2> QED
    BY <1>2, <2>2, MoveSInv DEF Look, Active
<1>3. CASE Break(r)
  <2>1. CASE lock.locked /\ lock.at = run[r].at
    BY <1>3, <2>1, OwnSInv DEF Break
  <2>2. CASE ~(lock.locked /\ lock.at = run[r].at)
    <3>1. run' = [run EXCEPT ![r].pc = "wait", ![r].t = 0, ![r].at = 0]
      BY <1>3, <2>2 DEF Break
    <3>2. /\ Only(r) /\ run'[r].pc = "wait" /\ run'[r].kind = run[r].kind
          /\ run'[r].steps = run[r].steps
      BY <3>1 DEF IInv, Only, Fields
    <3> QED
      BY <1>3, <3>2, MoveSInv DEF Break, Active
  <2> QED
    BY <2>1, <2>2
<1> QED
  BY <1>1, <1>2, <1>3

\* An operation that ends, in whatever way, relies on nothing.
LEMMA LeaveSInv ==
  ASSUME IInv, SInv, NEW r \in Replicas, GiveUp(r) \/ Release(r) \/ Crash(r)
  PROVE  SInv'
<1>1. \/ run' = [run EXCEPT ![r] = Idle]
      \/ run' = [run EXCEPT ![r] = [Idle EXCEPT !.pc = "crashed"]]
  BY DEF GiveUp, Release, Crash
<1>2. [Idle EXCEPT !.pc = "crashed"].pc = "crashed" /\ [Idle EXCEPT !.pc = "crashed"].steps = 0
      /\ DOMAIN [Idle EXCEPT !.pc = "crashed"] = Fields /\ Idle.steps = 0
  BY IdleFields DEF Idle, Fields
<1>3. Only(r) /\ run'[r].pc \in {"idle", "crashed"} /\ run'[r].steps = 0
  BY <1>1, <1>2, IdleFields DEF IInv, Only
<1>4. UNCHANGED dbVars /\ UNCHANGED confVars /\ r \notin stalled' /\ stalled' \subseteq stalled
  BY DEF GiveUp, Release, Crash, IInv, Holding, Critical
<1>5. Aim(r)' /\ Reverting(r)'
  BY <1>3, <1>4 DEF Aim, Active, Reverting
<1> QED
  BY <1>3, <1>4, <1>5, QuietSInv DEF Active

\* Time, heartbeats and stalls leave the operations as they are.
LEMMA StillSInv ==
  ASSUME IInv, SInv, run' = run, UNCHANGED dbVars, UNCHANGED confVars,
         \A s \in stalled' : s \in stalled \/ run[s].kind = "migrate"
  PROVE  SInv'
<1>1. /\ records' = records /\ nextId' = nextId /\ effect' = effect
      /\ registered' = registered /\ baselineOn' = baselineOn
  BY DEF dbVars, confVars
<1>2. Old' = Old /\ Recorded' = Recorded /\ Told' = Told
  BY <1>1 DEF Old, Recorded, Told
<1>3. Table' /\ Schema' /\ Covered' /\ registered' = [s \in Replicas |-> registered'[s]]
  BY <1>1, <1>2 DEF SInv, Table, Schema, Covered
<1>4. ASSUME NEW s \in Replicas PROVE Registry(s)' /\ Aim(s)' /\ Reverting(s)'
  <2>1. Registry(s)'
    BY <1>1 DEF SInv, Registry, Active, Known
  <2>2. Aim(s)'
    <3>1. Aim(s) /\ run'[s] = run[s]
      BY DEF SInv
    <3>2. s \in stalled' => run[s].kind = "migrate"
      BY <3>1 DEF Aim
    <3> QED
      BY <1>1, <1>2, <3>1, <3>2 DEF Aim, Active
  <2>3. Reverting(s)'
    BY <1>1 DEF SInv, Reverting
  <2> QED
    BY <2>1, <2>2, <2>3
<1> QED
  BY <1>3, <1>4 DEF SInv

LEMMA FailsSInv ==
  ASSUME IInv, SInv, NEW r \in Replicas, UpFails(r) \/ DownFails(r)
  PROVE  SInv'
<1>1. run' = [run EXCEPT ![r].pc = "release", ![r].todo = <<>>] /\ run[r].pc \in {"up", "down"}
  BY DEF UpFails, DownFails, Fails
<1>2. UNCHANGED dbVars /\ UNCHANGED confVars /\ stalled' = stalled
  BY DEF UpFails, DownFails, Fails
<1>3. /\ Only(r) /\ run'[r].pc = "release" /\ run'[r].kind = run[r].kind
      /\ run'[r].steps = run[r].steps
  BY <1>1 DEF IInv, Only, Fields
<1> QED
  BY <1>1, <1>2, <1>3, MoveSInv DEF Active

LEMMA CountSInv == ASSUME IInv, SInv, NEW r \in Replicas, Count(r) PROVE SInv'
<1>1. /\ Only(r) /\ run'[r].kind = run[r].kind /\ run'[r].steps = Len(records)
      /\ run'[r].pc \in {"desc", "read", "release"}
  BY DEF Count, IInv, Only, Fields
<1>2. Told' = Told /\ Len(records) \in Nat
  BY RecordedName DEF Count, Told, Old, Recorded, dbVars, confVars, SInv
<1>3. run[r].pc = "count" /\ stalled' = stalled /\ UNCHANGED dbVars /\ UNCHANGED confVars
  BY DEF Count
<1>4. Aim(r)' /\ Reverting(r)'
  BY <1>1, <1>2, <1>3 DEF SInv, Aim, Active, Reverting
<1> QED
  BY <1>1, <1>3, <1>4, QuietSInv DEF Active

\* The last rows, newest first: rows of the table, none of them twice.
LEMMA RevertedRows ==
  ASSUME Table, NEW steps \in Nat
  PROVE  LET todo == MigrationsToRevert(Reverse(records), steps)
         IN  todo \in Seq(Range(records)) /\ IsInjective(todo)
<1> DEFINE n == Len(records)
           back == Reverse(records)
<1>1. n \in Nat /\ DOMAIN records = 1..n
  BY RecordedName
<1>2. back = [i \in 1..n |-> records[(n - i) + 1]]
  BY DEF Reverse
<1>3. \A i \in 1..n : (n - i) + 1 \in 1..n
  BY <1>1
<1>4. back \in [1..n -> Range(records)]
  BY <1>1, <1>2, <1>3 DEF Range
<1>5. \A i, j \in 1..n : records[i] = records[j] => i = j
  BY <1>1 DEF Table
<1>6. \A i, j \in 1..n : back[i] = back[j] => i = j
  BY <1>1, <1>2, <1>3, <1>5
<1> HIDE DEF n, back
<1>7. Len(back) = n /\ back \in Seq(Range(records))
  BY <1>1, <1>4
<1> DEFINE last == {k \in 1..n : \A i \in 1..k : back[i].batch = back[1].batch}
           k == IF steps = 0 THEN Cardinality(last) ELSE IF steps > n THEN n ELSE steps
<1>8. Cardinality(last) \in 0..n
  <2>1. IsFiniteSet(1..n) /\ Cardinality(1..n) = n
    BY <1>1, FS_Interval
  <2>2. last \in SUBSET (1..n)
    OBVIOUS
  <2> HIDE DEF last
  <2>3. Cardinality(last) <= n /\ Cardinality(last) \in Nat
    BY <2>1, <2>2, FS_Subset, FS_CardinalityType
  <2> QED
    BY <1>1, <2>3
<1> HIDE DEF last
<1>9. k \in 0..n
  BY <1>1, <1>8
<1>10. MigrationsToRevert(back, steps) = SubSeq(back, 1, k)
  BY <1>7 DEF MigrationsToRevert, last
<1> HIDE DEF k
<1>11. /\ SubSeq(back, 1, k) \in Seq(Range(records)) /\ Len(SubSeq(back, 1, k)) = k
       /\ \A i \in 1..k : SubSeq(back, 1, k)[i] = back[i]
  <2>1. \A i \in 1..k : i \in 1..n /\ back[i] \in Range(records)
    BY <1>1, <1>4, <1>9
  <2>2. /\ SubSeq(back, 1, k) \in Seq(Range(records))
        /\ Len(SubSeq(back, 1, k)) = IF 1 <= k THEN k - 1 + 1 ELSE 0
        /\ \A i \in 1..k - 1 + 1 : SubSeq(back, 1, k)[i] = back[1 + i - 1]
    BY <1>9, <2>1, SubSeqProperties
  <2> QED
    BY <1>9, <2>2
<1>12. IsInjective(SubSeq(back, 1, k))
  <2>1. DOMAIN SubSeq(back, 1, k) = 1..k
    BY <1>11, LenProperties
  <2>2. \A i \in 1..k : i \in 1..n
    BY <1>1, <1>9
  <2> QED
    BY <1>6, <1>11, <2>1, <2>2 DEF IsInjective
<1> QED
  BY <1>10, <1>11, <1>12 DEF back

LEMMA ReadDescendingSInv == ASSUME IInv, SInv, NEW r \in Replicas, ReadDescending(r) PROVE SInv'
<1> DEFINE todo == MigrationsToRevert(Reverse(records), run[r].steps)
<1>1. todo \in Seq(Range(records)) /\ IsInjective(todo)
  BY RevertedRows DEF SInv, Aim
<1>2. /\ run' = [run EXCEPT ![r].todo = todo,
                           ![r].pc = IF todo = <<>> THEN AfterDown(r) ELSE "down"]
      /\ run[r].pc = "desc" /\ stalled' = stalled /\ UNCHANGED dbVars /\ UNCHANGED confVars
  BY DEF ReadDescending
<1> HIDE DEF todo
<1>3. AfterDown(r) \in {"read", "release"}
  BY DEF AfterDown
<1>4. /\ Only(r) /\ run'[r].kind = run[r].kind /\ run'[r].steps = run[r].steps
      /\ run'[r].todo = todo
      /\ run'[r].pc \in {"down", "read", "release"} /\ (run'[r].pc = "down" => todo # <<>>)
  BY <1>2, <1>3 DEF IInv, Only, Fields
<1>5. Told' = Told /\ records' = records
  BY <1>2 DEF Told, Old, Recorded, dbVars, confVars
<1>6. Aim(r)'
  BY <1>2, <1>4, <1>5 DEF SInv, Aim, Active
<1>7. Reverting(r)'
  BY <1>1, <1>4, <1>5 DEF Reverting
<1> QED
  BY <1>2, <1>4, <1>6, <1>7, QuietSInv DEF Active

\* A replica that runs has every migration whose tables were there first.
LEMMA AllBaselined ==
  ASSUME SInv, BaselineDescribes, NEW r \in Replicas, Active(r), baselineOn
  PROVE  Baselined(r) = Existing
<1>1. Existing \subseteq Known(r) /\ Existing \subseteq Names
  BY MigrationAssumption DEF BaselineDescribes, Known
<1>2. Known(r) \subseteq Range(registered[r]) /\ Range(registered[r]) \subseteq Names
  BY RangeOfSeq DEF SInv, Registry
<1> QED
  BY <1>1, <1>2 DEF BaselineDescribes, Baselined

LEMMA ReadExecutedSInv ==
  ASSUME IInv, SInv, BaselineDescribes, NEW r \in Replicas, ReadExecuted(r)
  PROVE  SInv'
<1>1. PICK pc \in {"baseline", "plan"} :
        /\ run' = [run EXCEPT ![r].pc = pc, ![r].seen = Range(records)]
        /\ pc = "baseline" => baselineOn
        /\ pc = "plan" => ~(/\ run[r].kind = "migrate" /\ baselineOn
                           /\ Range(records) = {} /\ Baselined(r) # {})
  BY DEF ReadExecuted
<1>2. run[r].pc = "read" /\ stalled' = stalled /\ UNCHANGED dbVars /\ UNCHANGED confVars
  BY DEF ReadExecuted
<1>3. /\ Only(r) /\ run'[r].pc = pc /\ run'[r].kind = run[r].kind /\ run'[r].steps = run[r].steps
      /\ run'[r].seen = Range(records)
  BY <1>1 DEF IInv, Only, Fields
<1>4. Told' = Told /\ Old' = Old /\ baselineOn' = baselineOn
  BY <1>2 DEF Told, Old, Recorded, dbVars, confVars
<1>5. ASSUME pc = "plan" PROVE Told
  <2>1. CASE records # <<>>
    BY <2>1 DEF SInv, Covered
  <2>2. CASE run[r].kind # "migrate"
    BY <1>2, <2>2 DEF SInv, Aim, Active
  <2>3. CASE ~baselineOn
    BY <2>3 DEF Told, Old
  <2>4. CASE records = <<>> /\ run[r].kind = "migrate" /\ baselineOn
    <3>1. Range(records) = {}
      BY <2>4 DEF Range
    <3>2. Baselined(r) = {}
      BY <1>1, <1>5, <2>4, <3>1
    <3>3. Existing = {}
      BY <1>2, <2>4, <3>2, AllBaselined DEF Active
    <3> QED
      BY <3>3 DEF Told, Old
  <2> QED
    BY <2>1, <2>2, <2>3, <2>4
<1>6. ASSUME Told, NEW m \in Old PROVE \E rec \in Range(records) : rec.name = m
  BY <1>6 DEF Told, Recorded, Range
<1>7. Aim(r)'
  BY <1>1, <1>2, <1>3, <1>4, <1>5, <1>6 DEF SInv, Aim, Active
<1>8. Reverting(r)'
  BY <1>3 DEF Reverting
<1> QED
  BY <1>2, <1>3, <1>7, <1>8, QuietSInv DEF Active

LEMMA PlanSInv == ASSUME IInv, SInv, NEW r \in Replicas, Plan(r) PROVE SInv'
<1> DEFINE lacking == {m \in Range(registered[r]) : \A rec \in run[r].seen : rec.name # m}
<1>1. run[r].pc = "plan" /\ stalled' = stalled /\ UNCHANGED dbVars /\ UNCHANGED confVars
  BY DEF Plan
<1>2. \/ Goto(r, "release")
      \/ /\ lacking # {}
         /\ \E todo \in Sorted(lacking) : \E batch :
              run' = [run EXCEPT ![r].pc = "up", ![r].todo = todo, ![r].batch = batch, ![r].seen = {}]
  BY DEF Plan
<1>3. Told /\ \A m \in Old : \E rec \in run[r].seen : rec.name = m
  BY <1>1 DEF SInv, Aim
<1>4. Range(registered[r]) \subseteq Names
  BY RangeOfSeq DEF SInv, Registry
<1>5. lacking \in SUBSET (Names \ Old)
  BY <1>3, <1>4
<1>6. IsFiniteSet(lacking)
  BY <1>5, MigrationAssumption, FS_Subset
<1> HIDE DEF lacking
<1>7. CASE Goto(r, "release")
  <2>1. /\ Only(r) /\ run'[r].pc = "release" /\ run'[r].kind = run[r].kind
        /\ run'[r].steps = run[r].steps
    BY <1>7 DEF Goto, IInv, Only, Fields
  <2> QED
    BY <1>1, <2>1, MoveSInv DEF Active
<1>8. ASSUME lacking # {}, NEW todo \in Sorted(lacking), NEW batch,
             run' = [run EXCEPT ![r].pc = "up", ![r].todo = todo, ![r].batch = batch, ![r].seen = {}]
      PROVE  SInv'
  <2>1. todo \in [1..Cardinality(lacking) -> lacking] /\ IsInjective(todo)
    BY DEF Sorted, Orders
  <2>2. todo \in Seq(lacking) /\ Range(todo) = lacking
    BY <1>6, <2>1, Listed
  <2>3. todo \in Seq(Names \ Old) /\ todo # <<>>
    <3>1. todo \in Seq(Names \ Old)
      BY <1>5, <2>2, SeqMonotonic
    <3>2. Range(<<>>) = {}
      BY DEF Range
    <3> QED
      BY <1>8, <2>2, <3>1, <3>2
  <2>4. /\ Only(r) /\ run'[r].pc = "up" /\ run'[r].kind = run[r].kind
        /\ run'[r].steps = run[r].steps /\ run'[r].todo = todo
    BY <1>8 DEF IInv, Only, Fields
  <2>5. Told' = Told /\ Old' = Old
    BY <1>1 DEF Told, Old, Recorded, dbVars, confVars
  <2>6. Aim(r)'
    BY <1>1, <1>3, <2>3, <2>4, <2>5 DEF SInv, Aim, Active
  <2>7. Reverting(r)'
    BY <2>4 DEF Reverting
  <2> QED
    BY <1>1, <2>4, <2>6, <2>7, QuietSInv DEF Active
<1> QED
  BY <1>2, <1>7, <1>8

\* What the database has once some migrations are recorded: each is new to
\* the table, and applied now or there first.
LEMMA GrownSInv ==
  ASSUME IInv, SInv, NEW r \in Replicas, Only(r), NEW S \in SUBSET Names,
         Table', Recorded' = Recorded \cup S, Range(records) \subseteq Range(records'),
         Schema', Covered', UNCHANGED confVars, stalled' = stalled, Active(r),
         run'[r].kind = run[r].kind, run'[r].steps = run[r].steps, Aim(r)',
         run'[r].pc \in {"plan", "up", "release"}
  PROVE  SInv'
<1>1. registered' = registered /\ baselineOn' = baselineOn
  BY DEF confVars
<1>2. Told => Told'
  BY <1>1 DEF Told, Old
<1>3. \A s \in Replicas \ {r} : Registry(s)' /\ Aim(s)' /\ Reverting(s)'
  BY <1>1, <1>2, OthersAim, OthersReverting
<1>4. Registry(r)' /\ Reverting(r)'
  BY <1>1 DEF SInv, Registry, Active, Known, Reverting
<1>5. registered' = [s \in Replicas |-> registered'[s]]
  BY <1>1 DEF SInv
<1> QED
  BY <1>3, <1>4, <1>5 DEF SInv

LEMMA ApplyBaselineSInv ==
  ASSUME IInv, SInv, BaselineDescribes, NEW r \in Replicas, ApplyBaseline(r)
  PROVE  SInv'
<1>1. /\ run[r].pc = "baseline" /\ stalled' = stalled /\ effect' = effect /\ UNCHANGED confVars
      /\ baselineOn' = baselineOn
  BY DEF ApplyBaseline, confVars
<1>2. baselineOn /\ Active(r)
  BY <1>1 DEF SInv, Aim, Active
<1>3. Baselined(r) = Existing /\ Old = Existing /\ Existing \subseteq Names
  BY <1>2, AllBaselined, MigrationAssumption DEF Old
<1>4. CASE Baselined(r) \cap Recorded # {}
  <2>1. run' = [run EXCEPT ![r].pc = "release"] /\ UNCHANGED dbVars
    BY <1>1, <1>4 DEF ApplyBaseline, Goto, dbVars
  <2>2. /\ Only(r) /\ run'[r].pc = "release" /\ run'[r].kind = run[r].kind
        /\ run'[r].steps = run[r].steps
    BY <2>1 DEF IInv, Only, Fields
  <2> QED
    BY <1>1, <1>2, <2>1, <2>2, MoveSInv
<1>5. ASSUME Baselined(r) \cap Recorded = {}, NEW names \in BaselineOf(r),
             records' = records \o
               [i \in DOMAIN names |-> Record(r, names[i], nextId + i - 1, 1)],
             nextId' = nextId + Len(names),
             run' = [run EXCEPT ![r].pc = "plan", ![r].seen = Range(records')]
      PROVE  SInv'
  <2>1. names \in [1..Cardinality(Existing) -> Existing] /\ IsInjective(names)
    BY <1>3 DEF BaselineOf, Orders
  <2>2. IsFiniteSet(Existing)
    BY MigrationAssumption, FS_Subset
  <2>3. Rows(names) /\ Range(names) = Existing
    BY <2>1, <2>2, Listed
  <2>4. Range(names) \subseteq Names \ Recorded
    BY <1>3, <1>5, <2>3
  <2>5. /\ Table' /\ Recorded' = Recorded \cup Existing
        /\ Range(records) \subseteq Range(records')
    BY <1>5, <2>1, <2>3, <2>4, TableJoin DEF SInv
  <2>6. Old' = Existing /\ Told'
    BY <1>1, <1>3, <2>5 DEF Old, Told
  <2>7. Schema' /\ Covered'
    BY <1>1, <1>3, <2>5, <2>6 DEF SInv, Schema, Covered
  <2> DEFINE seen == Range(records')
  <2>8. run' = [run EXCEPT ![r].pc = "plan", ![r].seen = seen]
    BY <1>5
  <2>9. \A m \in Recorded' : \E rec \in seen : rec.name = m
    BY DEF Recorded, Range
  <2> HIDE DEF seen
  <2>10. /\ Only(r) /\ run'[r].pc = "plan" /\ run'[r].kind = run[r].kind
         /\ run'[r].steps = run[r].steps /\ run'[r].seen = seen
    BY <2>8 DEF IInv, Only, Fields
  <2>11. Aim(r)'
    BY <1>1, <2>6, <2>9, <2>10 DEF SInv, Aim, Active, Told
  <2> QED
    BY <1>1, <1>2, <1>3, <2>5, <2>7, <2>10, <2>11, GrownSInv
<1> QED
  BY <1>4, <1>5 DEF ApplyBaseline

\* Up is committed with its record or not at all.
LEMMA UpSInv == ASSUME IInv, SInv, NEW r \in Replicas, Up(r) PROVE SInv'
<1> DEFINE m == Head(run[r].todo)
           rest == Tail(run[r].todo)
<1>1. /\ run[r].pc = "up" /\ stalled' = stalled /\ UNCHANGED confVars
      /\ baselineOn' = baselineOn
  BY DEF Up, confVars
<1>2. Told /\ run[r].todo \in Seq(Names \ Old) /\ run[r].todo # <<>>
  BY <1>1 DEF SInv, Aim
<1>3. m \in Names \ Old /\ rest \in Seq(Names \ Old)
  BY <1>2, HeadTailProperties
<1>4. CASE m \in Recorded
  <2>1. run' = [run EXCEPT ![r].pc = "release"] /\ UNCHANGED dbVars
    BY <1>4 DEF Up, Goto
  <2>2. /\ Only(r) /\ run'[r].pc = "release" /\ run'[r].kind = run[r].kind
        /\ run'[r].steps = run[r].steps
    BY <2>1 DEF IInv, Only, Fields
  <2> QED
    BY <1>1, <2>1, <2>2, MoveSInv DEF Active
<1>5. CASE m \notin Recorded
  <2> DEFINE x == Record(r, m, nextId, run[r].batch)
  <2>1. /\ effect' = [effect EXCEPT ![m] = @ + 1]
        /\ records' = Append(records, x) /\ nextId' = nextId + 1
        /\ run' = [run EXCEPT ![r].todo = rest, ![r].pc = IF rest = <<>> THEN "release" ELSE @]
    BY <1>5 DEF Up, Advance
  <2>2. x.name = m /\ x.id = nextId
    BY DEF Record
  <2> HIDE DEF m, rest, x
  <2>3. /\ Table' /\ Recorded' = Recorded \cup {m}
        /\ Range(records) \subseteq Range(records')
    BY <1>3, <1>5, <2>1, <2>2, TableAppend DEF SInv
  <2>4. Old' = Old /\ Told'
    BY <1>1, <1>2, <2>3 DEF Old, Told
  <2>5. Schema'
    BY <1>3, <1>5, <2>1, <2>3, <2>4 DEF SInv, Schema
  <2>6. Covered'
    BY <2>4 DEF Covered
  <2>7. /\ Only(r) /\ run'[r].kind = run[r].kind /\ run'[r].steps = run[r].steps
        /\ run'[r].todo = rest /\ run'[r].pc = IF rest = <<>> THEN "release" ELSE "up"
    BY <1>1, <2>1 DEF IInv, Only, Fields
  <2>8. Aim(r)'
    BY <1>1, <1>3, <2>4, <2>7 DEF SInv, Aim, Active
  <2> QED
    BY <1>1, <1>3, <2>3, <2>5, <2>6, <2>7, <2>8, GrownSInv DEF Active
<1> QED
  BY <1>4, <1>5

LEMMA TailInjective ==
  ASSUME NEW S, NEW s \in Seq(S), s # <<>>, IsInjective(s)
  PROVE  /\ Head(s) \in S /\ IsInjective(Tail(s))
         /\ Tail(s) \in Seq(S \ {Head(s)})
<1> DEFINE t == Tail(s)
           n == Len(s)
<1>1. n \in Nat /\ n >= 1 /\ DOMAIN s = 1..n /\ \A i \in 1..n : s[i] \in S
  BY LenProperties, EmptySeq
<1>2. /\ Head(s) \in S /\ Head(s) = s[1] /\ t \in Seq(S) /\ Len(t) = n - 1
      /\ \A i \in 1..n - 1 : t[i] = s[i + 1]
  BY HeadTailProperties
<1>3. DOMAIN t = 1..n - 1 /\ t \in [1..n - 1 -> S]
  BY <1>2, LenProperties
<1> HIDE DEF t, n
<1>4. \A i \in 1..n - 1 : i + 1 \in 1..n /\ i + 1 # 1 /\ 1 \in 1..n
  BY <1>1
<1>5. IsInjective(t)
  <2> SUFFICES ASSUME NEW i \in 1..n - 1, NEW j \in 1..n - 1, t[i] = t[j] PROVE i = j
    BY <1>3 DEF IsInjective
  <2>1. s[i + 1] = s[j + 1] /\ i + 1 \in 1..n /\ j + 1 \in 1..n
    BY <1>2, <1>4
  <2>2. i + 1 = j + 1
    BY <1>1, <2>1 DEF IsInjective
  <2> QED
    BY <2>2
<1>6. \A i \in 1..n - 1 : t[i] \in S \ {Head(s)}
  BY <1>1, <1>2, <1>4 DEF IsInjective
<1>7. t \in [1..n - 1 -> S \ {Head(s)}]
  BY <1>3, <1>6
<1>8. t \in Seq(S \ {Head(s)})
  BY <1>1, <1>7
<1> QED
  BY <1>2, <1>5, <1>8 DEF t

\* Down takes the record of what it reverts: only this replica reverts, since
\* one that reverts has not let its heartbeat lapse.
LEMMA DownSInv ==
  ASSUME IInv, SInv, BaselineDescribes, NEW r \in Replicas, Down(r)
  PROVE  SInv'
<1> DEFINE rec == Head(run[r].todo)
           rest == Tail(run[r].todo)
           at == {i \in DOMAIN records : records[i].id = rec.id}
<1>1. /\ run[r].pc = "down" /\ stalled' = stalled /\ UNCHANGED confVars
      /\ baselineOn' = baselineOn /\ registered' = registered /\ nextId' = nextId
  BY DEF Down, confVars
<1>2. /\ run[r].todo \in Seq(Range(records)) /\ run[r].todo # <<>>
      /\ IsInjective(run[r].todo)
  BY <1>1 DEF SInv, Reverting
<1>3. /\ rec \in Range(records) /\ IsInjective(rest)
      /\ rest \in Seq(Range(records) \ {rec})
  BY <1>2, TailInjective
<1>4. PICK i \in DOMAIN records : records' = RemoveAt(records, i) /\ records[i] = rec
  <2>1. PICK k \in DOMAIN records : records[k] = rec
    BY <1>3 DEF Range
  <2>2. at # {}
    BY <2>1
  <2>3. PICK i \in at : records' = RemoveAt(records, i)
    BY <2>2 DEF Down
  <2>4. i = k
    BY <2>1, <2>3 DEF SInv, Table
  <2> QED
    BY <2>1, <2>3, <2>4
<1>5. /\ effect' = [effect EXCEPT ![rec.name] = @ - 1]
      /\ HasDown(r, rec.name)
      /\ run' = [run EXCEPT ![r].todo = rest, ![r].pc = IF rest = <<>> THEN AfterDown(r) ELSE @]
  BY DEF Down, Advance
<1> HIDE DEF rec, rest, at
<1>6. /\ Table' /\ Recorded' = Recorded \ {rec.name}
      /\ \A x \in Range(records) : x # rec => x \in Range(records')
  BY <1>1, <1>4, TableRemove DEF SInv
<1>7. rec.name \in Recorded /\ rec.name \in Names
  BY <1>4, RecordedName DEF Recorded, SInv
<1>8. rec.name \notin Old
  BY <1>5 DEF BaselineDescribes, Old
<1>9. Old' = Old
  BY <1>1 DEF Old
<1>10. Told => Told'
  BY <1>6, <1>8, <1>9 DEF Told
<1>11. Schema'
  BY <1>5, <1>6, <1>7, <1>8, <1>9 DEF SInv, Schema
<1>12. records # <<>>
  BY <1>3 DEF Range
<1>13. Covered'
  BY <1>10, <1>12 DEF SInv, Covered
<1>14. AfterDown(r) \in {"read", "release"}
  BY DEF AfterDown
<1>15. /\ Only(r) /\ run'[r].kind = run[r].kind /\ run'[r].steps = run[r].steps
       /\ run'[r].todo = rest
       /\ run'[r].pc = IF rest = <<>> THEN AfterDown(r) ELSE "down"
  BY <1>1, <1>5 DEF IInv, Only, Fields
<1>16. Registry(r)' /\ Aim(r)'
  <2>1. Registry(r)'
    BY <1>1 DEF SInv, Registry, Active, Known
  <2>2. Aim(r)'
    BY <1>1, <1>10, <1>14, <1>15 DEF SInv, Aim, Active
  <2> QED
    BY <2>1, <2>2
<1>17. Reverting(r)'
  <2>1. rest \in Seq(Range(records'))
    BY <1>3, <1>6, SeqMonotonic
  <2> QED
    BY <1>3, <1>14, <1>15, <2>1 DEF Reverting
<1>18. \A s \in Replicas \ {r} : Registry(s)' /\ Aim(s)'
  BY <1>1, <1>10, <1>15, OthersAim
<1>19. \A s \in Replicas \ {r} : Reverting(s)'
  <2> SUFFICES ASSUME NEW s \in Replicas \ {r} PROVE run'[s].pc # "down"
    BY DEF Reverting
  <2>1. r \notin stalled
    BY <1>1 DEF SInv, Aim
  <2>2. run[s].pc = "down" => s \notin stalled
    BY DEF SInv, Aim
  <2>3. run[s].pc # "down"
    BY <1>1, <2>1, <2>2, IInvImpliesOneMigrator DEF OneMigrator, Holding, Critical
  <2> QED
    BY <1>15, <2>3 DEF Only
<1>20. registered' = [s \in Replicas |-> registered'[s]]
  BY <1>1 DEF SInv
<1> QED
  BY <1>6, <1>11, <1>13, <1>16, <1>17, <1>18, <1>19, <1>20 DEF SInv

\* A replica that starts has registered all it knows.
LEMMA StartSInv ==
  ASSUME IInv, SInv, NEW r \in Replicas, NEW kind \in {"migrate", "rollback", "reset", "refresh"},
         NEW steps \in Nat, Start(r, kind, steps)
  PROVE  SInv'
<1> DEFINE new == [Idle EXCEPT !.pc = "wait", !.kind = kind, !.steps = steps,
                               !.deadline = now + MaxWait]
           S == DiscoverSQLMigrations(r) \ Range(registered[r])
<1>1. /\ run[r].pc = "idle" /\ run' = [run EXCEPT ![r] = new] /\ stalled' = stalled
      /\ UNCHANGED dbVars /\ baselineOn' = baselineOn
      /\ kind = "migrate" \/ ~baselineOn \/ records # <<>>
  BY DEF Start
<1>2. PICK found \in Sorted(S) : registered' = [registered EXCEPT ![r] = @ \o found]
  BY DEF Start, AutoDiscover
<1>3. new.pc = "wait" /\ new.kind = kind /\ new.steps = steps /\ DOMAIN new = Fields
  BY IdleFields DEF Idle, Fields
<1> HIDE DEF new
<1>4. Only(r) /\ run'[r] = new
  BY <1>1, <1>3 DEF IInv, Only
<1>5. DiscoverSQLMigrations(r) \subseteq Names
  BY MigrationAssumption DEF DiscoverSQLMigrations
<1>6. IsFiniteSet(S) /\ S \subseteq Names
  <2>1. S \in SUBSET Names
    BY <1>5
  <2> QED
    BY <2>1, MigrationAssumption, FS_Subset
<1>7. found \in Seq(Names) /\ Range(found) = S
  <2> HIDE DEF S
  <2>1. found \in [1..Cardinality(S) -> S] /\ IsInjective(found)
    BY <1>2 DEF Sorted, Orders
  <2>2. found \in Seq(S) /\ Range(found) = S
    BY <1>6, <2>1, Listed
  <2> QED
    BY <1>6, <2>2, SeqMonotonic
<1>8. registered[r] \in Seq(Names) /\ Range(Coded[r]) \subseteq Range(registered[r])
  BY DEF SInv, Registry
<1>9. registered' = [s \in Replicas |-> registered'[s]] /\ registered'[r] = registered[r] \o found
  BY <1>2 DEF SInv
<1>10. \A s \in Replicas \ {r} : registered'[s] = registered[s]
  BY <1>2 DEF SInv
<1>11. Range(registered'[r]) = Range(registered[r]) \cup S /\ registered'[r] \in Seq(Names)
  BY <1>7, <1>8, <1>9, RangeConcatenation, ConcatProperties
<1>12. Registry(r)'
  BY <1>8, <1>11 DEF Registry, Known
<1>13. /\ records' = records /\ nextId' = nextId /\ effect' = effect
       /\ Old' = Old /\ Recorded' = Recorded /\ Told' = Told
  BY <1>1 DEF dbVars, Old, Recorded, Told
<1>14. kind # "migrate" => Told
  BY <1>1 DEF SInv, Covered, Told, Old
<1>15. r \notin stalled
  BY <1>1 DEF IInv, Holding, Critical
<1>16. Aim(r)' /\ Reverting(r)'
  BY <1>1, <1>3, <1>4, <1>13, <1>14, <1>15 DEF Aim, Active, Reverting
<1>17. Table' /\ Schema' /\ Covered'
  BY <1>13 DEF SInv, Table, Schema, Covered
<1>18. \A s \in Replicas \ {r} : Registry(s)' /\ Aim(s)' /\ Reverting(s)'
  BY <1>1, <1>4, <1>10, <1>13, OthersAim, OthersReverting
<1> QED
  BY <1>9, <1>12, <1>16, <1>17, <1>18 DEF SInv

LEMMA InitSInv == Init => SInv
<1> SUFFICES ASSUME Init PROVE SInv
  OBVIOUS
<1>1. /\ records = <<>> /\ nextId = 1 /\ registered = Coded /\ stalled = {}
      /\ effect = [m \in Names |-> IF baselineOn /\ m \in Existing THEN 1 ELSE 0]
      /\ \A r \in Replicas : run[r] = Idle
  BY DEF Init
<1>2. Recorded = {} /\ Range(records) = {} /\ DOMAIN records = {}
  BY <1>1 DEF Recorded, Range
<1>3. Table
  BY <1>1, <1>2 DEF Table, Rows
<1>4. Schema /\ Covered
  BY <1>1, <1>2 DEF Schema, Covered, Old
<1>5. registered = [r \in Replicas |-> registered[r]]
  BY <1>1, MigrationAssumption
<1>6. ASSUME NEW r \in Replicas PROVE Registry(r) /\ Aim(r) /\ Reverting(r)
  <2>1. run[r].pc = "idle" /\ run[r].steps = 0
    BY <1>1 DEF Idle
  <2>2. registered[r] \in Seq(Names)
    BY <1>1, MigrationAssumption
  <2> QED
    BY <1>1, <2>1, <2>2 DEF Registry, Aim, Reverting, Active
<1> QED
  BY <1>3, <1>4, <1>5, <1>6 DEF SInv

LEMMA NextSInv == IInv /\ SInv /\ BaselineDescribes /\ [Next]_vars => SInv'
<1> SUFFICES ASSUME IInv, SInv, BaselineDescribes, [Next]_vars PROVE SInv'
  OBVIOUS
<1>1. CASE Tick \/ UNCHANGED vars
  BY <1>1, StillSInv DEF Tick, vars, dbVars, confVars
<1>2. ASSUME NEW r \in Replicas, NEW kind \in {"migrate", "reset", "refresh"}, Start(r, kind, 0)
      PROVE  SInv'
  BY <1>2, StartSInv
<1>3. ASSUME NEW r \in Replicas, NEW steps \in {0, 1}, Start(r, "rollback", steps)
      PROVE  SInv'
  BY <1>3, StartSInv
<1>4. ASSUME NEW r \in Replicas, Operation(r)
      PROVE  SInv'
  <2>1. ASSUME TryLock(r) \/ Look(r) \/ Break(r) PROVE SInv'
    BY <2>1, WaitSInv
  <2>2. ASSUME GiveUp(r) \/ Release(r) PROVE SInv'
    BY <2>2, LeaveSInv
  <2>3. ASSUME ReadExecuted(r) \/ ApplyBaseline(r) \/ Plan(r) \/ Up(r) \/ UpFails(r) PROVE SInv'
    BY <2>3, ReadExecutedSInv, ApplyBaselineSInv, PlanSInv, UpSInv, FailsSInv
  <2>4. ASSUME Count(r) \/ ReadDescending(r) \/ Down(r) \/ DownFails(r) PROVE SInv'
    BY <2>4, CountSInv, ReadDescendingSInv, DownSInv, FailsSInv
  <2> QED
    BY <1>4, <2>1, <2>2, <2>3, <2>4 DEF Operation
<1>5. ASSUME NEW r \in Replicas, updateLockHeartbeat(r) \/ Stall(r)
      PROVE  SInv'
  BY <1>5, StillSInv DEF updateLockHeartbeat, Stall
<1>6. ASSUME NEW r \in Replicas, Crash(r) PROVE SInv'
  BY <1>6, LeaveSInv
<1> QED
  BY <1>1, <1>2, <1>3, <1>4, <1>5, <1>6 DEF Next

\* As many recorded names as records: no two records share one.
LEMMA SInvImpliesSchemaMatchesRecords == SInv => SchemaMatchesRecords
<1> SUFFICES ASSUME SInv PROVE SchemaMatchesRecords
  OBVIOUS
<1> DEFINE n == Len(records)
           name == [i \in 1..n |-> records[i].name]
<1>1. /\ n \in Nat /\ DOMAIN records = 1..n /\ Recorded \subseteq Names
      /\ Recorded = {records[i].name : i \in 1..n}
  BY RecordedName DEF SInv
<1> HIDE DEF n
<1>2. name \in Bijection(1..n, Recorded)
  <2>1. name \in [1..n -> Recorded]
    BY <1>1
  <2>2. \A i, j \in 1..n : name[i] = name[j] => i = j
    BY <1>1 DEF SInv, Table
  <2>3. \A m \in Recorded : \E i \in 1..n : name[i] = m
    BY <1>1
  <2> QED
    BY <2>1, <2>2, <2>3 DEF Bijection, Injection, Surjection, IsInjective
<1>3. Cardinality(Recorded) = n
  BY <1>1, <1>2, FS_CountingElements DEF ExistsBijection
<1>4. \A m \in Recorded : effect[m] = 1
  BY <1>1 DEF SInv, Schema
<1>5. \A m \in Names \ Recorded : effect[m] = 0 \/ (effect[m] = 1 /\ baselineOn /\ m \in Existing)
  BY <1>1 DEF SInv, Schema, Old
<1> QED
  BY <1>3, <1>4, <1>5 DEF SchemaMatchesRecords, n

\* Under a baseline that describes the database, or none, the control table
\* tells the truth about the schema: whichever replica lost the lock to
\* another or crashed, a migration with a record was applied once, and one
\* without was not (migrator.go, Migrate, Rollback, Reset and Refresh).
THEOREM TableTellsTheTruth == Spec => [](BaselineDescribes => SchemaMatchesRecords)
<1> DEFINE Inv == IInv /\ (BaselineDescribes => SInv)
<1>1. Init => Inv
  BY InitIInv, InitSInv
<1>2. Inv /\ [Next]_vars => Inv'
  <2> SUFFICES ASSUME Inv, [Next]_vars PROVE Inv'
    OBVIOUS
  <2>1. baselineOn' = baselineOn
    BY DEF Next, vars, confVars, Tick, Start, Operation, TryLock, Look, Break, GiveUp, Release,
           ReadExecuted, ApplyBaseline, Plan, Up, UpFails, DownFails, Fails, Count,
           ReadDescending, Down, updateLockHeartbeat, Stall, Crash
  <2>2. BaselineDescribes' <=> BaselineDescribes
    BY <2>1 DEF BaselineDescribes
  <2> QED
    BY <2>2, NextIInv, NextSInv
<1>3. Inv => (BaselineDescribes => SchemaMatchesRecords)
  BY SInvImpliesSchemaMatchesRecords
<1> QED
  BY <1>1, <1>2, <1>3, PTL DEF Spec
=============================================================================
