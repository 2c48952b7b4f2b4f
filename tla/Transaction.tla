----------------------------- MODULE Transaction -----------------------------
(***************************************************************************)
(* Nested calls of Transactional in one goroutine                          *)
(* (framework/database/transaction.go): the seven propagations, the        *)
(* savepoints, the error a joined scope leaves in the physical             *)
(* transaction, and the events buffered until the commit.                  *)
(*                                                                         *)
(* stack holds the calls under way, innermost last.  A physical            *)
(* transaction and its event buffer are named by the depth of the call     *)
(* that began them.  The function a call runs may do anything in any       *)
(* order: work, make further calls, swallow their errors, recover their    *)
(* panics, return, fail.  A call that is refused at once (MANDATORY        *)
(* without a transaction, NEVER within one, BEGIN fails) changes nothing   *)
(* and is no step.  Read-only mode only makes the database refuse writes   *)
(* and is left out.                                                        *)
(*                                                                         *)
(* Of GORM: an error added to the *gorm.DB of the transaction stays there  *)
(* and is inherited by every later statement, which is then not executed.  *)
(***************************************************************************)
EXTENDS Naturals, Sequences, SequencesExt

CONSTANTS
  Items,     \* pieces of work: a write and the event that tells of it
  MaxDepth   \* bound on calls within calls

ASSUME DepthAssumption == MaxDepth \in Nat

VARIABLES
  stack,       \* the calls under way: kind, context and savepoint of each
  doomed,      \* per physical transaction: tx.Error is set
  pending,     \* per physical transaction: items written and not committed
  buffer,      \* per physical transaction: items whose events wait
  committed,   \* items whose writes the database has committed
  dispatched,  \* items whose events the event bus was given
  begun,       \* items some function has worked on
  failed       \* history: items written in a scope that then failed

txVars == <<doomed, pending, buffer>>
outVars == <<committed, dispatched>>
callVars == <<stack, txVars, outVars, begun, failed>>

Depths == 1..MaxDepth
None == 0

Frame == [kind : {"new", "join", "nested", "plain"},
          tx : Depths \cup {None},       \* txKey of the context
          events : Depths \cup {None},   \* eventsKey of the context
          saved : SUBSET Items,          \* of a savepoint: what was pending
          mark : Nat]                    \* of a savepoint: initialLen

TypeOK ==
  /\ stack \in Seq(Frame) /\ Len(stack) <= MaxDepth
  /\ \A d \in 1..Len(stack) :
       /\ stack[d].kind = "new" <=> stack[d].tx = d
       /\ stack[d].kind \in {"join", "nested"} => stack[d].tx # None
  /\ doomed \in [Depths -> BOOLEAN]
  /\ pending \in [Depths -> SUBSET Items]
  /\ buffer \in [Depths -> Seq(Items)]
  /\ committed \subseteq Items /\ dispatched \subseteq Items
  /\ begun \subseteq Items /\ failed \subseteq Items

TxInit ==
  /\ stack = << >>
  /\ doomed = [t \in Depths |-> FALSE]
  /\ pending = [t \in Depths |-> {}]
  /\ buffer = [t \in Depths |-> << >>]
  /\ committed = {} /\ dispatched = {} /\ begun = {} /\ failed = {}

-----------------------------------------------------------------------------
(* Entering a scope. *)

\* The context without a transaction.
Background == [kind |-> "plain", tx |-> None, events |-> None, saved |-> {}, mark |-> 0]

Ctx == IF stack = << >> THEN Background ELSE Last(stack)
InTx == Ctx.tx # None

Enter(frame) ==
  /\ Len(stack) < MaxDepth
  /\ stack' = Append(stack, frame)
  /\ UNCHANGED <<outVars, begun, failed>>

\* executeInNewTx
BeginTx ==
  LET d == Len(stack) + 1 IN
  /\ Enter([kind |-> "new", tx |-> d, events |-> d, saved |-> {}, mark |-> 0])
  /\ UNCHANGED txVars

\* executeInActiveTx
JoinTx ==
  /\ Enter([Ctx EXCEPT !.kind = "join"])
  /\ UNCHANGED txVars

\* executeInNestedTx: the savepoint is refused in a transaction with an error.
Savepoint ==
  /\ ~doomed[Ctx.tx]
  /\ Enter([kind |-> "nested", tx |-> Ctx.tx, events |-> Ctx.events,
            saved |-> pending[Ctx.tx], mark |-> Len(buffer[Ctx.events])])
  /\ UNCHANGED txVars

\* The SAVEPOINT statement fails, and its error stays in the transaction.
SavepointFails ==
  /\ InTx
  /\ doomed' = [doomed EXCEPT ![Ctx.tx] = TRUE]
  /\ UNCHANGED <<stack, pending, buffer, outVars, begun, failed>>

SameContext ==
  /\ Enter([Ctx EXCEPT !.kind = "plain"])
  /\ UNCHANGED txVars

\* executeInNotSupported that hides the transaction and not its event buffer.
SuspendKeepsEvents ==
  /\ Enter([Background EXCEPT !.events = Ctx.events])
  /\ UNCHANGED txVars

\* executeInNotSupported
Suspend == Enter(Background) /\ UNCHANGED txVars

Required == IF InTx THEN JoinTx ELSE BeginTx
RequiresNew == BeginTx

\* A savepoint without looking for a transaction first.
NestedUnchecked ==
  /\ Enter([Ctx EXCEPT !.kind = "nested"])
  /\ UNCHANGED txVars

Nested == IF InTx THEN Savepoint ELSE BeginTx
Supports == SameContext
NotSupported == Suspend
Mandatory == InTx /\ JoinTx
Never == ~InTx /\ SameContext

-----------------------------------------------------------------------------
(* What the functions do in between. *)

\* Write in the transaction of the context, or outside any; publish.
Work(i) ==
  LET t == Ctx.tx
      e == Ctx.events IN
  /\ i \notin begun
  /\ begun' = begun \cup {i}
  /\ IF t = None THEN committed' = committed \cup {i} /\ UNCHANGED pending
     ELSE /\ pending' = IF doomed[t] THEN pending ELSE [pending EXCEPT ![t] = @ \cup {i}]
          /\ UNCHANGED committed
  /\ IF e = None THEN dispatched' = dispatched \cup {i} /\ UNCHANGED buffer
     ELSE buffer' = [buffer EXCEPT ![e] = Append(@, i)] /\ UNCHANGED dispatched
  /\ UNCHANGED <<stack, doomed, failed>>

-----------------------------------------------------------------------------
(* Leaving a scope. *)

Leave(kind) ==
  /\ stack # << >> /\ Ctx.kind = kind
  /\ stack' = Front(stack)

\* A scope that shares its caller's transaction, or has none, has nothing to do
\* when its function returns; nor has one without a transaction when it fails.
Returns ==
  /\ \E kind \in {"join", "nested", "plain"} : Leave(kind)
  /\ UNCHANGED <<txVars, outVars, begun, failed>>

\* The failure of a joined scope is returned and not added to the transaction.
JoinFailsQuietly ==
  /\ Leave("join")
  /\ failed' = failed \cup pending[Ctx.tx]
  /\ UNCHANGED <<txVars, outVars, begun>>

\* An error or a panic in executeInActiveTx: tx.AddError.
JoinFails ==
  /\ Leave("join")
  /\ doomed' = [doomed EXCEPT ![Ctx.tx] = TRUE]
  /\ failed' = failed \cup pending[Ctx.tx]
  /\ UNCHANGED <<pending, buffer, outVars, begun>>

\* What the failed nested scope has written.
Nesting == pending[Ctx.tx] \ Ctx.saved

\* An error or a panic in executeInNestedTx: roll back to the savepoint and cut
\* the events of the scope.
NestedFails ==
  /\ Leave("nested")
  /\ ~doomed[Ctx.tx]
  /\ pending' = [pending EXCEPT ![Ctx.tx] = Ctx.saved]
  /\ buffer' = [buffer EXCEPT ![Ctx.events] = SubSeq(@, 1, Ctx.mark)]
  /\ failed' = failed \cup Nesting
  /\ UNCHANGED <<doomed, outVars, begun>>

\* The same, when RollbackTo fails, or finds the error of a scope that had
\* joined: the events are cut in a panic only.
NestedRollbackFails ==
  /\ Leave("nested")
  /\ doomed' = [doomed EXCEPT ![Ctx.tx] = TRUE]
  /\ \/ UNCHANGED buffer
     \/ buffer' = [buffer EXCEPT ![Ctx.events] = SubSeq(@, 1, Ctx.mark)]
  /\ failed' = failed \cup Nesting
  /\ UNCHANGED <<pending, outVars, begun>>

\* The variables of executeInNewTx go with the call.
Forget(t) ==
  /\ doomed' = [doomed EXCEPT ![t] = FALSE]
  /\ pending' = [pending EXCEPT ![t] = {}]
  /\ buffer' = [buffer EXCEPT ![t] = << >>]

\* Committing without a look at tx.Error.
CommitUnchecked ==
  /\ Leave("new")
  /\ committed' = committed \cup pending[Ctx.tx]
  /\ dispatched' = dispatched \cup ToSet(buffer[Ctx.tx])
  /\ Forget(Ctx.tx)
  /\ UNCHANGED <<begun, failed>>

\* The function returns without an error: commit, then the post-commit hook.
Commit ==
  /\ Leave("new")
  /\ ~doomed[Ctx.tx]
  /\ committed' = committed \cup pending[Ctx.tx]
  /\ dispatched' = dispatched \cup ToSet(buffer[Ctx.tx])
  /\ Forget(Ctx.tx)
  /\ UNCHANGED <<begun, failed>>

\* It fails or panics, or tx.Error is set, or the commit fails.
Rollback ==
  /\ Leave("new")
  /\ failed' = failed \cup pending[Ctx.tx]
  /\ Forget(Ctx.tx)
  /\ UNCHANGED <<outVars, begun>>

-----------------------------------------------------------------------------
Call ==
  \/ Required \/ RequiresNew \/ Nested \/ Supports \/ NotSupported \/ Mandatory \/ Never

TxNext ==
  \/ Call \/ SavepointFails
  \/ \E i \in Items : Work(i)
  \/ Returns \/ JoinFails \/ NestedFails \/ NestedRollbackFails
  \/ Commit \/ Rollback

TxSpec == TxInit /\ [][TxNext]_callVars

-----------------------------------------------------------------------------
(* Properties *)

\* "published only after successful commit"
\* (docs/tutorials/02_transaction_management.md), and then always: through every
\* nesting of propagations, savepoints, swallowed errors and recovered panics,
\* the events dispatched tell of exactly the writes that are committed.
EventsMatchWrites == dispatched = committed

\* What is written in a scope that fails is never committed, even if the caller
\* goes on and succeeds; a scope that had joined takes all of the transaction
\* with it (executeInActiveTx, executeInNestedTx, executeInNewTx).
FailedScopeLeavesNothing == failed \cap committed = {}

\* A transaction that carries an error is not committed: whatever its function
\* returns, its writes and those under way with it are gone.
DoomedNeverCommits ==
  [][\A t \in Depths : doomed[t] => (committed' \ committed) \cap pending[t] = {}]_callVars
=============================================================================
