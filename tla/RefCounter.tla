----------------------------- MODULE RefCounter -----------------------------
(***************************************************************************)
(* Minting references (TC-1005, RUN-0042, PLAN-003, REQ-1, DEF-1).         *)
(*                                                                         *)
(* createCase, createRun, createPlan, createRequirement and createDefect   *)
(* each open a transaction whose first three statements are the same, in   *)
(* five copies: make sure the project's counter row exists, read it FOR    *)
(* UPDATE, increment it.  The entity is inserted with the number read, and *)
(* the transaction commits.  The counter row stays locked from the first   *)
(* statement to the end of the transaction.                                *)
(*                                                                         *)
(* One project is modelled: nothing here relates two projects.             *)
(***************************************************************************)
EXTENDS Naturals, Sequences, Functions

CONSTANTS
    Kinds,         \* case, run, plan, requirement, defect
    Counted,       \* kinds the entity_type column of ref_counters admits
    First,         \* next_value as seeded, None where there is no row
    Requests,      \* one create call each
    None

ASSUME CounterAssumption ==
    /\ Counted \subseteq Kinds
    /\ First \in [Kinds -> (Nat \ {0}) \cup {None}]
    /\ None \notin Nat \cup Requests

VARIABLES
    counter,       \* committed next_value of each kind, None where there is no row
    holder,        \* the request whose transaction locks the counter row
    issued,        \* numbers of the entities committed, in commit order
    tx             \* what each request's transaction knows

counterVars == <<counter, holder, issued, tx>>

\* next is the transaction's own value of next_value, ref the number it read.
Holding == {"read", "bump", "insert", "commit"}
Outcomes == {"created", "timeout", "rejected", "duplicate", "failed"}

Transaction ==
    [pc: {"idle"} \cup Outcomes]
    \cup [pc: {"ensure"}, kind: Kinds]
    \cup [pc: Holding, kind: Kinds, next: Nat, ref: Nat]

CounterTypeOK ==
    /\ counter \in [Kinds -> Nat \cup {None}]
    /\ holder \in [Kinds -> Requests \cup {None}]
    /\ issued \in [Kinds -> Seq(Nat)]
    /\ tx \in [Requests -> Transaction]

Idle == [pc |-> "idle"]
Ended(outcome) == [pc |-> outcome]

\* Mutant: the row is taken to be there.
CurrentUnseeded(k) == counter[k]

\* The counter a transaction finds: a missing row is inserted as 1.
Current(k) == IF counter[k] = None THEN 1 ELSE counter[k]

CounterInit ==
    /\ counter = First
    /\ holder = [k \in Kinds |-> None]
    /\ issued = [k \in Kinds |-> <<>>]
    /\ tx = [r \in Requests |-> Idle]

-----------------------------------------------------------------------------

\* The service has checked the caller and opens the transaction.
Begin(r) ==
    /\ tx[r] = Idle
    /\ \E k \in Kinds : tx' = [tx EXCEPT ![r] = [pc |-> "ensure", kind |-> k]]
    /\ UNCHANGED <<counter, holder, issued>>

\* INSERT ... ON DUPLICATE KEY UPDATE next_value = next_value + 0: inserts or
\* finds the row, and locks it either way once no one else does.
Ensure(r) ==
    /\ tx[r].pc = "ensure"
    /\ tx[r].kind \in Counted
    /\ holder[tx[r].kind] = None
    /\ holder' = [holder EXCEPT ![tx[r].kind] = r]
    /\ tx' = [tx EXCEPT ![r] = [pc |-> "read", kind |-> tx[r].kind,
                                next |-> Current(tx[r].kind), ref |-> 0]]
    /\ UNCHANGED <<counter, issued>>

\* Mutant: the failed statement is tried again.
RejectRetried(r) ==
    /\ tx[r].pc = "ensure"
    /\ tx[r].kind \notin Counted
    /\ UNCHANGED counterVars

\* The column does not admit the kind: the INSERT fails in strict mode, and
\* otherwise stores another value that the SELECT then does not find.
Reject(r) ==
    /\ tx[r].pc = "ensure"
    /\ tx[r].kind \notin Counted
    /\ tx' = [tx EXCEPT ![r] = Ended("rejected")]
    /\ UNCHANGED <<counter, holder, issued>>

\* Error 1205 while another transaction holds the row: REF_COUNTER_TIMEOUT.
Timeout(r) ==
    /\ tx[r].pc = "ensure"
    /\ tx[r].kind \in Counted
    /\ holder[tx[r].kind] # None
    /\ tx' = [tx EXCEPT ![r] = Ended("timeout")]
    /\ UNCHANGED <<counter, holder, issued>>

\* SELECT next_value ... FOR UPDATE.
Read(r) ==
    /\ tx[r].pc = "read"
    /\ tx' = [tx EXCEPT ![r].pc = "bump", ![r].ref = tx[r].next]
    /\ UNCHANGED <<counter, holder, issued>>

\* Mutant: the UPDATE is lost.
BumpLost(r) ==
    /\ tx[r].pc = "bump"
    /\ tx' = [tx EXCEPT ![r].pc = "insert"]
    /\ UNCHANGED <<counter, holder, issued>>

\* UPDATE ... SET next_value = next_value + 1.
Bump(r) ==
    /\ tx[r].pc = "bump"
    /\ tx' = [tx EXCEPT ![r].pc = "insert", ![r].next = @ + 1]
    /\ UNCHANGED <<counter, holder, issued>>

\* The end of the transaction releases the row lock it may hold.
Released(r) == [k \in Kinds |-> IF holder[k] = r THEN None ELSE holder[k]]

\* INSERT of the entity, its children and its audit row; the unique key on
\* (project, ref) turns a second use of a number into DUPLICATE_*_REF.
InsertRow(r) ==
    /\ tx[r].pc = "insert"
    /\ \/ /\ tx[r].ref \notin Range(issued[tx[r].kind])
          /\ tx' = [tx EXCEPT ![r].pc = "commit"]
          /\ UNCHANGED holder
       \/ /\ tx[r].ref \in Range(issued[tx[r].kind])
          /\ tx' = [tx EXCEPT ![r] = Ended("duplicate")]
          /\ holder' = Released(r)
    /\ UNCHANGED <<counter, issued>>

Commit(r) ==
    /\ tx[r].pc = "commit"
    /\ counter' = [counter EXCEPT ![tx[r].kind] = tx[r].next]
    /\ issued' = [issued EXCEPT ![tx[r].kind] = Append(@, tx[r].ref)]
    /\ holder' = Released(r)
    /\ tx' = [tx EXCEPT ![r] = Ended("created")]

\* Mutant: the counter is not part of the transaction.
AbortKeepsCounter(r) ==
    /\ tx[r].pc \in Holding
    /\ counter' = [counter EXCEPT ![tx[r].kind] = tx[r].next]
    /\ holder' = Released(r)
    /\ tx' = [tx EXCEPT ![r] = Ended("failed")]
    /\ UNCHANGED issued

\* Any other failure, a deadlock or a crash: the transaction rolls back, and
\* a counter row it had inserted goes with it.
Abort(r) ==
    /\ tx[r].pc \in {"ensure"} \cup Holding
    /\ holder' = Released(r)
    /\ tx' = [tx EXCEPT ![r] = Ended("failed")]
    /\ UNCHANGED <<counter, issued>>

\* The steps the server takes by itself.
CounterStep(r) ==
    \/ Ensure(r) \/ Reject(r) \/ Timeout(r)
    \/ Read(r) \/ Bump(r) \/ InsertRow(r) \/ Commit(r)

CounterNext == \E r \in Requests : Begin(r) \/ CounterStep(r) \/ Abort(r)

CounterSpec == CounterInit /\ [][CounterNext]_counterVars

\* An awaited statement returns or fails, and a lock wait is bounded by
\* innodb_lock_wait_timeout: no transaction stays where it is for ever.
FairCounterSpec == CounterSpec /\ \A r \in Requests : WF_counterVars(CounterStep(r))

-----------------------------------------------------------------------------
(* Properties *)

\* At most one transaction at a time is between reading a counter and
\* committing it, and it is the one that holds the row.
ReadersExclude ==
    \A r \in Requests :
        tx[r].pc \in Holding => holder[tx[r].kind] = r

\* The branch "extremely unlikely with correct FOR UPDATE locking"
\* (TestRunService.ts:924-930, and its four copies) is never taken.
NeverDuplicate == \A r \in Requests : tx[r].pc # "duplicate"

\* Numbers are consecutive and in commit order, rollbacks notwithstanding.
Base == [k \in Kinds |-> IF First[k] = None THEN 1 ELSE First[k]]
Allocator == INSTANCE RefAllocator WITH
    Kinds <- Kinds, Base <- Base, issued <- issued
Consecutive == Allocator!Spec

\* Every create call that opens its transaction ends: none waits for ever for
\* a counter row, whoever else fails.
EveryRequestEnds == \A r \in Requests : tx[r].pc = "ensure" ~> tx[r].pc \in Outcomes
=============================================================================
