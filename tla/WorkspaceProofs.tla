-------------------------- MODULE WorkspaceProofs --------------------------
(***************************************************************************)
(* The parts of the server that write the rows of an organisation: what    *)
(* every handler takes from RefCounter, whole projects, and the users.     *)
(*                                                                         *)
(* RefCounter: references are minted correctly for any number of requests, *)
(* any kinds and any state of the counters table.  It implements           *)
(* RefAllocator, and no insert ever meets a reference already taken.  The  *)
(* inductive invariant says what a transaction knows: between its first    *)
(* statement and its end it holds the counter row of its kind, so the      *)
(* number it has read is still the committed one (Working); and the        *)
(* committed counter is one past the entities committed (Counting).        *)
(*                                                                         *)
(* Workspace: for any projects, copies, resets and other writes, every     *)
(* foreign key has its two rows and stays in its project.  Inductive with  *)
(* this are what a copy has read so far (Stage), that no row of a table of *)
(* the organisation belongs to a project (OrgRows), and the form of slugs. *)
(* That the scripts of the seed write rows whose parents they wrote is     *)
(* SeedClosed, from the parts the scripts are joined of.  A copy made      *)
(* while nobody wrote is complete: this rests on what rows are whatever is *)
(* deleted (RowsOK), and on what such a copy has read so far, which is     *)
(* just the rows of its source in the tables it has come to (Mirror).      *)
(* A reset during which nobody wrote leaves the seed: it has kept every    *)
(* row of the tables it has read and nothing is left of those it has       *)
(* deleted (Covered), so that no key refuses a delete but those of         *)
(* requirements and defects, and it has then put in just the statements    *)
(* before its next one (Filled).                                           *)
(*                                                                         *)
(* UserAdmin: the guard of the last active admin is right up to races, a   *)
(* lockout is permanent, and project roles trace back to administrators,   *)
(* for any users, patches and number of requests.  The first rests on what *)
(* a handler alone since its start may rely on (Alone): if it is about to  *)
(* demote or deactivate an admin, some other admin is active.  The last    *)
(* rests on what a handler of assignProjectRole that has passed its check  *)
(* knows of its actor (Granting).                                          *)
(***************************************************************************)
EXTENDS RefCounter, Workspace, UserAdmin, FiniteSetTheorems, SequenceTheorems,
        WellFoundedInduction, TLAPS

-----------------------------------------------------------------------------
(* RefCounter *)

\* What a transaction that has locked its counter knows.
Working(r) ==
    tx[r].pc \in Holding =>
        /\ holder[tx[r].kind] = r
        /\ tx[r].pc \in {"read", "bump"} =>
              tx[r].next = Current(tx[r].kind)
        /\ tx[r].pc \in {"insert", "commit"} =>
              tx[r].next = Current(tx[r].kind) + 1
        /\ tx[r].pc # "read" => tx[r].ref = Current(tx[r].kind)

\* The counter is one past the references committed, all of them below it.
Counting ==
    \A k \in Kinds :
        /\ Current(k) = Base[k] + Len(issued[k])
        /\ \A i \in 1..Len(issued[k]) : issued[k][i] < Current(k)

CounterInv ==
    /\ CounterTypeOK
    /\ \A r \in Requests : Working(r)
    /\ Counting
    /\ NeverDuplicate

-----------------------------------------------------------------------------

\* A transaction in progress has a kind, its value of the counter and the
\* number it has read.
LEMMA HoldingType ==
    ASSUME CounterTypeOK, NEW r \in Requests, tx[r].pc \in Holding
    PROVE  tx[r] \in [pc: Holding, kind: Kinds, next: Nat, ref: Nat]
  BY DEF CounterTypeOK, Transaction, Holding, Outcomes

\* One that has yet to lock the counter has a kind.
LEMMA EnsureType ==
    ASSUME CounterTypeOK, NEW r \in Requests, tx[r].pc = "ensure"
    PROVE  tx[r] \in [pc: {"ensure"}, kind: Kinds]
  BY DEF CounterTypeOK, Transaction, Holding, Outcomes

\* The counter that a transaction finds is a number.
LEMMA CurrentType ==
    ASSUME CounterTypeOK, NEW k \in Kinds
    PROVE  Current(k) \in Nat
  BY CounterAssumption DEF CounterTypeOK, Current

\* Giving locks back leaves a lock table.
LEMMA ReleasedType ==
    ASSUME CounterTypeOK, NEW r \in Requests
    PROVE  Released(r) \in [Kinds -> Requests \cup {None}]
  BY DEF CounterTypeOK, Released

\* The outcomes are states of a request, and so is each state in progress.
LEMMA TransactionStates ==
    /\ \A o \in Outcomes : Ended(o) \in Transaction
    /\ \A h \in [pc: Holding, kind: Kinds, next: Nat, ref: Nat] : h \in Transaction
  BY DEF Ended, Transaction, Holding, Outcomes

\* Every step preserves the types.
LEMMA CounterTypeStep == CounterTypeOK /\ [CounterNext]_counterVars => CounterTypeOK'
<1> SUFFICES ASSUME CounterTypeOK, [CounterNext]_counterVars PROVE CounterTypeOK'
  OBVIOUS
<1>1. CASE UNCHANGED counterVars
  BY <1>1 DEF CounterTypeOK, counterVars
<1>2. CASE CounterNext
  <2> SUFFICES ASSUME NEW r \in Requests, Begin(r) \/ CounterStep(r) \/ Abort(r)
               PROVE  CounterTypeOK'
    BY <1>2 DEF CounterNext
  <2> USE DEF CounterTypeOK
  <2>1. CASE Begin(r)
    <3>1. PICK k \in Kinds : tx' = [tx EXCEPT ![r] = [pc |-> "ensure", kind |-> k]]
      BY <2>1 DEF Begin
    <3>2. [pc |-> "ensure", kind |-> k] \in Transaction
      BY DEF Transaction
    <3> QED
      BY <2>1, <3>1, <3>2 DEF Begin
  <2>2. CASE Ensure(r)
    <3> DEFINE h == [pc |-> "read", kind |-> tx[r].kind,
                     next |-> Current(tx[r].kind), ref |-> 0]
    <3>1. tx[r].kind \in Kinds
      BY <2>2, EnsureType DEF Ensure
    <3>2. h \in [pc: Holding, kind: Kinds, next: Nat, ref: Nat]
      BY <3>1, CurrentType DEF Holding
    <3>3. h \in Transaction
      BY <3>2, TransactionStates
    <3> QED
      BY <2>2, <3>1, <3>3 DEF Ensure
  <2>3. CASE Reject(r)
    BY <2>3, TransactionStates DEF Reject, Outcomes
  <2>4. CASE Timeout(r)
    BY <2>4, TransactionStates DEF Timeout, Outcomes
  <2>5. CASE Read(r)
    <3>1. tx[r] \in [pc: Holding, kind: Kinds, next: Nat, ref: Nat]
      BY <2>5, HoldingType DEF Read, Holding
    <3>2. [tx[r] EXCEPT !.pc = "bump", !.ref = tx[r].next] \in Transaction
      BY <3>1, TransactionStates DEF Holding
    <3>3. tx' = [tx EXCEPT ![r] = [tx[r] EXCEPT !.pc = "bump", !.ref = tx[r].next]]
      BY <2>5, <3>1 DEF Read
    <3> QED
      BY <2>5, <3>2, <3>3 DEF Read
  <2>6. CASE Bump(r)
    <3>1. tx[r] \in [pc: Holding, kind: Kinds, next: Nat, ref: Nat]
      BY <2>6, HoldingType DEF Bump, Holding
    <3>a. tx[r].next + 1 \in Nat
      BY <3>1
    <3>b. [tx[r] EXCEPT !.pc = "insert", !.next = tx[r].next + 1]
             \in [pc: Holding, kind: Kinds, next: Nat, ref: Nat]
      BY <3>1, <3>a DEF Holding
    <3>2. [tx[r] EXCEPT !.pc = "insert", !.next = tx[r].next + 1] \in Transaction
      BY <3>b, TransactionStates
    <3>3. tx' = [tx EXCEPT ![r] = [tx[r] EXCEPT !.pc = "insert",
                                                    !.next = tx[r].next + 1]]
      BY <2>6, <3>1 DEF Bump
    <3> QED
      BY <2>6, <3>2, <3>3 DEF Bump
  <2>7. CASE InsertRow(r)
    <3>1. tx[r] \in [pc: Holding, kind: Kinds, next: Nat, ref: Nat]
      BY <2>7, HoldingType DEF InsertRow, Holding
    <3>2. [tx[r] EXCEPT !.pc = "commit"] \in Transaction
      BY <3>1, TransactionStates DEF Holding
    <3>3. tx' \in [Requests -> Transaction]
      BY <2>7, <3>2, TransactionStates DEF InsertRow, Outcomes
    <3>4. holder' \in [Kinds -> Requests \cup {None}]
      BY <2>7, ReleasedType DEF InsertRow
    <3> QED
      BY <2>7, <3>3, <3>4 DEF InsertRow
  <2>8. CASE Commit(r)
    <3>1. tx[r] \in [pc: Holding, kind: Kinds, next: Nat, ref: Nat]
      BY <2>8, HoldingType DEF Commit, Holding
    <3>2. tx[r].kind \in Kinds /\ tx[r].next \in Nat /\ tx[r].ref \in Nat
      BY <3>1
    <3>3. counter' \in [Kinds -> Nat \cup {None}]
      BY <2>8, <3>2 DEF Commit
    <3>4. issued' \in [Kinds -> Seq(Nat)]
      BY <2>8, <3>2 DEF Commit
    <3>5. holder' \in [Kinds -> Requests \cup {None}]
      BY <2>8, ReleasedType DEF Commit
    <3>6. tx' \in [Requests -> Transaction]
      BY <2>8, TransactionStates DEF Commit, Outcomes
    <3> QED
      BY <3>3, <3>4, <3>5, <3>6
  <2>9. CASE Abort(r)
    BY <2>9, TransactionStates, ReleasedType DEF Abort, Outcomes
  <2> QED
    BY <2>1, <2>2, <2>3, <2>4, <2>5, <2>6, <2>7, <2>8, <2>9 DEF CounterStep
<1> QED
  BY <1>1, <1>2

-----------------------------------------------------------------------------

\* A transaction keeps what it knows while another one moves without
\* touching the counters.
LEMMA OthersUnmoved ==
    ASSUME CounterTypeOK, NEW r \in Requests, NEW q \in Requests, q # r,
           Working(q), tx'[q] = tx[q], counter' = counter,
           holder' = holder \/ holder' = Released(r)
    PROVE  Working(q)'
<1>1. CASE tx[q].pc \in Holding
  <2>1. tx[q].kind \in Kinds
    BY <1>1, HoldingType
  <2>2. holder'[tx[q].kind] = q
    BY <1>1, <2>1 DEF Working, Released
  <2>3. Current(tx[q].kind)' = Current(tx[q].kind)
    BY DEF Current
  <2> QED
    BY <1>1, <2>2, <2>3 DEF Working
<1>2. CASE tx[q].pc \notin Holding
  BY <1>2 DEF Working
<1> QED
  BY <1>1, <1>2

\* Nothing is counted by a step that leaves the counters and the entities.
LEMMA CountingUnmoved ==
    ASSUME Counting, counter' = counter, issued' = issued
    PROVE  Counting'
  BY DEF Counting, Current

\* A request that has ended, or not locked anything yet, claims nothing.
LEMMA IdleWorks ==
    ASSUME NEW r \in Requests, tx'[r].pc \notin Holding
    PROVE  Working(r)'
  BY DEF Working

\* Every step preserves what transactions know and what counters count.
LEMMA WorkingStep ==
    ASSUME CounterInv, [CounterNext]_counterVars
    PROVE  /\ \A q \in Requests : Working(q)'
           /\ Counting'
           /\ NeverDuplicate'
<1>1. CASE UNCHANGED counterVars
  BY <1>1 DEF counterVars, CounterInv, Working, Counting, NeverDuplicate, Current
<1>2. CASE CounterNext
  <2> SUFFICES ASSUME NEW r \in Requests, Begin(r) \/ CounterStep(r) \/ Abort(r)
               PROVE  /\ \A q \in Requests : Working(q)'
                      /\ Counting'
                      /\ NeverDuplicate'
    BY <1>2 DEF CounterNext
  <2>t. /\ CounterTypeOK /\ Counting /\ NeverDuplicate
        /\ \A q \in Requests : Working(q)
    BY DEF CounterInv
  <2>r. tx \in [Requests -> Transaction]
    BY <2>t DEF CounterTypeOK
  \* Only the requests' own records change, or the lock is given back.
  <2>u. ASSUME counter' = counter, issued' = issued,
               holder' = holder \/ holder' = Released(r),
               NEW h, tx' = [tx EXCEPT ![r] = h],
               h.pc # "duplicate", Working(r)'
        PROVE  /\ \A q \in Requests : Working(q)'
               /\ Counting'
               /\ NeverDuplicate'
    <3>1. \A q \in Requests : q # r => tx'[q] = tx[q]
      BY <2>u, <2>r
    <3>2. \A q \in Requests : Working(q)'
      BY <2>u, <2>t, <3>1, OthersUnmoved
    <3>3. Counting'
      BY <2>u, <2>t, CountingUnmoved
    <3>4. tx'[r] = h
      BY <2>u, <2>r
    <3>5. NeverDuplicate'
      BY <2>u, <2>t, <3>1, <3>4 DEF NeverDuplicate
    <3> QED
      BY <3>2, <3>3, <3>5
  <2>1. CASE Begin(r)
    <3>1. PICK k \in Kinds : tx' = [tx EXCEPT ![r] = [pc |-> "ensure", kind |-> k]]
      BY <2>1 DEF Begin
    <3>2. tx'[r].pc = "ensure"
      BY <3>1, <2>r
    <3>3. Working(r)'
      BY <3>2, IdleWorks DEF Holding
    <3>4. counter' = counter /\ issued' = issued /\ holder' = holder
      BY <2>1 DEF Begin
    <3> DEFINE h == [pc |-> "ensure", kind |-> k]
    <3>5. h.pc # "duplicate"
      OBVIOUS
    <3> HIDE DEF h
    <3> QED
      BY <2>u, <3>1, <3>3, <3>4, <3>5 DEF h
  <2>2. CASE Ensure(r)
    <3> DEFINE k == tx[r].kind
               h == [pc |-> "read", kind |-> k, next |-> Current(k), ref |-> 0]
    <3>1. k \in Kinds
      BY <2>2, <2>t, EnsureType DEF Ensure
    <3>2. tx' = [tx EXCEPT ![r] = h] /\ holder' = [holder EXCEPT ![k] = r]
      BY <2>2 DEF Ensure
    <3>3. counter' = counter /\ issued' = issued /\ holder[k] = None
      BY <2>2 DEF Ensure
    <3>4. tx'[r] = h /\ \A q \in Requests : q # r => tx'[q] = tx[q]
      BY <3>2, <2>r
    <3>5. holder'[k] = r /\ \A j \in Kinds : j # k => holder'[j] = holder[j]
      BY <3>1, <3>2, <2>t DEF CounterTypeOK
    <3>c. \A j : Current(j)' = Current(j)
      BY <3>3 DEF Current
    <3>6. ASSUME NEW q \in Requests PROVE Working(q)'
      <4>1. CASE q = r
        <5>1. /\ tx'[q].pc = "read" /\ tx'[q].kind = k
              /\ tx'[q].next = Current(k)
          BY <4>1, <3>4
        <5> QED
          BY <4>1, <5>1, <3>5, <3>c DEF Working, Holding
      <4>2. CASE q # r /\ tx[q].pc \in Holding
        <5>1. tx[q].kind \in Kinds /\ holder[tx[q].kind] = q
          BY <4>2, <2>t, HoldingType DEF Working
        <5>2. tx[q].kind # k
          BY <5>1, <3>3, CounterAssumption
        <5> QED
          BY <4>2, <5>1, <5>2, <3>4, <3>5, <3>c, <2>t DEF Working
      <4>3. CASE q # r /\ tx[q].pc \notin Holding
        BY <4>3, <3>4, IdleWorks
      <4> QED
        BY <4>1, <4>2, <4>3
    <3>7. NeverDuplicate'
      BY <2>t, <3>4 DEF NeverDuplicate
    <3> QED
      BY <3>3, <3>6, <3>7, <2>t, CountingUnmoved
  <2>3. CASE Reject(r)
    <3>1. tx' = [tx EXCEPT ![r] = Ended("rejected")]
      BY <2>3 DEF Reject
    <3>2. tx'[r].pc = "rejected"
      BY <3>1, <2>r DEF Ended
    <3>3. Working(r)'
      BY <3>2, IdleWorks DEF Holding
    <3> QED
      BY <2>3, <2>u, <3>1, <3>3 DEF Reject, Ended
  <2>4. CASE Timeout(r)
    <3>1. tx' = [tx EXCEPT ![r] = Ended("timeout")]
      BY <2>4 DEF Timeout
    <3>2. tx'[r].pc = "timeout"
      BY <3>1, <2>r DEF Ended
    <3>3. Working(r)'
      BY <3>2, IdleWorks DEF Holding
    <3> QED
      BY <2>4, <2>u, <3>1, <3>3 DEF Timeout, Ended
  <2>5. CASE Read(r)
    <3> DEFINE h == [tx[r] EXCEPT !.pc = "bump", !.ref = tx[r].next]
    <3>1. tx[r] \in [pc: Holding, kind: Kinds, next: Nat, ref: Nat]
      BY <2>5, <2>t, HoldingType DEF Read, Holding
    <3>2. tx' = [tx EXCEPT ![r] = h]
      BY <2>5, <3>1 DEF Read
    <3>3. /\ h.pc = "bump" /\ h.kind = tx[r].kind
          /\ h.next = tx[r].next /\ h.ref = tx[r].next
      BY <3>1
    <3>4. tx'[r] = h
      BY <3>2, <2>r
    <3>5. counter' = counter /\ holder' = holder /\ issued' = issued
      BY <2>5 DEF Read
    <3>6. holder[tx[r].kind] = r /\ tx[r].next = Current(tx[r].kind)
      BY <2>5, <2>t DEF Read, Working, Holding
    <3>7. Working(r)'
      BY <3>3, <3>4, <3>5, <3>6 DEF Working, Current
    <3> QED
      BY <2>u, <3>2, <3>3, <3>5, <3>7
  <2>6. CASE Bump(r)
    <3> DEFINE h == [tx[r] EXCEPT !.pc = "insert", !.next = tx[r].next + 1]
    <3>1. tx[r] \in [pc: Holding, kind: Kinds, next: Nat, ref: Nat]
      BY <2>6, <2>t, HoldingType DEF Bump, Holding
    <3>2. tx' = [tx EXCEPT ![r] = h]
      BY <2>6, <3>1 DEF Bump
    <3>3. /\ h.pc = "insert" /\ h.kind = tx[r].kind
          /\ h.next = tx[r].next + 1 /\ h.ref = tx[r].ref
      BY <3>1
    <3>4. tx'[r] = h
      BY <3>2, <2>r
    <3>5. counter' = counter /\ holder' = holder /\ issued' = issued
      BY <2>6 DEF Bump
    <3>6. /\ holder[tx[r].kind] = r
          /\ tx[r].next = Current(tx[r].kind)
          /\ tx[r].ref = Current(tx[r].kind)
      BY <2>6, <2>t DEF Bump, Working, Holding
    <3>7. Working(r)'
      BY <3>3, <3>4, <3>5, <3>6 DEF Working, Current
    <3> QED
      BY <2>u, <3>2, <3>3, <3>5, <3>7
  <2>7. CASE InsertRow(r)
    <3> DEFINE k == tx[r].kind
    <3>1. tx[r] \in [pc: Holding, kind: Kinds, next: Nat, ref: Nat]
      BY <2>7, <2>t, HoldingType DEF InsertRow, Holding
    <3>2. /\ holder[k] = r /\ tx[r].ref = Current(k)
          /\ tx[r].next = Current(k) + 1
      BY <2>7, <2>t DEF InsertRow, Working, Holding
    <3>3. k \in Kinds /\ issued[k] \in Seq(Nat)
      BY <3>1, <2>t DEF CounterTypeOK
    <3>4. \A i \in 1..Len(issued[k]) : issued[k][i] < Current(k)
      BY <3>3, <2>t DEF Counting
    <3>5. Current(k) \notin Range(issued[k])
      <4>1. Current(k) \in Nat /\ DOMAIN issued[k] = 1..Len(issued[k])
        BY <3>3, <2>t, CurrentType
      <4>2. \A i \in DOMAIN issued[k] : issued[k][i] # Current(k)
        BY <4>1, <3>3, <3>4
      <4> QED
        BY <4>2 DEF Range
    <3>6. tx' = [tx EXCEPT ![r].pc = "commit"] /\ holder' = holder
      BY <2>7, <3>2, <3>5 DEF InsertRow
    <3> DEFINE h == [tx[r] EXCEPT !.pc = "commit"]
    <3>7. tx' = [tx EXCEPT ![r] = h]
      BY <3>6
    <3>8. /\ h.pc = "commit" /\ h.kind = k
          /\ h.next = tx[r].next /\ h.ref = tx[r].ref
      BY <3>1
    <3>9. tx'[r] = h
      BY <3>7, <2>r
    <3>10. counter' = counter /\ issued' = issued
      BY <2>7 DEF InsertRow
    <3>11. Working(r)'
      BY <3>2, <3>6, <3>8, <3>9, <3>10 DEF Working, Current
    <3> QED
      BY <2>u, <3>6, <3>7, <3>8, <3>10, <3>11
  <2>8. CASE Commit(r)
    <3>1. tx[r] \in [pc: Holding, kind: Kinds, next: Nat, ref: Nat]
      BY <2>8, <2>t, HoldingType DEF Commit, Holding
    <3>0. PICK k \in Kinds, num \in Nat, log \in Seq(Nat) :
             k = tx[r].kind /\ num = tx[r].ref /\ log = issued[k]
      BY <3>1, <2>t DEF CounterTypeOK
    <3>2. holder[k] = r /\ num = Current(k) /\ tx[r].next = Current(k) + 1
      BY <2>8, <3>0, <2>t DEF Commit, Working, Holding
    <3>3. k \in Kinds /\ log \in Seq(Nat) /\ Current(k) \in Nat
      BY <3>0, <2>t, CurrentType
    <3>4. /\ counter' = [counter EXCEPT ![k] = Current(k) + 1]
          /\ issued' = [issued EXCEPT ![k] = Append(log, num)]
          /\ holder' = Released(r)
          /\ tx' = [tx EXCEPT ![r] = Ended("created")]
      BY <2>8, <3>0, <3>2 DEF Commit
    <3>5. Current(k)' = Current(k) + 1
      <4>1. counter'[k] = Current(k) + 1
        BY <3>3, <3>4, <2>t DEF CounterTypeOK
      <4>2. Current(k) + 1 # None
        BY <3>3, CounterAssumption
      <4> QED
        BY <4>1, <4>2 DEF Current
    <3>6. \A j \in Kinds : j # k => Current(j)' = Current(j) /\ issued'[j] = issued[j]
      BY <3>4, <2>t DEF CounterTypeOK, Current
    <3>7. issued'[k] = Append(log, num)
      BY <3>3, <3>4, <2>t DEF CounterTypeOK
    <3>8. tx'[r].pc = "created" /\ \A q \in Requests : q # r => tx'[q] = tx[q]
      BY <3>4, <2>r DEF Ended
    <3>9. ASSUME NEW q \in Requests PROVE Working(q)'
      <4>1. CASE q = r
        BY <4>1, <3>8, IdleWorks DEF Holding
      <4>2. CASE q # r /\ tx[q].pc \in Holding
        <5>1. tx[q].kind \in Kinds /\ holder[tx[q].kind] = q
          BY <4>2, <2>t, HoldingType DEF Working
        <5>2. tx[q].kind # k
          BY <4>2, <5>1, <3>2
        <5>3. holder'[tx[q].kind] = q
          BY <4>2, <5>1, <3>4 DEF Released
        <5>4. Current(tx[q].kind)' = Current(tx[q].kind)
          BY <5>1, <5>2, <3>6, <3>8, <4>2
        <5> QED
          BY <4>2, <5>3, <5>4, <3>8, <2>t DEF Working
      <4>3. CASE q # r /\ tx[q].pc \notin Holding
        BY <4>3, <3>8, IdleWorks
      <4> QED
        BY <4>1, <4>2, <4>3
    <3>10. ASSUME NEW j \in Kinds
           PROVE  /\ Current(j)' = Base[j] + Len(issued'[j])
                  /\ \A i \in 1..Len(issued'[j]) : issued'[j][i] < Current(j)'
      <4>0. /\ Current(j) = Base[j] + Len(issued[j])
            /\ \A i \in 1..Len(issued[j]) : issued[j][i] < Current(j)
        BY <2>t DEF Counting
      <4>1. CASE j # k
        BY <4>1, <4>0, <3>6
      <4>2. CASE j = k
        <5>1. Len(issued'[k]) = Len(log) + 1
          BY <3>3, <3>7
        <5>2. Base[k] \in Nat
          BY <3>3, CounterAssumption DEF Base
        <5>3. Current(k)' = Base[k] + Len(issued'[k])
          BY <4>0, <4>2, <5>1, <5>2, <3>0, <3>3, <3>5
        <5>4. ASSUME NEW i \in 1..Len(issued'[k])
              PROVE  issued'[k][i] < Current(k)'
          <6>1. CASE i \in 1..Len(log)
            <7>0. issued'[k][i] = log[i] /\ log[i] \in Nat
              BY <6>1, <3>3, <3>7
            <7>1. issued'[k][i] = log[i] /\ log[i] \in Nat /\ log[i] < Current(k)
              BY <6>1, <7>0, <3>0, <4>0, <4>2
            <7> QED
              BY <7>1, <3>3, <3>5
          <6>2. CASE i = Len(log) + 1
            BY <6>2, <3>2, <3>3, <3>5, <3>7
          <6> QED
            BY <6>1, <6>2, <5>1, <3>3
        <5> QED
          BY <4>2, <5>3, <5>4
      <4> QED
        BY <4>1, <4>2
    <3>11. Counting'
      BY <3>10 DEF Counting
    <3>12. NeverDuplicate'
      BY <3>8, <2>t DEF NeverDuplicate
    <3> QED
      BY <3>9, <3>11, <3>12
  <2>9. CASE Abort(r)
    <3>1. tx' = [tx EXCEPT ![r] = Ended("failed")]
      BY <2>9 DEF Abort
    <3>2. tx'[r].pc = "failed"
      BY <3>1, <2>r DEF Ended
    <3>3. Working(r)'
      BY <3>2, IdleWorks DEF Holding
    <3>4. counter' = counter /\ issued' = issued /\ holder' = Released(r)
      BY <2>9 DEF Abort
    <3>5. Ended("failed").pc # "duplicate"
      BY DEF Ended
    <3> QED
      BY <2>u, <3>1, <3>3, <3>4, <3>5
  <2> QED
    BY <2>1, <2>2, <2>3, <2>4, <2>5, <2>6, <2>7, <2>8, <2>9 DEF CounterStep
<1> QED
  BY <1>1, <1>2

\* The invariant holds of the counters as seeded.
LEMMA CounterInitInv == CounterInit => CounterInv
<1> SUFFICES ASSUME CounterInit PROVE CounterInv
  OBVIOUS
<1>1. CounterTypeOK
  BY CounterAssumption DEF CounterInit, CounterTypeOK, Transaction, Idle
<1>2. \A r \in Requests : tx[r].pc = "idle"
  BY DEF CounterInit, Idle
<1>3. \A r \in Requests : Working(r)
  BY <1>2 DEF Working, Holding
<1>4. Counting
  <2> SUFFICES ASSUME NEW k \in Kinds
               PROVE  /\ Current(k) = Base[k] + Len(issued[k])
                      /\ \A i \in 1..Len(issued[k]) : issued[k][i] < Current(k)
    BY DEF Counting
  <2>1. issued[k] = <<>> /\ counter = First
    BY DEF CounterInit
  <2>2. Current(k) = Base[k] /\ Base[k] \in Nat
    BY <2>1, CounterAssumption DEF Current, Base
  <2> QED
    BY <2>1, <2>2
<1>5. NeverDuplicate
  BY <1>2 DEF NeverDuplicate
<1> QED
  BY <1>1, <1>3, <1>4, <1>5 DEF CounterInv

\* The invariant holds throughout.
LEMMA CounterInvariance == CounterSpec => []CounterInv
<1>1. CounterInv /\ [CounterNext]_counterVars => CounterInv'
  <2> SUFFICES ASSUME CounterInv, [CounterNext]_counterVars PROVE CounterInv'
    OBVIOUS
  <2>1. CounterTypeOK'
    BY CounterTypeStep DEF CounterInv
  <2> QED
    BY <2>1, WorkingStep DEF CounterInv
<1> QED
  BY <1>1, CounterInitInv, PTL DEF CounterSpec

-----------------------------------------------------------------------------

\* The state of the counters, the locks and the requests is well formed.
THEOREM CountersTyped == CounterSpec => []CounterTypeOK
<1>1. CounterInv => CounterTypeOK
  BY DEF CounterInv
<1> QED
  BY <1>1, CounterInvariance, PTL

\* Whoever is between reading a counter and committing it holds its row
\* (the FOR UPDATE of TestRunService.ts:253-258 and its copies).
THEOREM ReadersAreAlone == CounterSpec => []ReadersExclude
<1>1. CounterInv => ReadersExclude
  BY DEF CounterInv, Working, ReadersExclude
<1> QED
  BY <1>1, CounterInvariance, PTL

\* DUPLICATE_*_REF is dead code: no insert meets a reference already taken.
THEOREM DuplicatesNever == CounterSpec => []NeverDuplicate
<1>1. CounterInv => NeverDuplicate
  BY DEF CounterInv
<1> QED
  BY <1>1, CounterInvariance, PTL

\* Reference generation implements the allocator: in the order of commits
\* the references of each kind are consecutive, whatever rolls back.
THEOREM NumbersConsecutive == CounterSpec => Consecutive
<1>1. CounterInit => Allocator!Init
  BY DEF CounterInit, Allocator!Init
<1>2. CounterInv /\ [CounterNext]_counterVars => [\E k \in Kinds : Allocator!Issue(k)]_issued
  <2> SUFFICES ASSUME CounterInv, NEW r \in Requests,
                      Begin(r) \/ CounterStep(r) \/ Abort(r), issued' # issued
               PROVE  \E k \in Kinds : Allocator!Issue(k)
    BY DEF CounterNext, counterVars
  <2>1. Commit(r)
    BY DEF Begin, CounterStep, Ensure, Reject, Timeout, Read, Bump, InsertRow, Abort
  <2>2. CounterTypeOK /\ Working(r) /\ Counting
    BY DEF CounterInv
  <2>3. tx[r].pc \in Holding /\ tx[r].kind \in Kinds
    BY <2>1, <2>2, HoldingType DEF Commit, Holding
  <2>4. tx[r].ref = Base[tx[r].kind] + Len(issued[tx[r].kind])
    BY <2>1, <2>2, <2>3 DEF Commit, Working, Counting
  <2>5. Allocator!Issue(tx[r].kind)
    BY <2>1, <2>4 DEF Commit, Allocator!Issue, Allocator!Next
  <2> QED
    BY <2>3, <2>5
<1> QED
  BY <1>1, <1>2, CounterInvariance, PTL DEF CounterSpec, Consecutive, Allocator!Spec

-----------------------------------------------------------------------------
(* Workspace: what is inductive with TypeOK and ProjectsApart *)

Slugs == Seq(Project \cup Nat)

SlugsTyped == \A p \in DOMAIN slug : slug[p] \in Slugs

\* The tables of the organisation have no row of a project.
OrgRows == \A r \in rows : r[1] \in OrgTable => r[2] = Org

\* What a request at each place keeps.  A copy has read the project itself, and
\* beside it only content; and what refers, or names a case, is in what it read.
Stage(f, q) ==
    /\ q.pc = "filling" => q.step \in 1 .. Len(InsertScript)
    /\ q.pc = "checked" => f \in Others
    /\ q.pc = "reading" =>
          /\ f \in Clones
          /\ q.step \in 1 .. Len(CloneScript) + 1
          /\ ProjectRow(q.src) \in q.ids
          /\ \A r \in q.ids : /\ r[1] \notin OrgTable
                              /\ r[1] = "projects" => r = ProjectRow(q.src)
          /\ \A k \in q.refs : k[1] \in q.ids
          /\ \A n \in q.names : n[1] \in q.ids

IInv ==
    /\ TypeOK
    /\ SlugsTyped
    /\ OrgRows
    /\ \A f \in Flow : Stage(f, req[f])
    /\ ProjectsApart

-----------------------------------------------------------------------------
(* The tables and their keys *)

\* Whatever is written is a row of a table of schema.ts.
LEMMA Tables ==
    /\ OrgTable \subseteq Table
    /\ {"projects", "roles", "folders", "cases", "steps", "requirements",
        "caseRequirements", "defects", "plans", "planCases", "runs", "runCases",
        "snapshots", "stepResults", "events", "assignees", "defectLinks",
        "execComments", "counters"} \subseteq Table
<1> DEFINE Keyed == {"users", "projects", "roles", "folders", "cases", "steps",
        "requirements", "caseRequirements", "defects", "plans", "planCases", "runs",
        "runCases", "snapshots", "stepResults", "events", "assignees", "defectLinks",
        "execComments", "audit", "roleDefs", "apiKeys"}
<1>1. \A t \in Keyed : \E k \in Keys : k[1] = t
  <2>1. \A k \in OrganisationKeys \cup ProjectKeys \cup CaseKeys \cup RequirementKeys
              \cup DefectKeys \cup PlanKeys \cup RunKeys \cup RunCaseKeys
              \cup SnapshotKeys \cup EventKeys \cup LinkKeys \cup AuditKeys \cup AdminKeys :
           k \in Keys
    BY DEF Keys
  <2>2. \A t \in {"users", "projects"} : \E k \in OrganisationKeys : k[1] = t
    BY DEF OrganisationKeys
  <2>3. \A t \in {"roles", "folders"} : \E k \in ProjectKeys : k[1] = t
    BY DEF ProjectKeys
  <2>4. \A t \in {"cases", "steps"} : \E k \in CaseKeys : k[1] = t
    BY DEF CaseKeys
  <2>5. \A t \in {"requirements", "caseRequirements"} : \E k \in RequirementKeys : k[1] = t
    BY DEF RequirementKeys
  <2>6. \A t \in {"defects"} : \E k \in DefectKeys : k[1] = t
    BY DEF DefectKeys
  <2>7. \A t \in {"plans", "planCases"} : \E k \in PlanKeys : k[1] = t
    BY DEF PlanKeys
  <2>8. \A t \in {"runs"} : \E k \in RunKeys : k[1] = t
    BY DEF RunKeys
  <2>9. \A t \in {"runCases"} : \E k \in RunCaseKeys : k[1] = t
    BY DEF RunCaseKeys
  <2>10. \A t \in {"snapshots", "stepResults"} : \E k \in SnapshotKeys : k[1] = t
    BY DEF SnapshotKeys
  <2>11. \A t \in {"events", "assignees"} : \E k \in EventKeys : k[1] = t
    BY DEF EventKeys
  <2>12. \A t \in {"defectLinks", "execComments"} : \E k \in LinkKeys : k[1] = t
    BY DEF LinkKeys
  <2>13. \A t \in {"audit"} : \E k \in AuditKeys : k[1] = t
    BY DEF AuditKeys
  <2>14. \A t \in {"roleDefs", "apiKeys"} : \E k \in AdminKeys : k[1] = t
    BY DEF AdminKeys
  <2>15. QED
    BY <2>1, <2>2, <2>3, <2>4, <2>5, <2>6, <2>7, <2>8, <2>9, <2>10, <2>11, <2>12,
       <2>13, <2>14
<1>2. Keyed \subseteq Table  BY <1>1 DEF Table
<1>3. {"organisations", "counters"} \subseteq Table  BY DEF Table
<1>4. QED  BY <1>2, <1>3 DEF OrgTable

\* A foreign key is one of schema.ts.
LEMMA KeyForm == \A k \in Keys : k = <<k[1], k[2], k[3]>>
<1>1. \A k \in OrganisationKeys : k = <<k[1], k[2], k[3]>>  BY DEF OrganisationKeys
<1>2. \A k \in ProjectKeys : k = <<k[1], k[2], k[3]>>  BY DEF ProjectKeys
<1>3. \A k \in CaseKeys : k = <<k[1], k[2], k[3]>>  BY DEF CaseKeys
<1>4. \A k \in RequirementKeys : k = <<k[1], k[2], k[3]>>  BY DEF RequirementKeys
<1>5. \A k \in DefectKeys : k = <<k[1], k[2], k[3]>>  BY DEF DefectKeys
<1>6. \A k \in PlanKeys : k = <<k[1], k[2], k[3]>>  BY DEF PlanKeys
<1>7. \A k \in RunKeys : k = <<k[1], k[2], k[3]>>  BY DEF RunKeys
<1>8. \A k \in RunCaseKeys : k = <<k[1], k[2], k[3]>>  BY DEF RunCaseKeys
<1>9. \A k \in SnapshotKeys : k = <<k[1], k[2], k[3]>>  BY DEF SnapshotKeys
<1>10. \A k \in EventKeys : k = <<k[1], k[2], k[3]>>  BY DEF EventKeys
<1>11. \A k \in LinkKeys : k = <<k[1], k[2], k[3]>>  BY DEF LinkKeys
<1>12. \A k \in AuditKeys : k = <<k[1], k[2], k[3]>>  BY DEF AuditKeys
<1>13. \A k \in AdminKeys : k = <<k[1], k[2], k[3]>>  BY DEF AdminKeys
<1>14. QED
  BY <1>1, <1>2, <1>3, <1>4, <1>5, <1>6, <1>7, <1>8, <1>9, <1>10, <1>11, <1>12, <1>13
     DEF Keys

\* A foreign key of a table is one of schema.ts.
LEMMA KeyOf ==
    ASSUME NEW t \in Table
    PROVE  /\ \A u \in Required[t] : \E d : <<t, u, d>> \in Keys /\ d # "setNull"
           /\ \A u \in Optional[t] : \E d : <<t, u, d>> \in Keys
<1>1. \A u \in Required[t] : \E k \in Keys : k[1] = t /\ k[2] = u /\ k[3] # "setNull"
  BY DEF Required
<1>2. \A u \in Optional[t] : \E k \in Keys : k[1] = t /\ k[2] = u
  BY DEF Optional
<1>3. ASSUME NEW u \in Required[t]
      PROVE  \E d : <<t, u, d>> \in Keys /\ d # "setNull"
  <2>1. PICK k \in Keys : k[1] = t /\ k[2] = u /\ k[3] # "setNull"  BY <1>1
  <2>2. k = <<k[1], k[2], k[3]>>  BY KeyForm
  <2>3. <<t, u, k[3]>> \in Keys  BY <2>1, <2>2
  <2>4. QED  BY <2>1, <2>3
<1>4. ASSUME NEW u \in Optional[t]
      PROVE  \E d : <<t, u, d>> \in Keys
  <2>1. PICK k \in Keys : k[1] = t /\ k[2] = u  BY <1>2
  <2>2. k = <<k[1], k[2], k[3]>>  BY KeyForm
  <2>3. <<t, u, k[3]>> \in Keys  BY <2>1, <2>2
  <2>4. QED  BY <2>3
<1>5. QED  BY <1>3, <1>4

\* What an audit row may refer to.
LEMMA AuditParent == ParentTables({"audit"}) \subseteq {"organisations"}
<1>1. ASSUME NEW u, NEW d, <<"audit", u, d>> \in Keys PROVE u = "organisations"
  <2> DEFINE k == <<"audit", u, d>>
  <2>1. CASE k \in AuditKeys  BY <2>1 DEF AuditKeys
  <2>2. k \notin OrganisationKeys /\ k \notin ProjectKeys /\ k \notin CaseKeys
    BY DEF OrganisationKeys, ProjectKeys, CaseKeys
  <2>3. k \notin RequirementKeys /\ k \notin DefectKeys /\ k \notin PlanKeys
    BY DEF RequirementKeys, DefectKeys, PlanKeys
  <2>4. k \notin RunKeys /\ k \notin RunCaseKeys /\ k \notin SnapshotKeys
    BY DEF RunKeys, RunCaseKeys, SnapshotKeys
  <2>5. k \notin EventKeys /\ k \notin LinkKeys /\ k \notin AdminKeys
    BY DEF EventKeys, LinkKeys, AdminKeys
  <2> HIDE DEF k
  <2>6. k \in Keys  BY <1>1 DEF k
  <2>7. QED  BY <2>1, <2>2, <2>3, <2>4, <2>5, <2>6 DEF Keys
<1>2. "audit" \in Table  BY Tables DEF OrgTable
<1>3. \A u \in Required["audit"] \cup Optional["audit"] : u = "organisations"
  BY <1>1, <1>2, KeyOf
<1>4. QED  BY <1>3 DEF ParentTables

-----------------------------------------------------------------------------
(* The scripts *)

\* Statements one after the other.
LEMMA Joined ==
    ASSUME NEW S, NEW s \in Seq(S), NEW t \in Seq(S)
    PROVE  /\ s \o t \in Seq(S)
           /\ Len(s \o t) = Len(s) + Len(t)
           /\ Range(s \o t) = Range(s) \cup Range(t)
<1>1. /\ s \o t \in Seq(S)
      /\ Len(s \o t) = Len(s) + Len(t)
      /\ \A i \in 1 .. Len(s) + Len(t) :
            (s \o t)[i] = IF i <= Len(s) THEN s[i] ELSE t[i - Len(s)]
  BY ConcatProperties
<1>2. Len(s) \in Nat /\ Len(t) \in Nat  BY LenProperties
<1>3. DOMAIN s = 1 .. Len(s) /\ DOMAIN t = 1 .. Len(t)
      /\ DOMAIN (s \o t) = 1 .. Len(s) + Len(t)
  BY <1>1, LenProperties
<1>4. Range(s \o t) \subseteq Range(s) \cup Range(t)
  <2> SUFFICES ASSUME NEW i \in 1 .. Len(s) + Len(t)
               PROVE  (s \o t)[i] \in Range(s) \cup Range(t)
    BY <1>3 DEF Range
  <2>1. CASE i <= Len(s)  BY <2>1, <1>1, <1>2, <1>3 DEF Range
  <2>2. CASE i > Len(s)
    <3>1. i - Len(s) \in 1 .. Len(t)  BY <2>2, <1>2
    <3>2. QED  BY <3>1, <2>2, <1>1, <1>2, <1>3 DEF Range
  <2>3. QED  BY <2>1, <2>2, <1>2
<1>5. Range(s) \subseteq Range(s \o t)
  <2> SUFFICES ASSUME NEW i \in 1 .. Len(s) PROVE s[i] \in Range(s \o t)
    BY <1>3 DEF Range
  <2>1. i \in 1 .. Len(s) + Len(t) /\ i <= Len(s)  BY <1>2
  <2>2. QED  BY <2>1, <1>1, <1>3 DEF Range
<1>6. Range(t) \subseteq Range(s \o t)
  <2> SUFFICES ASSUME NEW i \in 1 .. Len(t) PROVE t[i] \in Range(s \o t)
    BY <1>3 DEF Range
  <2>1. /\ i + Len(s) \in 1 .. Len(s) + Len(t)
        /\ ~(i + Len(s) <= Len(s)) /\ (i + Len(s)) - Len(s) = i
    BY <1>2
  <2>2. QED  BY <2>1, <1>1, <1>3 DEF Range
<1>7. QED  BY <1>1, <1>4, <1>5, <1>6

\* The tables seeded for the organisation, for a blank project, and for the demo.
SeededForOrg == {"organisations", "users", "roleDefs", "apiKeys"}
SeededForBlank == {"projects", "roles", "counters"}
SeededForDemo == {"projects", "roles", "folders", "cases", "steps", "plans", "planCases",
                  "runs", "runCases", "snapshots", "stepResults", "defectLinks",
                  "assignees", "events", "counters"}

SeedEntries ==
    (SeededForOrg \X {Org}) \cup (SeededForBlank \X Blank) \cup (SeededForDemo \X {Demo})

\* A script of n statements, which together write X.
Script(s, n, X) ==
    /\ s \in Seq(SUBSET SeedEntries) /\ Len(s) = n
    /\ UNION Range(s) = X

\* What two sets of sets hold together.
LEMMA UnionOfBoth ==
    ASSUME NEW A, NEW B
    PROVE  UNION (A \cup B) = (UNION A) \cup (UNION B)
  BY Zenon

\* Two scripts, one after the other.
LEMMA Joins ==
    ASSUME NEW m \in Nat, NEW n \in Nat, NEW X, NEW Y,
           NEW s, NEW t, Script(s, m, X), Script(t, n, Y)
    PROVE  Script(s \o t, m + n, X \cup Y)
<1>1. s \in Seq(SUBSET SeedEntries) /\ t \in Seq(SUBSET SeedEntries)  BY DEF Script
<1>2. /\ s \o t \in Seq(SUBSET SeedEntries) /\ Len(s \o t) = Len(s) + Len(t)
      /\ Range(s \o t) = Range(s) \cup Range(t)
  BY <1>1, Joined
<1>3. UNION (Range(s) \cup Range(t)) = (UNION Range(s)) \cup (UNION Range(t))
  BY UnionOfBoth
<1>4. UNION Range(s \o t) = X \cup Y  BY <1>2, <1>3 DEF Script
<1>5. QED  BY <1>2, <1>4 DEF Script

\* The short scripts the long ones are joined of.
LEMMA Scripts ==
    ASSUME NEW A \in SUBSET SeedEntries, NEW B \in SUBSET SeedEntries,
           NEW C \in SUBSET SeedEntries
    PROVE  /\ Script(<<A>>, 1, A)
           /\ Script(<<A, B>>, 2, A \cup B)
           /\ Script(<<A, B, C>>, 3, A \cup B \cup C)
<1> DEFINE S == SUBSET SeedEntries
<1>1. /\ <<A>> \in Seq(S) /\ Len(<<A>>) = 1 /\ Range(<<A>>) = {A}
      /\ <<A, B>> \in Seq(S) /\ Len(<<A, B>>) = 2 /\ Range(<<A, B>>) = {A, B}
      /\ <<A, B, C>> \in Seq(S) /\ Len(<<A, B, C>>) = 3
      /\ Range(<<A, B, C>>) = {A, B, C}
  BY DEF Range
<1>2. UNION {A} = A /\ UNION {A, B} = A \cup B /\ UNION {A, B, C} = A \cup B \cup C
  OBVIOUS
<1>3. QED  BY <1>1, <1>2 DEF Script

\* What the script of the Demo Project writes.
LEMMA DemoEntries == Script(DemoScript, 14, (SeededForDemo \ {"counters"}) \X {Demo})
<1> DEFINE E(t) == { <<t, Demo>> }
<1>1. \A t \in SeededForDemo : E(t) \in SUBSET SeedEntries  BY DEF SeedEntries
<1>2. /\ E("projects") \in SUBSET SeedEntries /\ E("roles") \in SUBSET SeedEntries
      /\ E("folders") \in SUBSET SeedEntries /\ E("cases") \in SUBSET SeedEntries
      /\ E("steps") \in SUBSET SeedEntries /\ E("plans") \in SUBSET SeedEntries
      /\ E("planCases") \in SUBSET SeedEntries /\ E("runs") \in SUBSET SeedEntries
      /\ E("runCases") \in SUBSET SeedEntries /\ E("snapshots") \in SUBSET SeedEntries
      /\ E("stepResults") \in SUBSET SeedEntries /\ E("defectLinks") \in SUBSET SeedEntries
      /\ E("assignees") \in SUBSET SeedEntries /\ E("events") \in SUBSET SeedEntries
  BY <1>1 DEF SeededForDemo
<1>3. Script(DemoProject, 2, E("projects") \cup E("roles"))
  BY <1>2, Scripts DEF DemoProject
<1>4. Script(DemoFolders, 1, E("folders"))  BY <1>2, Scripts DEF DemoFolders
<1>5. Script(DemoCases, 1, E("cases"))  BY <1>2, Scripts DEF DemoCases
<1>6. Script(DemoSteps, 1, E("steps"))  BY <1>2, Scripts DEF DemoSteps
<1>7. Script(DemoPlans, 2, E("plans") \cup E("planCases"))
  BY <1>2, Scripts DEF DemoPlans
<1>8. Script(DemoRuns, 2, E("runs") \cup E("runCases"))
  BY <1>2, Scripts DEF DemoRuns
<1>9. Script(DemoResults, 3, E("snapshots") \cup E("stepResults") \cup E("defectLinks"))
  BY <1>2, Scripts DEF DemoResults
<1>10. Script(DemoPeople, 2, E("assignees") \cup E("events"))
  BY <1>2, Scripts DEF DemoPeople
<1> DEFINE s1 == DemoProject \o DemoFolders
           s2 == s1 \o DemoCases
           s3 == s2 \o DemoSteps
           s4 == s3 \o DemoPlans
           s5 == s4 \o DemoRuns
           s6 == s5 \o DemoResults
           s7 == s6 \o DemoPeople
           X1 == (E("projects") \cup E("roles")) \cup E("folders")
           X2 == X1 \cup E("cases")
           X3 == X2 \cup E("steps")
           X4 == X3 \cup (E("plans") \cup E("planCases"))
           X5 == X4 \cup (E("runs") \cup E("runCases"))
           X6 == X5 \cup (E("snapshots") \cup E("stepResults") \cup E("defectLinks"))
           X7 == X6 \cup (E("assignees") \cup E("events"))
<1>11. s7 = DemoScript  BY DEF DemoScript
<1>12. Script(s1, 2 + 1, X1)  BY <1>3, <1>4, Joins
<1>13. Script(s2, 3 + 1, X2)  BY <1>12, <1>5, Joins
<1>14. Script(s3, 4 + 1, X3)  BY <1>13, <1>6, Joins
<1>15. Script(s4, 5 + 2, X4)  BY <1>14, <1>7, Joins
<1>16. Script(s5, 7 + 2, X5)  BY <1>15, <1>8, Joins
<1>17. Script(s6, 9 + 3, X6)  BY <1>16, <1>9, Joins
<1>18. Script(s7, 12 + 2, X7)  BY <1>17, <1>10, Joins
<1>19. X7 = (SeededForDemo \ {"counters"}) \X {Demo}
  <2>1. X7 = {"projects", "roles", "folders", "cases", "steps", "plans", "planCases", "runs",
              "runCases", "snapshots", "stepResults", "defectLinks", "assignees",
              "events"} \X {Demo}
    OBVIOUS
  <2>2. QED  BY <2>1 DEF SeededForDemo
<1> HIDE DEF s7, X7
<1>20. Script(s7, 14, X7)  BY <1>18
<1>21. QED  BY <1>11, <1>19, <1>20

\* What the whole seed writes.
LEMMA ScriptEntries ==
    /\ Len(InsertScript) = 21
    /\ \A i \in 1 .. 21 : InsertScript[i] \in SUBSET SeedEntries
    /\ UNION Range(InsertScript) = SeedEntries
<1> DEFINE Org1(t) == { <<t, Org>> }
           Blank1(t) == { <<t, p>> : p \in Blank }
           Counters == { <<"counters", p>> : p \in Seeded }
<1>1. \A t \in SeededForOrg : Org1(t) \in SUBSET SeedEntries  BY DEF SeedEntries
<1>2. \A t \in SeededForBlank : Blank1(t) \in SUBSET SeedEntries  BY DEF SeedEntries
<1>3. Counters \in SUBSET SeedEntries
  BY DEF SeedEntries, Seeded, SeededForBlank, SeededForDemo
<1>4. /\ Org1("organisations") \in SUBSET SeedEntries
      /\ Org1("users") \in SUBSET SeedEntries
      /\ Org1("roleDefs") \in SUBSET SeedEntries /\ Org1("apiKeys") \in SUBSET SeedEntries
      /\ Blank1("projects") \in SUBSET SeedEntries /\ Blank1("roles") \in SUBSET SeedEntries
  BY <1>1, <1>2 DEF SeededForOrg, SeededForBlank
<1>5. Script(SeedOrganisation, 2, Org1("organisations") \cup Org1("users"))
  BY <1>4, Scripts DEF SeedOrganisation
<1>6. Script(SeedProjects, 2, Blank1("projects") \cup Blank1("roles"))
  BY <1>4, Scripts DEF SeedProjects
<1>7. Script(SeedAdmin, 2, Org1("roleDefs") \cup Org1("apiKeys"))
  BY <1>4, Scripts DEF SeedAdmin
<1>8. Script(SeedCounters, 1, Counters)
  BY <1>3, Scripts DEF SeedCounters
<1> DEFINE D == (SeededForDemo \ {"counters"}) \X {Demo}
           s1 == SeedOrganisation \o SeedProjects
           s2 == s1 \o DemoScript
           s3 == s2 \o SeedAdmin
           s4 == s3 \o SeedCounters
           X1 == (Org1("organisations") \cup Org1("users"))
                   \cup (Blank1("projects") \cup Blank1("roles"))
           X2 == X1 \cup D
           X3 == X2 \cup (Org1("roleDefs") \cup Org1("apiKeys"))
           X4 == X3 \cup Counters
<1>9. s4 = InsertScript  BY DEF InsertScript
<1>10. Script(s1, 2 + 2, X1)  BY <1>5, <1>6, Joins
<1>11. Script(s2, 4 + 14, X2)  BY <1>10, DemoEntries, Joins
<1>12. Script(s3, 18 + 2, X3)  BY <1>11, <1>7, Joins
<1>13. Script(s4, 20 + 1, X4)  BY <1>12, <1>8, Joins
<1>14. X4 = SeedEntries
  <2>1. Counters = ({"counters"} \X Blank) \cup ({"counters"} \X {Demo})  BY DEF Seeded
  <2>2. D \cup ({"counters"} \X {Demo}) = SeededForDemo \X {Demo}  BY DEF SeededForDemo
  <2>3. Org1("organisations") \cup Org1("users") \cup Org1("roleDefs") \cup Org1("apiKeys")
          = SeededForOrg \X {Org}
    BY DEF SeededForOrg
  <2>4. Blank1("projects") \cup Blank1("roles") \cup ({"counters"} \X Blank)
          = SeededForBlank \X Blank
    BY DEF SeededForBlank
  <2> HIDE DEF Counters, D, Org1, Blank1
  <2>5. QED  BY <2>1, <2>2, <2>3, <2>4 DEF SeedEntries
<1> HIDE DEF s4, X4
<1>15. /\ s4 \in Seq(SUBSET SeedEntries) /\ Len(s4) = 21 /\ UNION Range(s4) = X4
  BY <1>13 DEF Script
<1>16. \A i \in 1 .. 21 : s4[i] \in SUBSET SeedEntries  BY <1>15, ElementOfSeq
<1>17. QED  BY <1>9, <1>14, <1>15, <1>16

\* The seed has what its rows refer to.
LEMMA SeedClosed ==
    ASSUME NEW x \in SeedEntries, NEW t \in SetBySeed[x[1]], x[1] \in Table
    PROVE  <<t, IF t \in OrgTable THEN Org ELSE x[2]>> \in SeedEntries
<1>1. \E d : <<x[1], t, d>> \in Keys /\ (t # "defects" \/ d # "setNull")
  <2>1. t \in Required[x[1]] \/ (t \in Optional[x[1]] /\ t # "defects")
    BY DEF SetBySeed
  <2>2. QED  BY <2>1, KeyOf
<1>2. PICK d : <<x[1], t, d>> \in Keys /\ (t # "defects" \/ d # "setNull")
  BY <1>1
<1>3. PICK a : a = x[1]  OBVIOUS
<1> DEFINE Within(S) == a \in S => t \in S \/ (t \in OrgTable /\ t \in SeededForOrg)
<1>4. Within(SeededForOrg) /\ Within(SeededForBlank) /\ Within(SeededForDemo)
  <2> DEFINE k == <<a, t, d>>
  <2>1. CASE k \in OrganisationKeys
    BY <1>2, <2>1 DEF OrganisationKeys, SeededForOrg, SeededForBlank, SeededForDemo, OrgTable
  <2>2. CASE k \in ProjectKeys
    BY <1>2, <2>2 DEF ProjectKeys, SeededForOrg, SeededForBlank, SeededForDemo, OrgTable
  <2>3. CASE k \in CaseKeys
    BY <1>2, <2>3 DEF CaseKeys, SeededForOrg, SeededForBlank, SeededForDemo, OrgTable
  <2>4. CASE k \in RequirementKeys
    BY <1>2, <2>4 DEF RequirementKeys, SeededForOrg, SeededForBlank, SeededForDemo, OrgTable
  <2>5. CASE k \in DefectKeys
    BY <1>2, <2>5 DEF DefectKeys, SeededForOrg, SeededForBlank, SeededForDemo, OrgTable
  <2>6. CASE k \in PlanKeys
    BY <1>2, <2>6 DEF PlanKeys, SeededForOrg, SeededForBlank, SeededForDemo, OrgTable
  <2>7. CASE k \in RunKeys
    BY <1>2, <2>7 DEF RunKeys, SeededForOrg, SeededForBlank, SeededForDemo, OrgTable
  <2>8. CASE k \in RunCaseKeys
    BY <1>2, <2>8 DEF RunCaseKeys, SeededForOrg, SeededForBlank, SeededForDemo, OrgTable
  <2>9. CASE k \in SnapshotKeys
    BY <1>2, <2>9 DEF SnapshotKeys, SeededForOrg, SeededForBlank, SeededForDemo, OrgTable
  <2>10. CASE k \in EventKeys
    BY <1>2, <2>10 DEF EventKeys, SeededForOrg, SeededForBlank, SeededForDemo, OrgTable
  <2>11. CASE k \in LinkKeys
    BY <1>2, <2>11 DEF LinkKeys, SeededForOrg, SeededForBlank, SeededForDemo, OrgTable
  <2>12. CASE k \in AuditKeys
    BY <1>2, <2>12 DEF AuditKeys, SeededForOrg, SeededForBlank, SeededForDemo, OrgTable
  <2>13. CASE k \in AdminKeys
    BY <1>2, <2>13 DEF AdminKeys, SeededForOrg, SeededForBlank, SeededForDemo, OrgTable
  <2> HIDE DEF k, Within
  <2>14. k \in Keys  BY <1>2, <1>3 DEF k
  <2>15. QED
    BY <2>1, <2>2, <2>3, <2>4, <2>5, <2>6, <2>7, <2>8, <2>9, <2>10, <2>11, <2>12, <2>13,
       <2>14 DEF Keys
<1>5. SeededForOrg \subseteq OrgTable  BY DEF SeededForOrg, OrgTable
<1>6. /\ \A u \in SeededForBlank : u \notin OrgTable
      /\ \A u \in SeededForDemo : u \notin OrgTable
  BY DEF SeededForBlank, SeededForDemo, OrgTable
<1>7. QED  BY <1>3, <1>4, <1>5, <1>6 DEF SeedEntries

\* The statements of clearSeedData.
LEMMA ClearLength ==
    /\ Len(ClearScript) = 26
    /\ DOMAIN ClearScript = 1 .. 26
    /\ ClearScript[25][2] = "users"
BY DEF ClearScript

\* The reads of cloneProject: content, never the project or what is the
\* organisation's.
LEMMA CloneLength ==
    /\ Len(CloneScript) = 12
    /\ \A i \in 1 .. 12 : /\ CloneScript[i] \notin OrgTable
                          /\ CloneScript[i] # "projects"
BY DEF CloneScript, OrgTable

-----------------------------------------------------------------------------
(* Rows *)

\* The organisation is no project.
LEMMA OrgIsNoProject == Org \notin Project
BY FlowsAssumption DEF Project, Seeded

\* Who writes, and what is a project.
LEMMA FlowWriters == /\ Flow \subseteq Writer /\ Org \in Writer
                     /\ Seeded \subseteq Project
                     /\ Clones \subseteq Project /\ Others \subseteq Project
BY DEF Writer, Flow, Project

\* A table, a project and a writer make a row.
LEMMA RowOf ==
    /\ \A t \in Table, p \in Project, w \in Writer : <<t, p, w>> \in Row
    /\ \A t \in OrgTable, w \in Writer : <<t, Org, w>> \in Row
BY DEF Row

\* A row has these three parts.
LEMMA RowForm ==
    ASSUME NEW r \in Row
    PROVE  /\ r = <<r[1], r[2], r[3]>>
           /\ r[1] \in Table /\ r[3] \in Writer /\ r[2] \in Project \cup {Org}
           /\ r[2] = Org => r[1] \in OrgTable
BY Tables, OrgIsNoProject DEF Row

\* The row of a project.
LEMMA ProjectRows ==
    /\ \A p \in Project : ProjectRow(p) \in Row
    /\ \A p : ProjectRow(p) \in Row => p \in Project
<1>1. "projects" \in Table /\ "projects" \notin OrgTable  BY Tables DEF OrgTable
<1>2. \A p \in Project : ProjectRow(p) \in Row
  BY <1>1, RowOf, FlowWriters DEF ProjectRow
<1>3. \A p : ProjectRow(p) \in Row => p \in Project
  BY <1>1 DEF ProjectRow, Row
<1>4. QED  BY <1>2, <1>3

\* What a row must be to be written.
Good(r) == r \in Row /\ (r[1] \in OrgTable => r[2] = Org)

\* An entry of the seed is written as a row.
LEMMA SeedRowGood ==
    ASSUME NEW x \in SeedEntries, NEW w \in Writer
    PROVE  /\ x[1] \in Table
           /\ Good(SeedRow(x[1], x[2], w))
           /\ SeedRow(x[1], x[2], w)[1] = x[1]
           /\ x[2] = Org => x[1] \in OrgTable
           /\ x[1] \in OrgTable => x[2] = Org
           /\ SeedRow(x[1], x[2], w)[2] = x[2]
           /\ x[1] = "projects" => /\ x[2] \in Seeded
                                   /\ SeedRow(x[1], x[2], w) = ProjectRow(x[2])
<1>1. SeededForOrg \subseteq OrgTable /\ SeededForOrg \subseteq Table
  BY Tables DEF SeededForOrg, OrgTable
<1>2. /\ SeededForDemo \subseteq Table /\ SeededForBlank \subseteq SeededForDemo
      /\ \A t \in SeededForDemo : t \notin OrgTable
  <2>1. \A t \in SeededForDemo : t \in Table
    BY Tables DEF SeededForDemo
  <2>2. QED  BY <2>1 DEF SeededForDemo, SeededForBlank, OrgTable
<1>3. \/ x[1] \in SeededForOrg /\ x[2] = Org
      \/ x[1] \in SeededForDemo /\ x[2] \in Seeded
  BY <1>2 DEF SeedEntries, Seeded
<1>4. Seeded \subseteq Project /\ Org \in Writer  BY FlowWriters
<1>5. x[1] \in Table  BY <1>1, <1>2, <1>3
<1>6. CASE x[1] \in SeededForOrg /\ x[2] = Org
  <2>1. "projects" \notin SeededForOrg  BY DEF SeededForOrg
  <2>2. SeedRow(x[1], x[2], w) = <<x[1], Org, IF x[1] \in FixedId THEN Org ELSE w>>
    BY <1>6, <1>1 DEF SeedRow
  <2>3. SeedRow(x[1], x[2], w) \in Row
    BY <2>2, <1>6, <1>1, <1>4, RowOf
  <2>4. QED  BY <2>1, <2>2, <2>3, <1>5, <1>6, <1>1 DEF Good
<1>7. CASE x[1] \in SeededForDemo /\ x[2] \in Seeded
  <2>1. x[1] \notin OrgTable /\ x[2] # Org
    BY <1>7, <1>2, <1>4, OrgIsNoProject
  <2>2. SeedRow(x[1], x[2], w) = <<x[1], x[2], IF x[1] \in FixedId THEN Org ELSE w>>
    BY <2>1 DEF SeedRow
  <2>3. SeedRow(x[1], x[2], w) \in Row
    BY <2>2, <1>7, <1>5, <1>4, RowOf
  <2>4. "projects" \in FixedId  BY DEF FixedId
  <2>5. QED  BY <2>1, <2>2, <2>3, <2>4, <1>5, <1>7 DEF Good, ProjectRow
<1>8. QED  BY <1>3, <1>6, <1>7

\* A statement of the seed.
LEMMA SeedRowsGood ==
    ASSUME NEW X \in SUBSET SeedEntries, NEW w \in Writer
    PROVE  \A r \in SeedRows(X, w) :
              /\ Good(r)
              /\ r[1] = "projects" => r[2] \in Seeded /\ r = ProjectRow(r[2])
BY SeedRowGood DEF SeedRows

\* The seed refers within a project, or to the organisation.
LEMMA SeedRefsApart ==
    ASSUME NEW R, NEW k \in SeedRefs(R)
    PROVE  k[1] \in R /\ k[2][2] \in {Org, k[1][2]}
BY DEF SeedRefs, SeedRow

-----------------------------------------------------------------------------
(* What a step must leave *)

SlugsRight ==
    /\ DOMAIN slug = { p \in Project : ProjectRow(p) \in rows }
    /\ \A p, q \in DOMAIN slug : slug[p] = slug[q] => p = q
    /\ SlugsTyped

DataOK ==
    /\ rows \subseteq Row
    /\ ref \subseteq rows \X rows
    /\ named \subseteq Row \X Row /\ \A n \in named : n[1] \in rows
    /\ SlugsRight
    /\ OrgRows
    /\ ProjectsApart

ReqOK ==
    /\ DOMAIN req = Flow
    /\ \A f \in Flow : req[f] \in Request /\ Stage(f, req[f])

\* The invariant, by what a step changes together.
LEMMA Parts == IInv <=> DataOK /\ ReqOK /\ disturbed \subseteq Flow
BY DEF IInv, TypeOK, DataOK, SlugsRight, ReqOK

\* A step that writes nothing.
LEMMA SameData == ASSUME DataOK, UNCHANGED data PROVE DataOK'
BY DEF DataOK, data, SlugsRight, SlugsTyped, OrgRows, ProjectsApart

\* A flow goes on to another place.
LEMMA GoesOn ==
    ASSUME ReqOK, NEW f \in Flow, NEW q,
           req' = [req EXCEPT ![f] = q], q \in Request, Stage(f, q)
    PROVE  ReqOK'
BY DEF ReqOK

\* A flow that keeps nothing but its outcome.
LEMMA QuietTyped ==
    ASSUME NEW pc \in {"idle", "done", "failed"}
    PROVE  [Quiet EXCEPT !.pc = pc] \in Request
<1>1. << >> \in Slugs  BY DEF Slugs
<1>2. 0 \in 0 .. Len(ClearScript) + 1  BY ClearLength
<1>3. QED  BY <1>1, <1>2 DEF Quiet, Request, Slugs

\* A flow has answered.
LEMMA Answers ==
    ASSUME ReqOK, NEW f \in Flow, NEW o \in {"done", "failed"}, Answer(f, o)
    PROVE  ReqOK'
<1>1. [Quiet EXCEPT !.pc = o] \in Request  BY QuietTyped
<1>2. Stage(f, [Quiet EXCEPT !.pc = o])  BY DEF Stage, Quiet
<1>3. QED  BY <1>1, <1>2, GoesOn DEF Answer

\* Rows are inserted that refer within their project or to the organisation.
LEMMA Inserts ==
    ASSUME DataOK, NEW R, NEW F, Insert(R, F), \A r \in R : Good(r),
           \A k \in F : /\ k \in R \X (rows \cup R)
                        /\ k[2][2] \in {Org, k[1][2]}
    PROVE  /\ rows' \subseteq Row
           /\ ref' \subseteq rows' \X rows'
           /\ OrgRows' /\ ProjectsApart'
<1>1. rows' = rows \cup R /\ ref' = ref \cup F  BY DEF Insert
<1>2. rows' \subseteq Row  BY <1>1 DEF DataOK, Good
<1>3. ref' \subseteq rows' \X rows'  BY <1>1 DEF DataOK
<1>4. OrgRows'  BY <1>1 DEF DataOK, OrgRows, Good
<1>5. ProjectsApart'  BY <1>1 DEF DataOK, ProjectsApart
<1>6. QED  BY <1>2, <1>3, <1>4, <1>5

\* No project is inserted.
LEMMA SlugsStay ==
    ASSUME DataOK, NEW R, rows' = rows \cup R, UNCHANGED slug,
           \A r \in R : r[1] # "projects"
    PROVE  SlugsRight'
<1>1. \A p : ProjectRow(p) \in R => FALSE  BY DEF ProjectRow
<1>2. QED  BY <1>1 DEF DataOK, SlugsRight, SlugsTyped

\* The projects P are, with free slugs.
LEMMA SlugsGrow ==
    ASSUME DataOK, NEW R, NEW P \in SUBSET Project,
           rows' = rows \cup R,
           \A p \in Project : ProjectRow(p) \in R <=> p \in P,
           DOMAIN slug' = DOMAIN slug \cup P,
           \A p \in DOMAIN slug \ P : slug'[p] = slug[p],
           \A p \in P : slug'[p] \in Slugs /\ SlugFree(slug'[p]),
           \A p, q \in P : slug'[p] = slug'[q] => p = q
    PROVE  SlugsRight'
<1>2. DOMAIN slug' = { p \in Project : ProjectRow(p) \in rows' }
  BY DEF DataOK, SlugsRight
<1>3. \A p, q \in DOMAIN slug' : slug'[p] = slug'[q] => p = q
  <2> SUFFICES ASSUME NEW p \in DOMAIN slug \cup P, NEW q \in DOMAIN slug \cup P,
                      slug'[p] = slug'[q]
               PROVE  p = q
    OBVIOUS
  <2>1. CASE p \in P /\ q \in P  BY <2>1
  <2>2. CASE p \in P /\ q \notin P  BY <2>2 DEF SlugFree
  <2>3. CASE p \notin P /\ q \in P  BY <2>3 DEF SlugFree
  <2>4. CASE p \notin P /\ q \notin P  BY <2>4 DEF DataOK, SlugsRight
  <2>5. QED  BY <2>1, <2>2, <2>3, <2>4
<1>4. SlugsTyped'  BY DEF DataOK, SlugsRight, SlugsTyped
<1>5. QED  BY <1>2, <1>3, <1>4 DEF SlugsRight

-----------------------------------------------------------------------------
(* The reset *)

\* Each step keeps the invariant: the reset,
LEMMA StartResets ==
    ASSUME DataOK, ReqOK, NEW f \in Flow, StartReset(f)
    PROVE  DataOK' /\ ReqOK'
<1>1. DataOK'  BY SameData DEF StartReset
<1>2. CASE ActorActive
  <2> DEFINE q == [req[f] EXCEPT !.pc = "clearing", !.step = 1]
  <2>1. req' = [req EXCEPT ![f] = q]  BY <1>2 DEF StartReset
  <2>2. 1 \in 0 .. Len(ClearScript) + 1  BY ClearLength
  <2>3. q \in Request /\ q.pc = "clearing"  BY <2>2 DEF ReqOK, Request
  <2>4. Stage(f, q)  BY <2>3 DEF Stage
  <2> HIDE DEF q
  <2>5. QED  BY <1>1, <2>1, <2>3, <2>4, GoesOn
<1>3. CASE ~ActorActive
  BY <1>1, <1>3, Answers DEF StartReset
<1>4. QED  BY <1>2, <1>3

\* its reads,
LEMMA ClearReads ==
    ASSUME DataOK, ReqOK, NEW f \in Flow, ClearRead(f)
    PROVE  DataOK' /\ ReqOK'
<1>1. DataOK'  BY SameData DEF ClearRead
<1> DEFINE kept == Belonging(req[f], ClearScript[req[f].step][2], ClearScript[req[f].step][3])
           q == [req[f] EXCEPT !.ids = @ \cup kept, !.step = After(req[f], kept)]
<1>2. req' = [req EXCEPT ![f] = q]  BY DEF ClearRead
<1>3. kept \subseteq Row
  BY DEF DataOK, Belonging, Children
<1> HIDE DEF kept
<1>4. After(req[f], kept) \in 0 .. Len(ClearScript) + 1
  <2>1. req[f].step \in 1 .. 26  BY ClearLength DEF ClearRead
  <2>2. (CHOOSE i \in DOMAIN ClearScript : ClearScript[i][2] = "users") \in 1 .. 26
    <3>1. \E i \in DOMAIN ClearScript : ClearScript[i][2] = "users"  BY ClearLength
    <3>2. QED  BY <3>1, ClearLength
  <2>3. /\ req[f].step + 1 \in 0 .. Len(ClearScript) + 1
        /\ Len(ClearScript) + 1 \in 0 .. Len(ClearScript) + 1
        /\ \A i \in 1 .. 26 : i \in 0 .. Len(ClearScript) + 1
    BY <2>1, ClearLength
  <2>4. QED  BY <2>2, <2>3 DEF After
<1>5. q \in Request  BY <1>3, <1>4 DEF ReqOK, Request
<1>6. q.pc = "clearing"  BY DEF ReqOK, Request, ClearRead
<1>7. Stage(f, q)  BY <1>6 DEF Stage
<1> HIDE DEF q
<1>8. QED  BY <1>1, <1>2, <1>5, <1>7, GoesOn

\* A delete leaves no key to what is gone, and no slug.
LEMMA Deletes ==
    ASSUME DataOK, NEW gone, Delete(gone)
    PROVE  DataOK'
<1>1. /\ rows' = rows \ gone
      /\ ref' = { k \in ref : k[1] \notin gone /\ k[2] \notin gone }
      /\ named' = { n \in named : n[1] \notin gone }
      /\ slug' = [p \in { p \in DOMAIN slug : ProjectRow(p) \notin gone } |-> slug[p]]
  BY DEF Delete, ProjectRow
<1>2. rows' \subseteq Row /\ ref' \subseteq rows' \X rows'  BY <1>1 DEF DataOK
<1>3. named' \subseteq Row \X Row /\ \A n \in named' : n[1] \in rows'  BY <1>1 DEF DataOK
<1>4. DOMAIN slug' = { p \in Project : ProjectRow(p) \in rows' }
  BY <1>1 DEF DataOK, SlugsRight
<1>5. SlugsRight'
  BY <1>1, <1>4 DEF DataOK, SlugsRight, SlugsTyped
<1>6. OrgRows' /\ ProjectsApart'  BY <1>1 DEF DataOK, OrgRows, ProjectsApart
<1>7. QED  BY <1>2, <1>3, <1>5, <1>6 DEF DataOK

\* its deletes,
LEMMA ClearDeletes ==
    ASSUME DataOK, ReqOK, NEW f \in Flow, ClearDelete(f)
    PROVE  DataOK' /\ ReqOK'
<1>1. PICK gone \in {Cascaded(Belonging(req[f], ClearScript[req[f].step][2],
                                        ClearScript[req[f].step][3]))} :
         IF Refused(gone) THEN Answer(f, "failed") /\ UNCHANGED data
         ELSE Delete(gone) /\ req' = [req EXCEPT ![f].step = @ + 1]
  BY DEF ClearDelete
<1>2. CASE Refused(gone)  BY <1>1, <1>2, SameData, Answers
<1>3. CASE ~Refused(gone)
  <2> DEFINE q == [req[f] EXCEPT !.step = @ + 1]
  <2>1. req' = [req EXCEPT ![f] = q]  BY <1>1, <1>3
  <2>2. req[f].step \in 1 .. 26  BY ClearLength DEF ClearDelete
  <2>3. req[f].step + 1 \in 0 .. Len(ClearScript) + 1  BY <2>2, ClearLength
  <2>4. q \in Request /\ q.pc = "clearing"
    <3>1. req[f] \in Request /\ req[f].pc = "clearing"  BY DEF ReqOK, ClearDelete
    <3>2. q \in Request /\ q.pc = req[f].pc  BY <2>3, <3>1 DEF Request
    <3>3. QED  BY <3>1, <3>2
  <2>5. Stage(f, q)  BY <2>4 DEF Stage
  <2> HIDE DEF q
  <2>6. QED  BY <1>1, <1>3, <2>1, <2>4, <2>5, GoesOn, Deletes
<1>4. QED  BY <1>2, <1>3

\* the end of the clearing,
LEMMA Clears ==
    ASSUME DataOK, ReqOK, NEW f \in Flow, Cleared(f)
    PROVE  DataOK' /\ ReqOK'
<1> DEFINE q == [Quiet EXCEPT !.pc = "filling", !.step = 1]
<1>1. DataOK'  BY SameData DEF Cleared
<1>2. req' = [req EXCEPT ![f] = q]  BY DEF Cleared
<1>3. << >> \in Slugs  BY DEF Slugs
<1>4. q \in Request
  <2>1. 1 \in 0 .. Len(ClearScript) + 1  BY ClearLength
  <2>2. QED  BY <1>3, <2>1 DEF Quiet, Request, Slugs
<1>5. q.pc = "filling" /\ q.step = 1  BY DEF Quiet
<1>6. Stage(f, q)  BY <1>5, ScriptEntries DEF Stage
<1> HIDE DEF q
<1>7. QED  BY <1>1, <1>2, <1>4, <1>6, GoesOn

\* and the filling: a row goes in with rows that the script has for its parents.
LEMMA Fills ==
    ASSUME DataOK, ReqOK, NEW f \in Flow, FillNext(f)
    PROVE  DataOK' /\ ReqOK'
<1> DEFINE R == NewOf(SeedRows(InsertScript[req[f].step], f))
           P == { r[2] : r \in { r \in R : r[1] = "projects" } }
           fits == Fits(R, SeedRefs(R)) /\ \A p \in P : SlugFree(SeedSlug(p))
<1>1. CASE ~fits
  <2>1. Answer(f, "failed") /\ UNCHANGED data  BY <1>1 DEF FillNext
  <2>2. QED  BY <2>1, SameData, Answers
<1>2. CASE fits
  <2>1. /\ Insert(R, SeedRefs(R))
        /\ slug' = [p \in DOMAIN slug \cup P |-> IF p \in P THEN SeedSlug(p) ELSE slug[p]]
        /\ named' = named \cup { n \in SeedNames(f) : n[1] \in R }
        /\ IF req[f].step = Len(InsertScript)
           THEN Answer(f, "done") ELSE req' = [req EXCEPT ![f].step = @ + 1]
    BY <1>2 DEF FillNext
  <2>2. req[f].step \in 1 .. 21  BY ScriptEntries DEF ReqOK, Stage, FillNext
  <2>3. InsertScript[req[f].step] \in SUBSET SeedEntries  BY <2>2, ScriptEntries
  <2>4. \A r \in R : /\ Good(r)
                     /\ r[1] = "projects" => r[2] \in Seeded /\ r = ProjectRow(r[2])
    BY <2>3, SeedRowsGood, FlowWriters DEF NewOf
  <2>5. \A k \in SeedRefs(R) : k \in R \X (rows \cup R) /\ k[2][2] \in {Org, k[1][2]}
    <3>1. \A k \in SeedRefs(R) : k = <<k[1], k[2]>>  BY DEF SeedRefs
    <3>2. QED  BY <3>1, <1>2, SeedRefsApart DEF Fits
  <2>6. P \subseteq Project /\ \A p \in P : p \in Seeded  BY <2>4, FlowWriters
  <2>7. \A p \in Project : ProjectRow(p) \in R <=> p \in P
    <3>1. ASSUME NEW p \in Project, ProjectRow(p) \in R PROVE p \in P
      <4>1. ProjectRow(p)[1] = "projects" /\ ProjectRow(p)[2] = p  BY DEF ProjectRow
      <4>2. QED  BY <3>1, <4>1
    <3>2. ASSUME NEW p \in P PROVE ProjectRow(p) \in R
      <4>1. PICK r \in R : r[1] = "projects" /\ r[2] = p  OBVIOUS
      <4>2. QED  BY <4>1, <2>4
    <3>3. QED  BY <3>1, <3>2
  <2>8. \A n \in SeedNames(f) : n \in Row \X Row
    <3>1. <<"plans", Demo>> \in SeedEntries /\ <<"cases", Demo>> \in SeedEntries
      BY DEF SeedEntries, SeededForDemo
    <3>2. f \in Writer  BY FlowWriters
    <3>3. SeedRow("plans", Demo, f) \in Row /\ SeedRow("cases", Demo, f) \in Row
      BY <3>1, <3>2, SeedRowGood DEF Good
    <3>4. QED  BY <3>3 DEF SeedNames
  <2>9. rows' = rows \cup R  BY <2>1 DEF Insert
  <2> HIDE DEF R
  <2>10. named' \subseteq Row \X Row /\ \A n \in named' : n[1] \in rows'
    BY <2>1, <2>8, <2>9 DEF DataOK
  <2>11. /\ rows' \subseteq Row /\ ref' \subseteq rows' \X rows'
         /\ OrgRows' /\ ProjectsApart'
    BY <2>1, <2>4, <2>5, Inserts
  <2>12. \A p \in P : SeedSlug(p) \in Slugs
    <3>1. \A p \in Project : <<p>> \in Slugs  BY DEF Slugs
    <3>2. QED  BY <3>1, <2>6 DEF SeedSlug
  <2>13. \A p, q \in P : SeedSlug(p) = SeedSlug(q) => p = q  BY DEF SeedSlug
  <2>14. \A p \in P : SlugFree(SeedSlug(p))  BY <1>2
  <2> HIDE DEF P
  <2>15. /\ DOMAIN slug' = DOMAIN slug \cup P
         /\ \A p \in DOMAIN slug \ P : slug'[p] = slug[p]
         /\ \A p \in P : slug'[p] = SeedSlug(p)
    BY <2>1
  <2>16. SlugsRight'
    BY <2>6, <2>7, <2>9, <2>12, <2>13, <2>14, <2>15, SlugsGrow
  <2>17. DataOK'  BY <2>10, <2>11, <2>16 DEF DataOK
  <2>18. CASE req[f].step = Len(InsertScript)  BY <2>1, <2>17, <2>18, Answers
  <2>19. CASE req[f].step # Len(InsertScript)
    <3> DEFINE q == [req[f] EXCEPT !.step = @ + 1]
    <3>1. req' = [req EXCEPT ![f] = q]  BY <2>1, <2>19
    <3>2. req[f].step + 1 \in 1 .. 21  BY <2>2, <2>19, ScriptEntries
    <3>3. q \in Request
      <4>1. req[f].step + 1 \in 0 .. Len(ClearScript) + 1  BY <3>2, ClearLength
      <4>2. QED  BY <4>1 DEF ReqOK, Request
    <3>4. q.pc = "filling" /\ q.step = req[f].step + 1
      BY DEF ReqOK, Request, FillNext
    <3>5. Stage(f, q)  BY <3>2, <3>4, ScriptEntries DEF Stage
    <3> HIDE DEF q
    <3>6. QED  BY <2>17, <3>1, <3>3, <3>5, GoesOn
  <2>20. QED  BY <2>18, <2>19
<1>3. QED  BY <1>1, <1>2

-----------------------------------------------------------------------------
(* The copy *)

\* There is a free slug among as many as there could be projects, and one more.
LEMMA CopySlugTyped ==
    ASSUME DataOK, NEW p \in DOMAIN slug
    PROVE  CopySlug(p) \in Slugs /\ SlugFree(CopySlug(p))
<1> DEFINE N == Cardinality(Project)
           s == slug[p]
           T == { n \in 2 .. N + 2 : SlugFree(Append(s, n)) }
<1>1. IsFiniteSet(Project) /\ N \in Nat
  <2>1. IsFiniteSet({Demo})  BY FS_Singleton
  <2>2. IsFiniteSet(Seeded)  BY <2>1, FS_Union, FlowsAssumption DEF Seeded
  <2>3. IsFiniteSet(Seeded \cup Clones)  BY <2>2, FS_Union, FlowsAssumption
  <2>4. IsFiniteSet(Project)  BY <2>3, FS_Union, FlowsAssumption DEF Project
  <2>5. QED  BY <2>4, FS_CardinalityType
<1>2. s \in Slugs  BY DEF DataOK, SlugsRight, SlugsTyped
<1>3. DOMAIN slug \subseteq Project  BY DEF DataOK, SlugsRight
<1> HIDE DEF N, s
<1>4. \A n \in 2 .. N + 2 : /\ Append(s, n) \in Slugs
                            /\ Append(s, n)[Len(s) + 1] = n
  <2> SUFFICES ASSUME NEW n \in 2 .. N + 2
               PROVE  Append(s, n) \in Slugs /\ Append(s, n)[Len(s) + 1] = n
    OBVIOUS
  <2>1. n \in Project \cup Nat  BY <1>1
  <2>2. QED  BY <2>1, <1>2, AppendProperties DEF Slugs
<1>5. T # {}
  <2> SUFFICES ASSUME T = {} PROVE FALSE
    OBVIOUS
  <2> DEFINE g == [n \in 2 .. N + 2 |-> CHOOSE q \in DOMAIN slug : slug[q] = Append(s, n)]
  <2>1. \A n \in 2 .. N + 2 : \E q \in DOMAIN slug : slug[q] = Append(s, n)
    BY DEF SlugFree
  <2>2. \A n \in 2 .. N + 2 : g[n] \in DOMAIN slug /\ slug[g[n]] = Append(s, n)
    BY <2>1
  <2>3. g \in [2 .. N + 2 -> Project]  BY <2>2, <1>3
  <2>4. IsFiniteSet(2 .. N + 2) /\ Cardinality(2 .. N + 2) = N + 1
    BY <1>1, FS_Interval
  <2>5. Cardinality(Project) < Cardinality(2 .. N + 2)  BY <2>4, <1>1 DEF N
  <2> HIDE DEF g
  <2>6. \E m, n \in 2 .. N + 2 : m # n /\ g[m] = g[n]
    BY <2>3, <2>4, <2>5, <1>1, FS_PigeonHole
  <2>7. PICK m \in 2 .. N + 2, n \in 2 .. N + 2 : m # n /\ g[m] = g[n]
    BY <2>6
  <2>8. Append(s, m) = Append(s, n)  BY <2>2, <2>7
  <2>9. QED  BY <2>8, <2>7, <1>4
<1>6. PICK n \in T : \A m \in T : ~ (m < n)
  <2>1. T \subseteq Nat  BY <1>1
  <2>2. \E n \in T : \A m \in T : ~ (<<m, n>> \in OpToRel(<, Nat))
    BY <2>1, <1>5, NatLessThanWellFounded, WFMin
  <2>3. \A m, n \in T : m < n => <<m, n>> \in OpToRel(<, Nat)
    BY <2>1 DEF OpToRel
  <2>4. QED  BY <2>2, <2>3
<1>7. \E k \in 2 .. Cardinality(Project) + 2 :
         /\ SlugFree(Append(slug[p], k))
         /\ \A i \in 2 .. k - 1 : ~SlugFree(Append(slug[p], i))
  <2>1. n \in 2 .. N + 2 /\ SlugFree(Append(s, n))  OBVIOUS
  <2>2. ASSUME NEW i \in 2 .. n - 1 PROVE ~SlugFree(Append(s, i))
    <3>1. i \in 2 .. N + 2 /\ i < n  BY <2>1, <2>2, <1>1
    <3>2. i \notin T  BY <3>1, <1>6
    <3>3. QED  BY <3>1, <3>2
  <2>3. QED  BY <2>1, <2>2 DEF N, s
<1>8. CopySlug(p) \in Slugs /\ SlugFree(CopySlug(p))
  <2> DEFINE k == CHOOSE k \in 2 .. Cardinality(Project) + 2 :
                     /\ SlugFree(Append(slug[p], k))
                     /\ \A i \in 2 .. k - 1 : ~SlugFree(Append(slug[p], i))
  <2>1. k \in 2 .. N + 2 /\ SlugFree(Append(s, k))  BY <1>7 DEF N, s
  <2>2. CopySlug(p) = Append(s, k)  BY DEF CopySlug, s
  <2>3. QED  BY <2>1, <2>2, <1>4
<1>9. QED  BY <1>8

\* A copy takes a free slug and keeps the row of its source,
LEMMA StartClones ==
    ASSUME DataOK, ReqOK, NEW f \in Flow, NEW p, StartClone(f, p)
    PROVE  DataOK' /\ ReqOK'
<1>1. DataOK'  BY SameData DEF StartClone
<1> DEFINE known == ActorActive /\ ProjectRow(p) \in rows
           q == [Quiet EXCEPT !.pc = "reading", !.step = 1, !.src = p,
                              !.ids = {ProjectRow(p)}, !.slug = CopySlug(p)]
<1>2. CASE ~known  BY <1>1, <1>2, Answers DEF StartClone
<1>3. CASE known
  <2>1. req' = [req EXCEPT ![f] = q]  BY <1>3 DEF StartClone
  <2>2. p \in Project  BY <1>3, ProjectRows DEF DataOK, SlugsRight
  <2>3. p \in DOMAIN slug  BY <1>3, <2>2 DEF DataOK, SlugsRight
  <2>4. CopySlug(p) \in Slugs  BY <2>3, CopySlugTyped
  <2>5. ProjectRow(p) \in Row  BY <2>2, ProjectRows
  <2>6. /\ q.pc = "reading" /\ q.step = 1 /\ q.src = p /\ q.ids = {ProjectRow(p)}
        /\ q.refs = {} /\ q.names = {}
    BY DEF Quiet
  <2>7. q \in Request
    <3>1. 1 \in 0 .. Len(ClearScript) + 1  BY ClearLength
    <3>2. QED  BY <2>2, <2>4, <2>5, <3>1 DEF Quiet, Request, Slugs
  <2>8. f \in Clones  BY DEF StartClone
  <2>9. ProjectRow(p)[1] \notin OrgTable  BY DEF ProjectRow, OrgTable
  <2> HIDE DEF q
  <2>10. Stage(f, q)  BY <2>6, <2>8, <2>9, CloneLength DEF Stage
  <2>11. QED  BY <1>1, <2>1, <2>7, <2>10, GoesOn
<1>4. QED  BY <1>2, <1>3

\* reads rows that refer to what it has read,
LEMMA CloneReads ==
    ASSUME DataOK, ReqOK, NEW f \in Flow, CloneRead(f)
    PROVE  DataOK' /\ ReqOK'
<1>1. DataOK'  BY SameData DEF CloneRead
<1> DEFINE h == req[f]
           t == CloneScript[h.step]
           R == Children(h, t, ReadFor(t))
           q == [h EXCEPT !.ids = @ \cup R,
                          !.refs = @ \cup { k \in ref : k[1] \in R },
                          !.names = @ \cup { n \in named : n[1] \in R },
                          !.step = @ + 1]
<1>2. req' = [req EXCEPT ![f] = q]  BY DEF CloneRead
<1>3. h \in Request /\ Stage(f, h) /\ h.pc = "reading" /\ h.step <= 12
  BY CloneLength DEF ReqOK, CloneRead
<1>4. h.step \in 1 .. 12  BY <1>3, CloneLength DEF Stage
<1>5. t \notin OrgTable /\ t # "projects"  BY <1>4, CloneLength
<1> HIDE DEF h, t
<1>6. R \subseteq Row /\ \A r \in R : r[1] = t
  BY DEF Children, DataOK
<1> HIDE DEF R
<1>7. /\ { k \in ref : k[1] \in R } \subseteq Row \X Row
      /\ { n \in named : n[1] \in R } \subseteq Row \X Row
  BY DEF DataOK
<1>8. q \in Request
  <2>1. h.step + 1 \in 0 .. Len(ClearScript) + 1  BY <1>4, ClearLength
  <2>2. QED  BY <2>1, <1>3, <1>6, <1>7 DEF Request
<1>9. /\ q.pc = h.pc /\ q.step = h.step + 1 /\ q.src = h.src /\ q.ids = h.ids \cup R
      /\ q.refs = h.refs \cup { k \in ref : k[1] \in R }
      /\ q.names = h.names \cup { n \in named : n[1] \in R }
  BY <1>3 DEF Request
<1> HIDE DEF q
<1>10. Stage(f, q)
  <2>1. q.step \in 1 .. Len(CloneScript) + 1  BY <1>4, <1>9, CloneLength
  <2>2. \A r \in q.ids : r[1] \notin OrgTable /\ (r[1] = "projects" => r = ProjectRow(q.src))
    BY <1>3, <1>5, <1>6, <1>9 DEF Stage
  <2>3. QED  BY <2>1, <2>2, <1>3, <1>9 DEF Stage
<1>11. QED  BY <1>1, <1>2, <1>8, <1>10, GoesOn DEF h

\* and writes what refers to other rows of the copy.
LEMMA CloneCommits ==
    ASSUME DataOK, ReqOK, NEW f \in Flow, CloneCommit(f)
    PROVE  DataOK' /\ ReqOK'
<1> DEFINE q == req[f]
           R == CopyRows(q, f)
           F == NewProjectRefs(f) \cup CopyRefs(q, f)
           fits == Remappable(q) /\ Fits(R, F) /\ SlugFree(q.slug)
<1>1. CASE ~fits
  <2>1. Answer(f, "failed") /\ UNCHANGED data  BY <1>1 DEF CloneCommit
  <2>2. QED  BY <2>1, SameData, Answers
<1>2. CASE fits
  <2>1. /\ Insert(R, F)
        /\ named' = named \cup CopyNames(q, f)
        /\ slug' = [p \in DOMAIN slug \cup {f} |-> IF p = f THEN q.slug ELSE slug[p]]
        /\ Answer(f, "done")
    BY <1>2 DEF CloneCommit
  <2>2. q \in Request /\ Stage(f, q) /\ q.pc = "reading"
    BY DEF ReqOK, CloneCommit
  <2>3. f \in Project /\ f \in Writer  BY <2>2, FlowWriters DEF Stage
  <2>4. /\ ProjectRow(q.src) \in q.ids
        /\ \A r \in q.ids : /\ r[1] \notin OrgTable
                            /\ r[1] = "projects" => r = ProjectRow(q.src)
        /\ \A k \in q.refs : k[1] \in q.ids
        /\ \A n \in q.names : n[1] \in q.ids
        /\ q.ids \subseteq Row /\ q.names \subseteq Row \X Row
        /\ q.refs \subseteq Row \X Row /\ q.slug \in Slugs
    BY <2>2 DEF Stage, Request, Slugs
  <2>5. fits  BY <1>2
  <2> HIDE DEF q, fits
  <2>6. \A r \in q.ids : Copy(r, f) \in R /\ Copy(r, f) \in Row /\ Good(Copy(r, f))
    <3> SUFFICES ASSUME NEW r \in q.ids
                 PROVE  Copy(r, f) \in R /\ Copy(r, f) \in Row /\ Good(Copy(r, f))
      OBVIOUS
    <3>1. r[1] \in Table /\ r[3] \in Writer /\ r[1] \notin OrgTable
      BY <2>4, RowForm
    <3>2. Copy(r, f) \in Row  BY <3>1, <2>3, RowOf DEF Copy
    <3>3. QED  BY <3>1, <3>2 DEF CopyRows, Copy, Good
  <2>7. /\ <<"roles", f, f>> \in R /\ Good(<<"roles", f, f>>)
        /\ <<"counters", f, Org>> \in R /\ Good(<<"counters", f, Org>>)
    <3>1. /\ "roles" \in Table /\ "counters" \in Table
          /\ "roles" \notin OrgTable /\ "counters" \notin OrgTable
      BY Tables DEF OrgTable
    <3>2. QED  BY <3>1, <2>3, RowOf, FlowWriters DEF CopyRows, Good
  <2>8. \A r \in R : Good(r)  BY <2>6, <2>7 DEF CopyRows
  <2>9. ProjectRow(f) \in R
    <3>1. Copy(ProjectRow(q.src), f) = ProjectRow(f)  BY DEF Copy, ProjectRow
    <3>2. QED  BY <3>1, <2>4, <2>6
  <2>10. \A k \in F : k \in R \X (rows \cup R) /\ k[2][2] \in {Org, k[1][2]}
    <3>1. ASSUME NEW k \in NewProjectRefs(f)
          PROVE  k = <<k[1], k[2]>> /\ k[1] \in R /\ k[2][2] \in {Org, k[1][2]}
      BY <2>7, <2>9 DEF NewProjectRefs, ProjectRow, Organisation, Users
    <3>2. ASSUME NEW k \in CopyRefs(q, f)
          PROVE  k = <<k[1], k[2]>> /\ k[1] \in R /\ k[2][2] \in {Org, k[1][2]}
      <4>1. PICK j \in q.refs :
               /\ j[2][2] = Org \/ j[2] \in q.ids
               /\ k = <<Copy(j[1], f), IF j[2][2] = Org THEN j[2] ELSE Copy(j[2], f)>>
        BY DEF CopyRefs
      <4>2. Copy(j[1], f) \in R  BY <2>4, <2>6
      <4>3. QED  BY <4>1, <4>2 DEF Copy
    <3>3. \A k \in F : k[2] \in rows \cup R  BY <2>5 DEF fits, Fits
    <3>4. QED  BY <3>1, <3>2, <3>3
  <2>11. \A p \in Project : ProjectRow(p) \in R <=> p \in {f}
    <3>1. ASSUME NEW p \in Project, ProjectRow(p) \in R PROVE p = f
      BY <3>1 DEF CopyRows, Copy, ProjectRow
    <3>2. QED  BY <3>1, <2>9
  <2>12. \A n \in CopyNames(q, f) : n \in Row \X Row /\ n[1] \in R
    <3> SUFFICES ASSUME NEW n \in q.names
                 PROVE  /\ Copy(n[1], f) \in Row /\ Copy(n[1], f) \in R
                        /\ n[2] \in q.ids => Copy(n[2], f) \in Row
                        /\ n[2] \in Row
      BY DEF CopyNames
    <3>1. QED  BY <2>4, <2>6
  <2> HIDE DEF R, F
  <2>13. rows' = rows \cup R  BY <2>1 DEF Insert
  <2>14. named' \subseteq Row \X Row /\ \A n \in named' : n[1] \in rows'
    BY <2>1, <2>12, <2>13 DEF DataOK
  <2>15. /\ rows' \subseteq Row /\ ref' \subseteq rows' \X rows'
         /\ OrgRows' /\ ProjectsApart'
    BY <2>1, <2>8, <2>10, Inserts
  <2>16. /\ DOMAIN slug' = DOMAIN slug \cup {f}
         /\ \A p \in DOMAIN slug \ {f} : slug'[p] = slug[p]
         /\ slug'[f] = q.slug
    BY <2>1
  <2>17. q.slug \in Slugs /\ SlugFree(q.slug)  BY <2>4, <2>5 DEF fits
  <2>18. SlugsRight'
    <3>1. {f} \in SUBSET Project  BY <2>3
    <3>2. QED  BY <3>1, <2>11, <2>13, <2>16, <2>17, SlugsGrow
  <2>19. DataOK'  BY <2>14, <2>15, <2>18 DEF DataOK
  <2>20. QED  BY <2>1, <2>19, Answers
<1>3. QED  BY <1>1, <1>2

-----------------------------------------------------------------------------
(* New projects, and everybody else *)

\* A new project has the slug that was typed,
LEMMA StartCreates ==
    ASSUME DataOK, ReqOK, NEW f \in Flow, NEW s \in NewSlugs, StartCreate(f, s)
    PROVE  DataOK' /\ ReqOK'
<1>1. DataOK'  BY SameData DEF StartCreate
<1> DEFINE q == [Quiet EXCEPT !.pc = "checked", !.slug = s]
<1>2. CASE ~ActorActive  BY <1>1, <1>2, Answers DEF StartCreate
<1>3. CASE ActorActive
  <2>1. req' = [req EXCEPT ![f] = q]  BY <1>3 DEF StartCreate
  <2>2. s \in Slugs  BY SlugsAssumption DEF Slugs
  <2>3. q \in Request
    <3>1. 0 \in 0 .. Len(ClearScript) + 1  BY ClearLength
    <3>2. QED  BY <2>2, <3>1 DEF Quiet, Request, Slugs
  <2>4. q.pc = "checked" /\ f \in Others  BY DEF Quiet, StartCreate
  <2>5. Stage(f, q)  BY <2>4 DEF Stage
  <2> HIDE DEF q
  <2>6. QED  BY <1>1, <2>1, <2>3, <2>5, GoesOn
<1>4. QED  BY <1>2, <1>3

\* if no one else has it.
LEMMA InsertsProject ==
    ASSUME DataOK, ReqOK, NEW f \in Flow, InsertProject(f)
    PROVE  DataOK' /\ ReqOK'
<1> DEFINE R == {ProjectRow(f)}
           F == { <<ProjectRow(f), Organisation>>, <<ProjectRow(f), Users>> }
           fits == Fits(R, F) /\ SlugFree(req[f].slug)
<1>1. CASE ~fits
  <2>1. Answer(f, "failed") /\ UNCHANGED data  BY <1>1 DEF InsertProject
  <2>2. QED  BY <2>1, SameData, Answers
<1>2. CASE fits
  <2>1. /\ Insert(R, F)
        /\ slug' = [p \in DOMAIN slug \cup {f} |-> IF p = f THEN req[f].slug ELSE slug[p]]
        /\ Answer(f, "done") /\ UNCHANGED named
    BY <1>2 DEF InsertProject
  <2>2. f \in Project  BY FlowWriters DEF InsertProject
  <2>3. \A r \in R : Good(r)
    <3>1. ProjectRow(f)[1] \notin OrgTable  BY DEF ProjectRow, OrgTable
    <3>2. QED  BY <3>1, <2>2, ProjectRows DEF Good
  <2>4. \A k \in F : k \in R \X (rows \cup R) /\ k[2][2] \in {Org, k[1][2]}
    BY <1>2 DEF Fits, Organisation, Users
  <2>5. \A p \in Project : ProjectRow(p) \in R <=> p \in {f}
    BY DEF ProjectRow
  <2>6. req[f].slug \in Slugs /\ SlugFree(req[f].slug)
    BY <1>2 DEF ReqOK, Request, Slugs
  <2> HIDE DEF R, F
  <2>7. rows' = rows \cup R  BY <2>1 DEF Insert
  <2>8. /\ rows' \subseteq Row /\ ref' \subseteq rows' \X rows'
        /\ OrgRows' /\ ProjectsApart'
    BY <2>1, <2>3, <2>4, Inserts
  <2>9. /\ DOMAIN slug' = DOMAIN slug \cup {f}
        /\ \A p \in DOMAIN slug \ {f} : slug'[p] = slug[p]
        /\ slug'[f] = req[f].slug
    BY <2>1
  <2>10. SlugsRight'
    <3>1. {f} \in SUBSET Project  BY <2>2
    <3>2. QED  BY <3>1, <2>5, <2>6, <2>7, <2>9, SlugsGrow
  <2>11. named' \subseteq Row \X Row /\ \A n \in named' : n[1] \in rows'
    BY <2>1, <2>7 DEF DataOK
  <2>12. DataOK'  BY <2>8, <2>10, <2>11 DEF DataOK
  <2>13. QED  BY <2>1, <2>12, Answers
<1>3. QED  BY <1>1, <1>2

\* What the other services write into a project: rows of tables of content, and
\* an audit row.
LEMMA WritesAre ==
    ASSUME NEW T \in Writes, NEW t \in T
    PROVE  t \in Table /\ t \notin OrgTable /\ t # "projects"
<1>1. t \in {"folders", "cases", "steps", "requirements", "plans", "planCases", "runs",
             "runCases", "snapshots", "events", "defects", "defectLinks", "execComments"}
  BY DEF Writes
<1>2. t \in Table  BY <1>1, Tables
<1>3. QED  BY <1>1, <1>2 DEF OrgTable

\* A write that asks for a reference the counters do not have changes nothing.
LEMMA EditIs ==
    ASSUME NEW f, NEW p, NEW T, Edit(f, p, T)
    PROVE  \/ T \cap Numbered \subseteq CountedTables /\ Answer(f, "done")
           \/ Answer(f, "failed") /\ UNCHANGED data
BY DEF Edit

\* Any other write refers to rows of its project, or of the organisation.
LEMMA Edits ==
    ASSUME DataOK, ReqOK, NEW f \in Flow, NEW p, NEW T \in Writes, Edit(f, p, T),
           T \cap Numbered \subseteq CountedTables
    PROVE  DataOK' /\ ReqOK'
<1> DEFINE U == T \cup {"audit"}
           R == { Written(t, p, f) : t \in U }
<1>1. PICK S \in Selections(U, p) :
         /\ Insert(R, NewRefs(R, S))
         /\ named' = named \cup { <<Written("plans", p, f), s>> :
                                     s \in { s \in S : "planCases" \in T /\ s[1] = "cases" } }
  BY DEF Edit
<1>2. UNCHANGED slug /\ Answer(f, "done") /\ ProjectRow(p) \in rows  BY DEF Edit
<1>3. p \in Project /\ p # Org  BY <1>2, ProjectRows, OrgIsNoProject DEF DataOK
<1>4. f \in Writer  BY FlowWriters
<1>5. \A t \in T : /\ t \in Table /\ t \notin OrgTable /\ t # "projects"
                   /\ Written(t, p, f) = <<t, p, f>>
  BY WritesAre DEF Written
<1>6. Written("audit", p, f) = <<"audit", Org, f>> /\ "audit" \in OrgTable
  BY DEF Written, OrgTable
<1>7. \A s \in S : /\ s \in rows /\ s \in Row
                   /\ s[2] = p \/ (s[1] \in OrgTable /\ s[2] = Org)
  <2>1. S \subseteq Candidates(U, p)  BY DEF Selections, kSubset
  <2>2. QED  BY <2>1 DEF Candidates, DataOK, OrgRows
<1>8. \A r \in R : /\ Good(r) /\ r[1] # "projects"
                   /\ \/ r[2] = p /\ r[1] \notin OrgTable
                      \/ r = <<"audit", Org, f>>
  <2>1. \A t \in T : Good(<<t, p, f>>)  BY <1>3, <1>4, <1>5, RowOf DEF Good
  <2>2. Good(<<"audit", Org, f>>)  BY <1>4, <1>6, RowOf DEF Good
  <2>3. QED  BY <2>1, <2>2, <1>5, <1>6
<1> HIDE DEF R, U
<1>9. \A k \in NewRefs(R, S) : k \in R \X (rows \cup R) /\ k[2][2] \in {Org, k[1][2]}
  <2> SUFFICES ASSUME NEW r \in R, NEW s \in R \cup S, s[1] \in ParentTables({r[1]})
               PROVE  s \in rows \cup R /\ s[2] \in {Org, r[2]}
    <3>1. \A k \in NewRefs(R, S) :
             \E r \in R, s \in R \cup S :
                k = <<r, s>> /\ s[1] \in ParentTables({r[1]})
      BY DEF NewRefs
    <3>2. ASSUME NEW k \in NewRefs(R, S)
          PROVE  k \in R \X (rows \cup R) /\ k[2][2] \in {Org, k[1][2]}
      <4>1. PICK r \in R, s \in R \cup S :
               k = <<r, s>> /\ s[1] \in ParentTables({r[1]})
        BY <3>1
      <4>2. s \in rows \cup R /\ s[2] \in {Org, r[2]}  BY <4>1
      <4>3. k[1] = r /\ k[2] = s  BY <4>1
      <4>4. QED  BY <4>1, <4>2, <4>3
    <3>3. QED  BY <3>2
  <2>1. s \in rows \cup R /\ s[2] \in {Org, p}  BY <1>7, <1>8
  <2>2. CASE r[2] = p  BY <2>1, <2>2
  <2>3. CASE r = <<"audit", Org, f>>
    <3>1. s[1] = "organisations"  BY <2>3, AuditParent
    <3>2. s[1] \in OrgTable /\ s # <<"audit", Org, f>>  BY <3>1 DEF OrgTable
    <3>3. s \in S  BY <3>2, <1>8
    <3>4. s[2] = Org
      BY <3>2, <3>3, <1>7 DEF DataOK, OrgRows
    <3>5. QED  BY <2>1, <3>4
  <2>4. QED  BY <2>2, <2>3, <1>8
<1>10. rows' = rows \cup R  BY <1>1 DEF Insert
<1>11. /\ rows' \subseteq Row /\ ref' \subseteq rows' \X rows'
       /\ OrgRows' /\ ProjectsApart'
  BY <1>1, <1>8, <1>9, Inserts
<1>12. SlugsRight'  BY <1>2, <1>8, <1>10, SlugsStay
<1>13. named' \subseteq Row \X Row /\ \A n \in named' : n[1] \in rows'
  <2> SUFFICES ASSUME NEW s \in S, "planCases" \in T, s[1] = "cases"
               PROVE  Written("plans", p, f) \in rows' /\ s \in Row
    BY <1>1, <1>10, <1>11 DEF DataOK
  <2>1. "plans" \in T  BY DEF Writes
  <2>2. Written("plans", p, f) \in R  BY <2>1 DEF R, U
  <2>3. QED  BY <2>2, <1>7, <1>10
<1>14. DataOK'  BY <1>11, <1>12, <1>13 DEF DataOK
<1>15. QED  BY <1>2, <1>14, Answers

-----------------------------------------------------------------------------
(* Together *)

\* The invariant holds of the seed.
LEMMA InitOK == Init => IInv
<1> SUFFICES ASSUME Init PROVE IInv
  OBVIOUS
<1>1. /\ rows = SeedRows(SeedEntries, Org) /\ ref = SeedRefs(rows)
      /\ named = SeedNames(Org) /\ slug = [p \in Seeded |-> SeedSlug(p)]
      /\ req = [f \in Flow |-> Quiet] /\ disturbed = {}
  BY ScriptEntries DEF Init, Baseline
<1>2. \A r \in rows : /\ Good(r)
                      /\ r[1] = "projects" => r[2] \in Seeded /\ r = ProjectRow(r[2])
  BY <1>1, SeedRowsGood, FlowWriters
<1>3. \A x \in SeedEntries : SeedRow(x[1], x[2], Org) \in rows
  BY <1>1 DEF SeedRows
<1>4. ref \subseteq rows \X rows
  <2> SUFFICES ASSUME NEW r \in rows, NEW t \in SetBySeed[r[1]]
               PROVE  SeedRow(t, r[2], r[3]) \in rows
    BY <1>1 DEF SeedRefs
  <2>1. PICK x \in SeedEntries : r = SeedRow(x[1], x[2], Org)
    BY <1>1 DEF SeedRows
  <2>2. r[1] = x[1] /\ r[2] = x[2] /\ r[3] = Org /\ x[1] \in Table
    BY <2>1, SeedRowGood, FlowWriters DEF SeedRow
  <2> DEFINE y == <<t, IF t \in OrgTable THEN Org ELSE x[2]>>
  <2>3. y \in SeedEntries  BY <2>2, SeedClosed
  <2>4. SeedRow(y[1], y[2], Org) = SeedRow(t, x[2], Org)  BY DEF SeedRow
  <2>5. QED  BY <2>2, <2>3, <2>4, <1>3
<1>5. ProjectsApart  BY <1>1, SeedRefsApart DEF ProjectsApart
<1>6. named \subseteq Row \X Row /\ \A n \in named : n[1] \in rows
  <2>1. <<"plans", Demo>> \in SeedEntries /\ <<"cases", Demo>> \in SeedEntries
    BY DEF SeedEntries, SeededForDemo
  <2>2. SeedRow("plans", Demo, Org) \in rows /\ SeedRow("cases", Demo, Org) \in rows
    BY <2>1, <1>3
  <2>3. QED  BY <2>2, <1>1, <1>2 DEF SeedNames, Good
<1>7. DOMAIN slug = { p \in Project : ProjectRow(p) \in rows }
  <2>1. ASSUME NEW p \in Seeded PROVE p \in Project /\ ProjectRow(p) \in rows
    <3>1. <<"projects", p>> \in SeedEntries
      BY DEF SeedEntries, SeededForBlank, SeededForDemo, Seeded
    <3>2. SeedRow("projects", p, Org) = ProjectRow(p)  BY <3>1, SeedRowGood, FlowWriters
    <3>3. QED  BY <3>1, <3>2, <1>3, FlowWriters
  <2>2. ASSUME NEW p \in Project, ProjectRow(p) \in rows PROVE p \in Seeded
    BY <2>2, <1>2 DEF ProjectRow
  <2>3. QED  BY <2>1, <2>2, <1>1
<1>8. SlugsRight
  <2>1. \A p \in Seeded : SeedSlug(p) \in Slugs
    <3>1. \A p \in Project : <<p>> \in Slugs  BY DEF Slugs
    <3>2. QED  BY <3>1, FlowWriters DEF SeedSlug
  <2>2. \A p, q \in Seeded : SeedSlug(p) = SeedSlug(q) => p = q  BY DEF SeedSlug
  <2>3. QED  BY <2>1, <2>2, <1>1, <1>7 DEF SlugsRight, SlugsTyped
<1>9. DataOK  BY <1>2, <1>4, <1>5, <1>6, <1>8 DEF DataOK, Good, OrgRows
<1>10. ReqOK
  <2>1. << >> \in Slugs /\ 0 \in 0 .. Len(ClearScript) + 1  BY ClearLength DEF Slugs
  <2>2. Quiet \in Request  BY <2>1 DEF Quiet, Request, Slugs
  <2>3. \A f \in Flow : Stage(f, Quiet)  BY DEF Stage, Quiet
  <2>4. QED  BY <2>2, <2>3, <1>1 DEF ReqOK
<1>11. QED  BY <1>1, <1>9, <1>10, Parts

\* Every step of a flow keeps it.
LEMMA Steps ==
    ASSUME DataOK, ReqOK, NEW f \in Flow, Step(f)
    PROVE  DataOK' /\ ReqOK'
<1>1. CASE StartReset(f)  BY <1>1, StartResets
<1>2. CASE ClearRead(f)  BY <1>2, ClearReads
<1>3. CASE ClearDelete(f)  BY <1>3, ClearDeletes
<1>4. CASE Cleared(f)  BY <1>4, Clears
<1>5. CASE FillNext(f)  BY <1>5, Fills
<1>6. CASE \E p \in Sources : StartClone(f, p)  BY <1>6, StartClones
<1>7. CASE CloneRead(f)  BY <1>7, CloneReads
<1>8. CASE CloneCommit(f)  BY <1>8, CloneCommits
<1>9. CASE \E s \in NewSlugs : StartCreate(f, s)  BY <1>9, StartCreates
<1>10. CASE InsertProject(f)  BY <1>10, InsertsProject
<1>11. CASE \E p \in Sources, T \in Writes : Edit(f, p, T)
  <2>1. PICK p \in Sources, T \in Writes : Edit(f, p, T)  BY <1>11
  <2>2. CASE Answer(f, "failed") /\ UNCHANGED data  BY <2>2, SameData, Answers
  <2>3. QED  BY <2>1, <2>2, EditIs, Edits
<1>12. QED
  BY <1>1, <1>2, <1>3, <1>4, <1>5, <1>6, <1>7, <1>8, <1>9, <1>10, <1>11 DEF Step

\* The invariant holds throughout.
LEMMA Kept == Spec => []IInv
<1>1. Init => IInv  BY InitOK
<1>2. IInv /\ [Next]_vars => IInv'
  <2> SUFFICES ASSUME IInv, [Next]_vars PROVE IInv'
    OBVIOUS
  <2>1. DataOK /\ ReqOK /\ disturbed \subseteq Flow  BY Parts
  <2>2. CASE UNCHANGED vars
    <3>1. DataOK'  BY <2>1, <2>2, SameData DEF vars, data
    <3>2. ReqOK' /\ (disturbed \subseteq Flow)'  BY <2>1, <2>2 DEF vars, ReqOK
    <3>3. QED  BY <3>1, <3>2, Parts, PTL
  <2>3. CASE Next
    <3>1. PICK f \in Flow : Step(f) /\ Watch(f)  BY <2>3 DEF Next
    <3>2. DataOK' /\ ReqOK'  BY <2>1, <3>1, Steps
    <3>3. (disturbed \subseteq Flow)'  BY <3>1 DEF Watch
    <3>4. QED  BY <3>2, <3>3, Parts, PTL
  <2>4. QED  BY <2>2, <2>3
<1>3. QED  BY <1>1, <1>2, PTL DEF Spec

\* For any projects, copies, resets and writes at once: every foreign key has
\* its two rows, whatever is deleted under it, and every project a slug of its
\* own.
THEOREM WorkspaceTyped == Spec => []TypeOK
<1>1. IInv => TypeOK  BY DEF IInv
<1>2. QED  BY <1>1, Kept, PTL

\* No foreign key leads from one project into another, whatever was written to
\* a project between the reads of its copy and the copy's commit.
THEOREM ProjectsStayApart == Spec => []ProjectsApart
<1>1. IInv => ProjectsApart  BY DEF IInv
<1>2. QED  BY <1>1, Kept, PTL

-----------------------------------------------------------------------------
(* Workspace: a copy is complete *)

\* The tables that are copied.
Copied == {"folders", "cases", "steps", "plans", "planCases", "runs", "runCases",
           "snapshots", "stepResults", "defectLinks", "events", "assignees"}

\* The pairs of tables whose key is set to null, and whose key restricts a delete.
Nulled == { <<"projects", "users">>, <<"cases", "folders">>, <<"runs", "plans">>,
            <<"snapshots", "steps">>, <<"defectLinks", "defects">>,
            <<"audit", "organisations">> }
Restricted == { <<"users", "organisations">>, <<"projects", "organisations">>,
                <<"cases", "projects">>, <<"requirements", "projects">>,
                <<"defects", "projects">>, <<"plans", "projects">>,
                <<"planCases", "cases">>, <<"runs", "projects">>,
                <<"runCases", "cases">> }

\* How far down a chain of cascades a table can be.
Depth(t) ==
    IF t \in {"organisations", "projects", "users", "cases", "requirements", "plans", "runs"}
    THEN 0 ELSE IF t = "runCases" THEN 1 ELSE IF t = "snapshots" THEN 2 ELSE 3

\* What a key of schema.ts does on delete; what the keys of a copied table lead to;
\* and that a cascade leads down.
KeyFacts(k) ==
    /\ k[3] \in {"cascade", "restrict", "setNull"}
    /\ k[3] = "setNull" <=> <<k[1], k[2]>> \in Nulled
    /\ k[3] = "restrict" <=> <<k[1], k[2]>> \in Restricted
    /\ k[3] = "cascade" => Depth(k[2]) < Depth(k[1])
    /\ k[1] \in Copied => /\ k[2] \in Copied \cup {"projects", "users", "defects"}
                          /\ k[2] = "defects" => k[3] = "setNull"
    /\ k[1] = "projects" => k[2] \in {"organisations", "users"}
    /\ k[1] = "roles" => k[2] \in {"projects", "users"}
    /\ k[1] # "counters"

\* This, of every key.
LEMMA EveryKey == \A k \in Keys : KeyFacts(k)
<1>1. \A k \in OrganisationKeys : KeyFacts(k)
  BY DEF OrganisationKeys, KeyFacts, Nulled, Restricted, Depth, Copied
<1>2. \A k \in ProjectKeys : KeyFacts(k)
  BY DEF ProjectKeys, KeyFacts, Nulled, Restricted, Depth, Copied
<1>3. \A k \in CaseKeys : KeyFacts(k)
  BY DEF CaseKeys, KeyFacts, Nulled, Restricted, Depth, Copied
<1>4. \A k \in RequirementKeys : KeyFacts(k)
  BY DEF RequirementKeys, KeyFacts, Nulled, Restricted, Depth, Copied
<1>5. \A k \in DefectKeys : KeyFacts(k)
  BY DEF DefectKeys, KeyFacts, Nulled, Restricted, Depth, Copied
<1>6. \A k \in PlanKeys : KeyFacts(k)
  BY DEF PlanKeys, KeyFacts, Nulled, Restricted, Depth, Copied
<1>7. \A k \in RunKeys : KeyFacts(k)
  BY DEF RunKeys, KeyFacts, Nulled, Restricted, Depth, Copied
<1>8. \A k \in RunCaseKeys : KeyFacts(k)
  BY DEF RunCaseKeys, KeyFacts, Nulled, Restricted, Depth, Copied
<1>9. \A k \in SnapshotKeys : KeyFacts(k)
  BY DEF SnapshotKeys, KeyFacts, Nulled, Restricted, Depth, Copied
<1>10. \A k \in EventKeys : KeyFacts(k)
  BY DEF EventKeys, KeyFacts, Nulled, Restricted, Depth, Copied
<1>11. \A k \in LinkKeys : KeyFacts(k)
  BY DEF LinkKeys, KeyFacts, Nulled, Restricted, Depth, Copied
<1>12. \A k \in AuditKeys : KeyFacts(k)
  BY DEF AuditKeys, KeyFacts, Nulled, Restricted, Depth, Copied
<1>13. \A k \in AdminKeys : KeyFacts(k)
  BY DEF AdminKeys, KeyFacts, Nulled, Restricted, Depth, Copied
<1>14. QED
  BY <1>1, <1>2, <1>3, <1>4, <1>5, <1>6, <1>7, <1>8, <1>9, <1>10, <1>11, <1>12, <1>13
     DEF Keys

\* The rule of a key is that of schema.ts, which has one key from a table to another.
LEMMA RuleIs ==
    ASSUME NEW t \in Table, NEW u \in Table, NEW d
    PROVE  <<t, u, d>> \in Keys <=> OnDelete[<<t, u>>] = d /\ d # "noKey"
<1> DEFINE ct == <<t, u>>
<1>1. OnDelete[ct] = IF \E k \in Keys : <<k[1], k[2]>> = ct
                     THEN (CHOOSE k \in Keys : <<k[1], k[2]>> = ct)[3] ELSE "noKey"
  BY DEF OnDelete
<1>2. ASSUME <<t, u, d>> \in Keys PROVE OnDelete[ct] = d /\ d # "noKey"
  <2> DEFINE k == CHOOSE k \in Keys : <<k[1], k[2]>> = ct
             j == <<t, u, d>>
  <2>1. j \in Keys /\ <<j[1], j[2]>> = ct /\ j[3] = d  BY <1>2
  <2>2. \E i \in Keys : <<i[1], i[2]>> = ct  BY <2>1
  <2>3. k \in Keys /\ <<k[1], k[2]>> = ct  BY <2>2
  <2>4. KeyFacts(k) /\ KeyFacts(j)  BY <2>1, <2>3, EveryKey
  <2>5. k[3] = d /\ d # "noKey"
    <3>1. <<k[1], k[2]>> = <<j[1], j[2]>>  BY <2>1, <2>3
    <3> HIDE DEF k, j
    <3>2. k[3] = j[3] /\ j[3] # "noKey"  BY <2>4, <3>1 DEF KeyFacts
    <3>3. QED  BY <3>2, <2>1
  <2>6. QED  BY <1>1, <2>2, <2>5
<1>3. ASSUME OnDelete[ct] = d, d # "noKey" PROVE <<t, u, d>> \in Keys
  <2> DEFINE k == CHOOSE k \in Keys : <<k[1], k[2]>> = ct
  <2>1. \E i \in Keys : <<i[1], i[2]>> = ct  BY <1>1, <1>3
  <2>2. k \in Keys /\ <<k[1], k[2]>> = ct  BY <2>1
  <2>3. k[3] = d  BY <1>1, <1>3, <2>1
  <2>4. k = <<k[1], k[2], k[3]>>  BY <2>2, KeyForm
  <2>5. k[1] = t /\ k[2] = u  BY <2>2
  <2> HIDE DEF k
  <2>6. QED  BY <2>2, <2>3, <2>4, <2>5
<1>4. QED  BY <1>2, <1>3

\* A required key cascades or restricts, and one that is set to null is not required.
LEMMA RuleOfRequired ==
    ASSUME NEW t \in Table, NEW u \in Table
    PROVE  /\ u \in Required[t] => OnDelete[<<t, u>>] \in {"cascade", "restrict"}
           /\ OnDelete[<<t, u>>] = "cascade" => Depth(u) < Depth(t)
           /\ u \in Required[t] \cup Optional[t] => <<t, u, OnDelete[<<t, u>>]>> \in Keys
<1>1. ASSUME u \in Required[t] PROVE OnDelete[<<t, u>>] \in {"cascade", "restrict"}
  <2>1. PICK d : <<t, u, d>> \in Keys /\ d # "setNull"  BY <1>1, KeyOf
  <2>2. OnDelete[<<t, u>>] = d  BY <2>1, RuleIs
  <2>3. KeyFacts(<<t, u, d>>)  BY <2>1, EveryKey
  <2>4. QED  BY <2>1, <2>2, <2>3 DEF KeyFacts
<1>2. ASSUME OnDelete[<<t, u>>] = "cascade" PROVE Depth(u) < Depth(t)
  <2>1. <<t, u, "cascade">> \in Keys  BY <1>2, RuleIs
  <2>2. KeyFacts(<<t, u, "cascade">>)  BY <2>1, EveryKey
  <2>3. QED  BY <2>2 DEF KeyFacts
<1>3. ASSUME u \in Required[t] \cup Optional[t] PROVE <<t, u, OnDelete[<<t, u>>]>> \in Keys
  <2>1. PICK d : <<t, u, d>> \in Keys  BY <1>3, KeyOf
  <2>2. OnDelete[<<t, u>>] = d  BY <2>1, RuleIs
  <2>3. QED  BY <2>1, <2>2
<1>4. QED  BY <1>1, <1>2, <1>3

\* The tables that are copied are read in an order in which each comes after the
\* one it is read for.
LEMMA CloneOrder ==
    /\ Range(CloneScript) = Copied
    /\ \A i \in 1 .. 12 :
          /\ CloneScript[i] \in Copied
          /\ \/ ReadFor(CloneScript[i]) = "projects"
             \/ \E j \in 1 .. i - 1 : CloneScript[j] = ReadFor(CloneScript[i])
    /\ Copied \subseteq Table
    /\ \A t \in Copied : t \notin OrgTable /\ t # "projects"
<1>1. /\ CloneScript[1] = "folders" /\ CloneScript[2] = "cases" /\ CloneScript[3] = "steps"
      /\ CloneScript[4] = "plans" /\ CloneScript[5] = "planCases" /\ CloneScript[6] = "runs"
      /\ CloneScript[7] = "runCases" /\ CloneScript[8] = "snapshots"
      /\ CloneScript[9] = "stepResults" /\ CloneScript[10] = "defectLinks"
      /\ CloneScript[11] = "events" /\ CloneScript[12] = "assignees"
      /\ DOMAIN CloneScript = 1 .. 12
  BY DEF CloneScript
<1>2. \A i \in 1 .. 12 : i \in {1, 2, 3, 4, 5, 6, 7, 8, 9, 10, 11, 12}  OBVIOUS
<1>3. \A i \in 1 .. 12 : CloneScript[i] \in Copied  BY <1>1, <1>2 DEF Copied
<1>4. \A t \in Copied : \E i \in 1 .. 12 : CloneScript[i] = t
  <2>1. /\ 1 \in 1 .. 12 /\ 2 \in 1 .. 12 /\ 3 \in 1 .. 12 /\ 4 \in 1 .. 12 /\ 5 \in 1 .. 12
        /\ 6 \in 1 .. 12 /\ 7 \in 1 .. 12 /\ 8 \in 1 .. 12 /\ 9 \in 1 .. 12
        /\ 10 \in 1 .. 12 /\ 11 \in 1 .. 12 /\ 12 \in 1 .. 12
    OBVIOUS
  <2>2. QED  BY <1>1, <2>1 DEF Copied
<1>5. Range(CloneScript) = Copied  BY <1>1, <1>3, <1>4 DEF Range
<1>6. ASSUME NEW i \in 1 .. 12
      PROVE  \/ ReadFor(CloneScript[i]) = "projects"
             \/ \E j \in 1 .. i - 1 : CloneScript[j] = ReadFor(CloneScript[i])
  <2>1. CASE i \in {1, 2, 4, 6}  BY <2>1, <1>1 DEF ReadFor
  <2>2. CASE i = 3
    <3>1. ReadFor(CloneScript[i]) = CloneScript[2]  BY <2>2, <1>1 DEF ReadFor
    <3>2. QED  BY <2>2, <3>1
  <2>3. CASE i = 5
    <3>1. ReadFor(CloneScript[i]) = CloneScript[4]  BY <2>3, <1>1 DEF ReadFor
    <3>2. QED  BY <2>3, <3>1
  <2>4. CASE i \in {7, 12}
    <3>1. ReadFor(CloneScript[i]) = CloneScript[6]  BY <2>4, <1>1 DEF ReadFor
    <3>2. QED  BY <2>4, <3>1
  <2>5. CASE i \in {8, 9, 10, 11}
    <3>1. ReadFor(CloneScript[i]) = CloneScript[7]  BY <2>5, <1>1 DEF ReadFor
    <3>2. QED  BY <2>5, <3>1
  <2>6. QED  BY <1>2, <2>1, <2>2, <2>3, <2>4, <2>5
<1>7. \A t \in Copied : t \in Table
  BY Tables DEF Copied
<1>8. \A t \in Copied : t \notin OrgTable /\ t # "projects"  BY DEF Copied, OrgTable
<1>9. QED  BY <1>3, <1>5, <1>6, <1>7, <1>8

\* A row of a copied table must refer to the row it is read for.
LEMMA ReadForRequired ==
    ASSUME NEW t \in Copied
    PROVE  ReadFor(t) \in Required[t]
<1>1. /\ <<"folders", "projects", "cascade">> \in ProjectKeys
      /\ <<"cases", "projects", "restrict">> \in CaseKeys
      /\ <<"steps", "cases", "cascade">> \in CaseKeys
      /\ <<"plans", "projects", "restrict">> \in PlanKeys
      /\ <<"planCases", "plans", "cascade">> \in PlanKeys
      /\ <<"runs", "projects", "restrict">> \in RunKeys
      /\ <<"runCases", "runs", "cascade">> \in RunCaseKeys
      /\ <<"snapshots", "runCases", "cascade">> \in SnapshotKeys
      /\ <<"stepResults", "runCases", "cascade">> \in SnapshotKeys
      /\ <<"defectLinks", "runCases", "cascade">> \in LinkKeys
      /\ <<"events", "runCases", "cascade">> \in EventKeys
      /\ <<"assignees", "runs", "cascade">> \in EventKeys
  BY DEF ProjectKeys, CaseKeys, PlanKeys, RunKeys, RunCaseKeys, SnapshotKeys, LinkKeys,
         EventKeys
<1>2. \A k \in ProjectKeys \cup CaseKeys \cup PlanKeys \cup RunKeys \cup RunCaseKeys
            \cup SnapshotKeys \cup LinkKeys \cup EventKeys : k \in Keys
  BY DEF Keys
<1>3. \E d : <<t, ReadFor(t), d>> \in Keys /\ d # "setNull"
  <2>1. CASE t = "folders"  BY <2>1, <1>1, <1>2 DEF ReadFor
  <2>2. CASE t \in {"cases", "plans", "runs"}  BY <2>2, <1>1, <1>2 DEF ReadFor
  <2>3. CASE t = "steps"  BY <2>3, <1>1, <1>2 DEF ReadFor
  <2>4. CASE t = "planCases"  BY <2>4, <1>1, <1>2 DEF ReadFor
  <2>5. CASE t = "runCases"  BY <2>5, <1>1, <1>2 DEF ReadFor
  <2>6. CASE t \in {"snapshots", "stepResults", "defectLinks", "events"}
    <3>1. ReadFor(t) = "runCases"  BY <2>6 DEF ReadFor
    <3>2. <<t, "runCases", "cascade">> \in Keys  BY <2>6, <1>1, <1>2
    <3>3. QED  BY <3>1, <3>2
  <2>7. CASE t = "assignees"  BY <2>7, <1>1, <1>2 DEF ReadFor
  <2>8. QED  BY <2>1, <2>2, <2>3, <2>4, <2>5, <2>6, <2>7 DEF Copied
<1>4. PICK d : <<t, ReadFor(t), d>> \in Keys /\ d # "setNull"  BY <1>3
<1> DEFINE k == <<t, ReadFor(t), d>>
<1>5. k \in Keys /\ k[1] = t /\ k[2] = ReadFor(t) /\ k[3] # "setNull"  BY <1>4
<1> HIDE DEF k
<1>6. t \in Table  BY CloneOrder
<1>7. QED  BY <1>5, <1>6 DEF Required

-----------------------------------------------------------------------------
(* What the rows are, whatever is written *)

\* Every row has the keys it must have, a project, the organisation and its users
\* have the ids of the seed or their own, keys are those of schema.ts, and it is
\* plans that name cases.
Whole == \A r \in rows : \A t \in Required[r[1]] : \E k \in ref : k[1] = r /\ k[2][1] = t
SoleRows == \A r \in rows : r[1] \in {"projects", "organisations", "users"} => r[3] = Org
Naming(n) == n[1][1] = "plans" /\ n[2][1] = "cases"
Declared(k) == k[2][1] \in Required[k[1][1]] \cup Optional[k[1][1]]
RowsOK ==
    /\ Whole
    /\ SoleRows
    /\ \A k \in ref : Declared(k)
    /\ \A n \in named : Naming(n)

\* What f writes is its own project's, the seed's, the organisation's, or that of a
\* project there is.
NewIn(f) ==
    \A r \in rows' \ rows :
        r[2] = f \/ r[2] \in Seeded \cup {Org} \/ ProjectRow(r[2]) \in rows

\* A step that writes nothing.
LEMMA SameRows ==
    ASSUME RowsOK, UNCHANGED data, NEW f
    PROVE  RowsOK' /\ NewIn(f)
BY DEF RowsOK, Whole, SoleRows, Declared, Naming, NewIn, data

\* Rows that are inserted with the keys they must have.
LEMMA InsertsWhole ==
    ASSUME RowsOK, NEW R, NEW F, Insert(R, F),
           \A r \in R : /\ r[1] \in {"projects", "organisations", "users"} => r[3] = Org
                        /\ \A t \in Required[r[1]] : \E k \in F : k[1] = r /\ k[2][1] = t,
           \A k \in F : Declared(k),
           \A n \in named' : n \in named \/ Naming(n)
    PROVE  RowsOK'
<1>1. rows' = rows \cup R /\ ref' = ref \cup F  BY DEF Insert
<1>2. Whole'
  <2> SUFFICES ASSUME NEW r \in rows', NEW t \in Required[r[1]]
               PROVE  \E k \in ref' : k[1] = r /\ k[2][1] = t
    BY DEF Whole
  <2>1. CASE r \in rows  BY <2>1, <1>1 DEF RowsOK, Whole
  <2>2. CASE r \in R  BY <2>2, <1>1
  <2>3. QED  BY <2>1, <2>2, <1>1
<1>3. SoleRows'  BY <1>1 DEF RowsOK, SoleRows
<1>4. \A k \in ref' : Declared(k)  BY <1>1 DEF RowsOK
<1>5. \A n \in named' : Naming(n)  BY DEF RowsOK
<1>6. QED  BY <1>2, <1>3, <1>4, <1>5 DEF RowsOK, Declared, Naming

\* Three rounds of cascades are all: what refers by a cascade to a row that goes,
\* goes too.
LEMMA CascadeClosed ==
    ASSUME DataOK, NEW R, NEW k \in ref, Rule(k) = "cascade", k[2] \in Cascaded(R)
    PROVE  k[1] \in Cascaded(R)
<1> DEFINE A1 == CascadedOnce(R)
           A2 == CascadedOnce(A1)
           A3 == CascadedOnce(A2)
           d(r) == Depth(r[1])
<1>1. Cascaded(R) = A3  BY DEF Cascaded
<1>2. \A S : \A j \in ref : Rule(j) = "cascade" /\ j[2] \in S => j[1] \in CascadedOnce(S)
  BY DEF CascadedOnce
<1>3. \A S : \A r \in CascadedOnce(S) \ S :
         \E j \in ref : j[1] = r /\ j[2] \in S /\ Rule(j) = "cascade"
  BY DEF CascadedOnce
<1>4. \A j \in ref : Rule(j) = "cascade" => d(j[2]) < d(j[1])
  <2> SUFFICES ASSUME NEW j \in ref, Rule(j) = "cascade" PROVE d(j[2]) < d(j[1])
    OBVIOUS
  <2>1. j[1] \in Row /\ j[2] \in Row  BY DEF DataOK
  <2>2. j[1][1] \in Table /\ j[2][1] \in Table  BY <2>1, RowForm
  <2>3. QED  BY <2>2, RuleOfRequired DEF Rule
<1>5. \A r : d(r) \in 0 .. 3  BY DEF Depth
<1> HIDE DEF A1, A2, A3, d
<1>6. SUFFICES ASSUME k[1] \notin A3 PROVE FALSE
  BY <1>1
<1>7. k[2] \in A3 \ A2  BY <1>1, <1>2, <1>6 DEF A3
<1>8. PICK j3 \in ref : j3[1] = k[2] /\ j3[2] \in A2 /\ Rule(j3) = "cascade"
  BY <1>7, <1>3 DEF A3
<1>9. j3[2] \notin A1  BY <1>7, <1>8, <1>2 DEF A2
<1>10. PICK j2 \in ref : j2[1] = j3[2] /\ j2[2] \in A1 /\ Rule(j2) = "cascade"
  BY <1>8, <1>9, <1>3 DEF A2
<1>11. j2[2] \notin R  BY <1>9, <1>10, <1>2 DEF A1
<1>12. PICK j1 \in ref : j1[1] = j2[2] /\ j1[2] \in R /\ Rule(j1) = "cascade"
  BY <1>10, <1>11, <1>3 DEF A1
<1>13. /\ d(k[2]) < d(k[1]) /\ d(j3[2]) < d(k[2]) /\ d(j2[2]) < d(j3[2])
       /\ d(j1[2]) < d(j2[2])
  BY <1>4, <1>8, <1>10, <1>12
<1>14. QED  BY <1>5, <1>13

\* A delete that is not refused takes no key that a row left must have.
LEMMA DeletesWhole ==
    ASSUME DataOK, RowsOK, NEW S, Delete(Cascaded(S)), ~Refused(Cascaded(S)), NEW f
    PROVE  RowsOK' /\ NewIn(f)
<1> DEFINE gone == Cascaded(S)
<1>1. /\ rows' = rows \ gone
      /\ ref' = { k \in ref : k[1] \notin gone /\ k[2] \notin gone }
      /\ named' = { n \in named : n[1] \notin gone }
  BY DEF Delete
<1>2. Whole'
  <2> SUFFICES ASSUME NEW r \in rows, r \notin gone, NEW t \in Required[r[1]]
               PROVE  \E k \in ref' : k[1] = r /\ k[2][1] = t
    BY <1>1 DEF Whole
  <2>1. PICK k \in ref : k[1] = r /\ k[2][1] = t  BY DEF RowsOK, Whole
  <2>2. k[1] \in Row /\ k[2] \in Row  BY DEF DataOK
  <2>3. k[1][1] \in Table /\ k[2][1] \in Table  BY <2>2, RowForm
  <2>4. Rule(k) \in {"cascade", "restrict"}  BY <2>1, <2>3, RuleOfRequired DEF Rule
  <2>5. k[2] \notin gone
    <3>1. CASE Rule(k) = "cascade"  BY <3>1, <2>1, CascadeClosed
    <3>2. CASE Rule(k) = "restrict"  BY <3>2, <2>1 DEF Refused
    <3>3. QED  BY <3>1, <3>2, <2>4
  <2>6. QED  BY <2>1, <2>5, <1>1
<1> HIDE DEF gone
<1>3. SoleRows'  BY <1>1 DEF RowsOK, SoleRows
<1>4. /\ \A k \in ref' : Declared(k)
      /\ \A n \in named' : Naming(n)
  BY <1>1 DEF RowsOK
<1>5. NewIn(f)  BY <1>1 DEF NewIn
<1>6. QED  BY <1>2, <1>3, <1>4, <1>5 DEF RowsOK, Declared, Naming

\* What the seed writes.
LEMMA SeedWhole ==
    ASSUME NEW X \in SUBSET SeedEntries, NEW w \in Writer, NEW R \in SUBSET SeedRows(X, w)
    PROVE  /\ \A r \in R : /\ r[1] \in {"projects", "organisations", "users"} => r[3] = Org
                           /\ r[2] \in Seeded \cup {Org}
                           /\ \A t \in Required[r[1]] :
                                 \E k \in SeedRefs(R) : k[1] = r /\ k[2][1] = t
           /\ \A k \in SeedRefs(R) : Declared(k)
<1>1. ASSUME NEW r \in R
      PROVE  /\ r[1] \in {"projects", "organisations", "users"} => r[3] = Org
             /\ r[2] \in Seeded \cup {Org}
             /\ r[1] \in Table
  <2>1. PICK x \in X : r = SeedRow(x[1], x[2], w)  BY DEF SeedRows
  <2>2. r[1] = x[1] /\ r[2] = x[2] /\ x[1] \in Table  BY <2>1, SeedRowGood
  <2>3. x[2] \in Seeded \cup {Org}  BY DEF SeedEntries, Seeded
  <2>4. r[1] \in {"projects", "organisations", "users"} => r[3] = Org
    <3>1. r[3] = IF r[1] \in FixedId THEN Org ELSE w  BY <2>1 DEF SeedRow
    <3>2. QED  BY <3>1 DEF FixedId
  <2>5. QED  BY <2>2, <2>3, <2>4
<1>2. ASSUME NEW r \in R, NEW t \in Required[r[1]]
      PROVE  \E k \in SeedRefs(R) : k[1] = r /\ k[2][1] = t
  <2>1. r[1] \in Table  BY <1>1
  <2>2. t \in SetBySeed[r[1]]  BY <2>1 DEF SetBySeed
  <2> DEFINE k == <<r, SeedRow(t, r[2], r[3])>>
  <2>3. k \in SeedRefs(R)  BY <2>2 DEF SeedRefs
  <2>4. k[1] = r /\ k[2][1] = t  BY DEF SeedRow
  <2>5. QED  BY <2>3, <2>4
<1>3. ASSUME NEW k \in SeedRefs(R) PROVE Declared(k)
  <2>1. PICK r \in R : \E t \in SetBySeed[r[1]] : k = <<r, SeedRow(t, r[2], r[3])>>
    BY DEF SeedRefs
  <2>2. PICK t \in SetBySeed[r[1]] : k = <<r, SeedRow(t, r[2], r[3])>>  BY <2>1
  <2>3. r[1] \in Table  BY <1>1
  <2>4. t \in Required[r[1]] \cup Optional[r[1]]  BY <2>3 DEF SetBySeed
  <2>5. k[1] = r /\ k[2][1] = t  BY <2>2 DEF SeedRow
  <2>6. QED  BY <2>4, <2>5 DEF Declared
<1>4. QED  BY <1>1, <1>2, <1>3

\* The keys of the rows of a new project.
LEMMA NewProjectKeys ==
    /\ Required["projects"] = {"organisations"} /\ "users" \in Optional["projects"]
    /\ Required["roles"] = {"projects", "users"}
    /\ Required["counters"] = {} /\ Required["audit"] = {}
    /\ "organisations" \in Required["users"]
<1>1. /\ "projects" \in Table /\ "roles" \in Table /\ "counters" \in Table
      /\ "audit" \in Table /\ "users" \in Table
  BY Tables DEF OrgTable
<1>2. /\ <<"projects", "organisations", "restrict">> \in OrganisationKeys
      /\ <<"projects", "users", "setNull">> \in OrganisationKeys
      /\ <<"users", "organisations", "restrict">> \in OrganisationKeys
      /\ <<"roles", "projects", "cascade">> \in ProjectKeys
      /\ <<"roles", "users", "cascade">> \in ProjectKeys
  BY DEF OrganisationKeys, ProjectKeys
<1>3. \A k \in OrganisationKeys \cup ProjectKeys : k \in Keys  BY DEF Keys
<1>4. ASSUME NEW t \in Table, NEW u, NEW d, <<t, u, d>> \in Keys
      PROVE  /\ d # "setNull" => u \in Required[t]
             /\ d = "setNull" => u \in Optional[t]
  <2> DEFINE k == <<t, u, d>>
  <2>1. k \in Keys /\ k[1] = t /\ k[2] = u /\ k[3] = d  BY <1>4
  <2> HIDE DEF k
  <2>2. QED  BY <2>1 DEF Required, Optional
<1>5. /\ "organisations" \in Required["projects"] /\ "users" \in Optional["projects"]
      /\ "organisations" \in Required["users"]
      /\ "projects" \in Required["roles"] /\ "users" \in Required["roles"]
  BY <1>1, <1>2, <1>3, <1>4
<1>6. ASSUME NEW t \in Table, NEW u \in Required[t]
      PROVE  \E d : KeyFacts(<<t, u, d>>) /\ d # "setNull"
  BY <1>6, KeyOf, EveryKey
<1>7. \A t \in Table : \A u \in Required[t] : <<t, u>> \notin Nulled
  <2> SUFFICES ASSUME NEW t \in Table, NEW u \in Required[t] PROVE <<t, u>> \notin Nulled
    OBVIOUS
  <2>1. PICK d : KeyFacts(<<t, u, d>>) /\ d # "setNull"  BY <1>6
  <2>2. QED  BY <2>1 DEF KeyFacts
<1>8. \A u \in Required["projects"] : u = "organisations"
  <2> SUFFICES ASSUME NEW u \in Required["projects"] PROVE u = "organisations"
    OBVIOUS
  <2>1. u \in {"organisations", "users"}  BY <1>1, <1>6 DEF KeyFacts
  <2>2. <<"projects", u>> \notin Nulled  BY <1>1, <1>7
  <2>3. <<"projects", "users">> \in Nulled  BY DEF Nulled
  <2>4. QED  BY <2>1, <2>2, <2>3
<1>9. \A u \in Required["roles"] : u \in {"projects", "users"}
  BY <1>1, <1>6 DEF KeyFacts
<1>10. \A u \in Required["counters"] : FALSE  BY <1>1, <1>6 DEF KeyFacts
<1>11. \A u \in Required["audit"] : FALSE
  <2> SUFFICES ASSUME NEW u \in Required["audit"] PROVE FALSE
    OBVIOUS
  <2>1. u = "organisations"  BY AuditParent DEF ParentTables
  <2>2. <<"audit", "organisations">> \in Nulled  BY DEF Nulled
  <2>3. QED  BY <2>1, <2>2, <1>1, <1>7
<1>12. QED  BY <1>5, <1>8, <1>9, <1>10, <1>11

\* Each step keeps what rows are: a statement of the seed,
LEMMA FillsWhole ==
    ASSUME DataOK, ReqOK, RowsOK, NEW f \in Flow, FillNext(f)
    PROVE  RowsOK' /\ NewIn(f)
<1> DEFINE X == InsertScript[req[f].step]
           R == NewOf(SeedRows(X, f))
           P == { r[2] : r \in { r \in R : r[1] = "projects" } }
           fits == Fits(R, SeedRefs(R)) /\ \A p \in P : SlugFree(SeedSlug(p))
<1>1. CASE ~fits  BY <1>1, SameRows DEF FillNext
<1>2. CASE fits
  <2>1. /\ Insert(R, SeedRefs(R))
        /\ named' = named \cup { n \in SeedNames(f) : n[1] \in R }
    BY <1>2 DEF FillNext
  <2>2. req[f].step \in 1 .. 21  BY ScriptEntries DEF ReqOK, Stage, FillNext
  <2>3. X \in SUBSET SeedEntries  BY <2>2, ScriptEntries
  <2>4. R \in SUBSET SeedRows(X, f) /\ f \in Writer  BY FlowWriters DEF NewOf
  <2> HIDE DEF R, X
  <2>5. /\ \A r \in R : /\ r[1] \in {"projects", "organisations", "users"} => r[3] = Org
                        /\ r[2] \in Seeded \cup {Org}
                        /\ \A t \in Required[r[1]] :
                              \E k \in SeedRefs(R) : k[1] = r /\ k[2][1] = t
        /\ \A k \in SeedRefs(R) : Declared(k)
    BY <2>3, <2>4, SeedWhole
  <2>6. \A n \in SeedNames(f) : Naming(n)  BY DEF SeedNames, SeedRow, Naming
  <2>7. RowsOK'  BY <2>1, <2>5, <2>6, InsertsWhole
  <2>8. NewIn(f)  BY <2>1, <2>5 DEF NewIn, Insert
  <2>9. QED  BY <2>7, <2>8
<1>3. QED  BY <1>1, <1>2

\* the row of a new project,
LEMMA ProjectsWhole ==
    ASSUME RowsOK, NEW f \in Flow, InsertProject(f)
    PROVE  RowsOK' /\ NewIn(f)
<1> DEFINE R == {ProjectRow(f)}
           F == { <<ProjectRow(f), Organisation>>, <<ProjectRow(f), Users>> }
           fits == Fits(R, F) /\ SlugFree(req[f].slug)
<1>1. CASE ~fits  BY <1>1, SameRows DEF InsertProject
<1>2. CASE fits
  <2>1. Insert(R, F) /\ UNCHANGED named  BY <1>2 DEF InsertProject
  <2>2. /\ ProjectRow(f)[1] = "projects" /\ ProjectRow(f)[2] = f /\ ProjectRow(f)[3] = Org
        /\ Organisation[1] = "organisations" /\ Users[1] = "users"
    BY DEF ProjectRow, Organisation, Users
  <2>3. \A k \in F : Declared(k)  BY <2>2, NewProjectKeys DEF Declared
  <2>4. \A r \in R : \A t \in Required[r[1]] : \E k \in F : k[1] = r /\ k[2][1] = t
    BY <2>2, NewProjectKeys
  <2>5. \A r \in R : r[3] = Org /\ r[2] = f  BY <2>2
  <2> HIDE DEF R, F
  <2>6. RowsOK'  BY <2>1, <2>3, <2>4, <2>5, InsertsWhole
  <2>7. NewIn(f)  BY <2>1, <2>5 DEF NewIn, Insert
  <2>8. QED  BY <2>6, <2>7
<1>3. QED  BY <1>1, <1>2

\* The keys of a new row lead to all that is chosen for it.
LEMMA NewRefsAre ==
    ASSUME NEW R, NEW S
    PROVE  \A r \in R, s \in R \cup S :
              s[1] \in ParentTables({r[1]}) => <<r, s>> \in NewRefs(R, S)
BY DEF NewRefs

\* and what others write.
LEMMA EditsWhole ==
    ASSUME RowsOK, NEW f \in Flow, NEW p, NEW T \in Writes, Edit(f, p, T),
           T \cap Numbered \subseteq CountedTables
    PROVE  RowsOK' /\ NewIn(f)
<1> DEFINE U == T \cup {"audit"}
           R == { Written(t, p, f) : t \in U }
<1>1. PICK S \in Selections(U, p) :
         /\ \A t \in T : Required[t] \subseteq { r[1] : r \in R \cup S }
         /\ Insert(R, NewRefs(R, S))
         /\ named' = named \cup { <<Written("plans", p, f), s>> :
                                     s \in { s \in S : "planCases" \in T /\ s[1] = "cases" } }
  BY DEF Edit
<1>2. ProjectRow(p) \in rows  BY DEF Edit
<1>3. \A r \in R : /\ r[1] \in U
                   /\ r[2] \in {p, Org}
  BY DEF Written
<1>4. \A t \in U : t \notin {"projects", "organisations", "users"}
  BY WritesAre DEF OrgTable
<1> HIDE DEF R
<1>5. \A r \in R, s \in R \cup S : s[1] \in ParentTables({r[1]}) => <<r, s>> \in NewRefs(R, S)
  BY NewRefsAre
<1>6. \A t : ParentTables({t}) = Required[t] \cup Optional[t]
  BY DEF ParentTables
<1>7. ASSUME NEW r \in R, NEW t \in Required[r[1]]
      PROVE  \E k \in NewRefs(R, S) : k[1] = r /\ k[2][1] = t
  <2>1. r[1] # "audit"  BY NewProjectKeys
  <2>2. r[1] \in T  BY <2>1, <1>3
  <2>3. PICK s \in R \cup S : s[1] = t  BY <2>2, <1>1
  <2>4. <<r, s>> \in NewRefs(R, S)  BY <2>3, <1>5, <1>6
  <2>5. QED  BY <2>3, <2>4
<1>8. ASSUME NEW k \in NewRefs(R, S) PROVE Declared(k)
  <2>1. PICK r \in R : \E s \in R \cup S : k = <<r, s>> /\ s[1] \in ParentTables({r[1]})
    BY DEF NewRefs
  <2>2. PICK s \in R \cup S : k = <<r, s>> /\ s[1] \in ParentTables({r[1]})  BY <2>1
  <2>3. QED  BY <2>2, <1>6 DEF Declared
<1>9. \A n \in named' : n \in named \/ Naming(n)
  BY <1>1 DEF Written, Naming
<1>10. RowsOK'
  <2>1. \A r \in R : r[1] \in {"projects", "organisations", "users"} => r[3] = Org
    BY <1>3, <1>4
  <2>2. QED  BY <2>1, <1>1, <1>7, <1>8, <1>9, InsertsWhole
<1>11. NewIn(f)  BY <1>1, <1>2, <1>3 DEF NewIn, Insert
<1>12. QED  BY <1>10, <1>11

-----------------------------------------------------------------------------
(* What a copy has read *)

\* Every row that is read has the keys it must have among the references read.
Took(q) ==
    q.pc = "reading" =>
      /\ \A r \in q.ids :
            \/ r = ProjectRow(q.src)
            \/ /\ r[1] \in Copied
               /\ \A t \in Required[r[1]] : \E k \in q.refs : k[1] = r /\ k[2][1] = t
      /\ \A k \in q.refs : Declared(k)
      /\ \A n \in q.names : Naming(n)

\* and the copy.
LEMMA CommitsWhole ==
    ASSUME DataOK, ReqOK, RowsOK, NEW f \in Flow, Took(req[f]), CloneCommit(f)
    PROVE  RowsOK' /\ NewIn(f)
<1> DEFINE q == req[f]
           R == CopyRows(q, f)
           G == CopyRefs(q, f)
           F == NewProjectRefs(f) \cup G
           fits == Remappable(q) /\ Fits(R, F) /\ SlugFree(q.slug)
<1>1. CASE ~fits  BY <1>1, SameRows DEF CloneCommit
<1>2. CASE fits
  <2>1. /\ Insert(R, F)
        /\ named' = named \cup CopyNames(q, f)
    BY <1>2 DEF CloneCommit
  <2>2. q \in Request /\ Stage(f, q) /\ q.pc = "reading"
    BY DEF ReqOK, CloneCommit
  <2>3. q.refs \subseteq Row \X Row  BY <2>2 DEF Request
  <2>4. Remappable(q) /\ Took(q)  BY <1>2
  <2>5. \A r, g : Copy(r, g)[1] = r[1] /\ Copy(r, g)[2] = g /\ Copy(r, g)[3] = r[3]
    BY DEF Copy
  <2> DEFINE N == NewProjectRefs(f)
  <2>6. /\ <<ProjectRow(f), Organisation>> \in N /\ <<<<"roles", f, f>>, ProjectRow(f)>> \in N
        /\ <<<<"roles", f, f>>, Users>> \in N
    BY DEF NewProjectRefs
  <2>7. \A k \in N : Declared(k)
    BY NewProjectKeys DEF NewProjectRefs, Declared, ProjectRow, Organisation, Users
  <2> HIDE DEF q, N
  <2>8. ASSUME NEW k \in q.refs, k[2][2] = Org \/ k[2] \in q.ids
        PROVE  \E j \in G : j[1] = Copy(k[1], f) /\ j[2][1] = k[2][1]
    <3> DEFINE j == <<Copy(k[1], f), IF k[2][2] = Org THEN k[2] ELSE Copy(k[2], f)>>
    <3>1. j \in G  BY <2>8 DEF CopyRefs
    <3>2. j[1] = Copy(k[1], f) /\ j[2][1] = k[2][1]  BY <2>5
    <3>3. QED  BY <3>1, <3>2
  <2>9. ASSUME NEW j \in G
        PROVE  \E k \in q.refs : j[1] = Copy(k[1], f) /\ j[2][1] = k[2][1]
    <3>1. PICK k \in q.refs :
             j = <<Copy(k[1], f), IF k[2][2] = Org THEN k[2] ELSE Copy(k[2], f)>>
      BY DEF CopyRefs
    <3>2. QED  BY <3>1, <2>5
  <2>10. R = { <<"roles", f, f>>, <<"counters", f, Org>> } \cup { Copy(r, f) : r \in q.ids }
    BY DEF CopyRows
  <2> HIDE DEF R, G
  <2>11. \A k \in F : Declared(k)
    <3>1. ASSUME NEW j \in G PROVE Declared(j)
      <4>1. PICK k \in q.refs : j[1] = Copy(k[1], f) /\ j[2][1] = k[2][1]  BY <2>9
      <4>2. j[1][1] = k[1][1]  BY <4>1, <2>5
      <4>3. Declared(k)  BY <2>2, <2>4 DEF Took
      <4>4. QED  BY <4>1, <4>2, <4>3 DEF Declared
    <3>2. QED  BY <3>1, <2>7 DEF N
  <2>12. ASSUME NEW r \in R
         PROVE  /\ r[1] \in {"projects", "organisations", "users"} => r[3] = Org
                /\ r[2] = f
                /\ \A t \in Required[r[1]] : \E k \in F : k[1] = r /\ k[2][1] = t
    <3>1. CASE r = <<"roles", f, f>>
      <4>1. \A t \in Required["roles"] : t \in {"projects", "users"}  BY NewProjectKeys
      <4>2. /\ <<r, ProjectRow(f)>> \in F /\ <<r, Users>> \in F  BY <3>1, <2>6 DEF N
      <4>3. ProjectRow(f)[1] = "projects" /\ Users[1] = "users"
        BY DEF ProjectRow, Users
      <4>4. QED  BY <3>1, <4>1, <4>2, <4>3
    <3>2. CASE r = <<"counters", f, Org>>  BY <3>2, NewProjectKeys
    <3>3. CASE \E x \in q.ids : r = Copy(x, f)
      <4>1. PICK x \in q.ids : r = Copy(x, f)  BY <3>3
      <4>2. r[1] = x[1] /\ r[2] = f /\ r[3] = x[3]  BY <4>1, <2>5
      <4>3. CASE x = ProjectRow(q.src)
        <5>1. r = ProjectRow(f) /\ r[1] = "projects" /\ r[3] = Org
          BY <4>1, <4>3 DEF Copy, ProjectRow
        <5>2. <<r, Organisation>> \in F  BY <5>1, <2>6 DEF N
        <5>3. Organisation[1] = "organisations"  BY DEF Organisation
        <5>4. QED  BY <5>1, <5>2, <5>3, <4>2, NewProjectKeys
      <4>4. CASE x # ProjectRow(q.src)
        <5>1. /\ x[1] \in Copied
              /\ \A t \in Required[x[1]] : \E k \in q.refs : k[1] = x /\ k[2][1] = t
          BY <4>4, <2>2, <2>4 DEF Took
        <5>2. x[1] \notin OrgTable /\ x[1] # "projects"  BY <5>1, CloneOrder
        <5>3. ASSUME NEW t \in Required[x[1]]
              PROVE  \E k \in F : k[1] = r /\ k[2][1] = t
          <6>1. PICK k \in q.refs : k[1] = x /\ k[2][1] = t  BY <5>1
          <6>2. k[1] \in Row /\ k[2] \in Row  BY <2>3
          <6>3. k[1][1] \in Table /\ k[2][1] \in Table  BY <6>2, RowForm
          <6>4. Rule(k) # "setNull"  BY <6>1, <6>3, RuleOfRequired DEF Rule
          <6>5. k[2][2] = Org \/ k[2] \in q.ids  BY <6>4, <2>4 DEF Remappable
          <6>6. PICK j \in G : j[1] = Copy(k[1], f) /\ j[2][1] = k[2][1]
            BY <6>5, <2>8
          <6>7. QED  BY <6>1, <6>6, <4>1
        <5>4. QED  BY <5>2, <5>3, <4>2 DEF OrgTable
      <4>5. QED  BY <4>3, <4>4
    <3>4. QED  BY <3>1, <3>2, <3>3, <2>10
  <2>13. \A n \in named' : n \in named \/ Naming(n)
    <3>1. \A n \in CopyNames(q, f) :
             \E m \in q.names : n[1] = Copy(m[1], f) /\ n[2] \in {m[2], Copy(m[2], f)}
      BY DEF CopyNames
    <3>2. \A m \in q.names : Naming(m)  BY <2>2, <2>4 DEF Took
    <3>3. QED  BY <3>1, <3>2, <2>1, <2>5 DEF Naming
  <2> HIDE DEF F
  <2>14. RowsOK'  BY <2>1, <2>11, <2>12, <2>13, InsertsWhole
  <2>15. NewIn(f)  BY <2>1, <2>12 DEF NewIn, Insert
  <2>16. QED  BY <2>14, <2>15
<1>3. QED  BY <1>1, <1>2

\* A step leaves every other flow where it is, and only a copy that starts or reads
\* is reading.
LEMMA StepsOf ==
    ASSUME ReqOK, NEW f \in Flow, Step(f)
    PROVE  /\ \A g \in Flow : g # f => req'[g] = req[g]
           /\ \/ \E p : StartClone(f, p)
              \/ CloneRead(f)
              \/ req'[f].pc \notin {"idle", "reading"}
<1>1. DOMAIN req = Flow /\ req[f] \in Request  BY DEF ReqOK
<1>2. ASSUME NEW o \in {"done", "failed"}, Answer(f, o)
      PROVE  /\ \A g \in Flow : g # f => req'[g] = req[g]
             /\ req'[f].pc \notin {"idle", "reading"}
  BY <1>1, <1>2 DEF Answer, Quiet
<1>3. CASE StartReset(f)  BY <1>1, <1>2, <1>3 DEF StartReset, Request
<1>4. CASE ClearRead(f)  BY <1>1, <1>4 DEF ClearRead, Request
<1>5. CASE ClearDelete(f)
  <2>1. PICK gone : IF Refused(gone) THEN Answer(f, "failed") /\ UNCHANGED data
                    ELSE Delete(gone) /\ req' = [req EXCEPT ![f].step = @ + 1]
    BY <1>5 DEF ClearDelete
  <2>2. req[f].pc = "clearing"  BY <1>5 DEF ClearDelete
  <2>3. CASE Refused(gone)  BY <2>1, <2>3, <1>2
  <2>4. CASE ~Refused(gone)  BY <2>1, <2>2, <2>4, <1>1 DEF Request
  <2>5. QED  BY <2>3, <2>4
<1>6. CASE Cleared(f)  BY <1>1, <1>6 DEF Cleared, Quiet
<1>7. CASE FillNext(f)
  <2>1. \/ Answer(f, "done") \/ Answer(f, "failed")
        \/ req' = [req EXCEPT ![f].step = @ + 1]
    BY <1>7 DEF FillNext
  <2>2. req[f].pc = "filling"  BY <1>7 DEF FillNext
  <2>3. CASE req' = [req EXCEPT ![f].step = @ + 1]  BY <2>2, <2>3, <1>1 DEF Request
  <2>4. QED  BY <2>1, <2>3, <1>2
<1>8. CASE \E p \in Sources : StartClone(f, p)
  <2>1. PICK p \in Sources : StartClone(f, p)  BY <1>8
  <2>2. \A g \in Flow : g # f => req'[g] = req[g]
    BY <2>1, <1>1 DEF StartClone, Answer
  <2>3. QED  BY <2>1, <2>2
<1>9. CASE CloneRead(f)
  <2>1. \A g \in Flow : g # f => req'[g] = req[g]  BY <1>9, <1>1 DEF CloneRead
  <2>2. QED  BY <1>9, <2>1
<1>10. CASE CloneCommit(f)
  <2>1. Answer(f, "done") \/ Answer(f, "failed")  BY <1>10 DEF CloneCommit
  <2>2. QED  BY <2>1, <1>2
<1>11. CASE \E s \in NewSlugs : StartCreate(f, s)
  BY <1>1, <1>2, <1>11 DEF StartCreate, Quiet
<1>12. CASE InsertProject(f)
  <2>1. Answer(f, "done") \/ Answer(f, "failed")  BY <1>12 DEF InsertProject
  <2>2. QED  BY <2>1, <1>2
<1>13. CASE \E p \in Sources, T \in Writes : Edit(f, p, T)
  <2>1. Answer(f, "done") \/ Answer(f, "failed")  BY <1>13, EditIs
  <2>2. QED  BY <2>1, <1>2
<1>14. QED
  BY <1>3, <1>4, <1>5, <1>6, <1>7, <1>8, <1>9, <1>10, <1>11, <1>12, <1>13 DEF Step

\* Every step keeps what rows are.
LEMMA StepsWhole ==
    ASSUME DataOK, ReqOK, RowsOK, NEW f \in Flow, Took(req[f]), Step(f)
    PROVE  RowsOK' /\ NewIn(f)
<1>1. CASE StartReset(f)  BY <1>1, SameRows DEF StartReset
<1>2. CASE ClearRead(f)  BY <1>2, SameRows DEF ClearRead
<1>3. CASE ClearDelete(f)
  <2> DEFINE S == Belonging(req[f], ClearScript[req[f].step][2], ClearScript[req[f].step][3])
  <2>1. IF Refused(Cascaded(S)) THEN UNCHANGED data ELSE Delete(Cascaded(S))
    BY <1>3 DEF ClearDelete
  <2> HIDE DEF S
  <2>2. QED  BY <2>1, SameRows, DeletesWhole
<1>4. CASE Cleared(f)  BY <1>4, SameRows DEF Cleared
<1>5. CASE FillNext(f)  BY <1>5, FillsWhole
<1>6. CASE \E p \in Sources : StartClone(f, p)  BY <1>6, SameRows DEF StartClone
<1>7. CASE CloneRead(f)  BY <1>7, SameRows DEF CloneRead
<1>8. CASE CloneCommit(f)  BY <1>8, CommitsWhole
<1>9. CASE \E s \in NewSlugs : StartCreate(f, s)  BY <1>9, SameRows DEF StartCreate
<1>10. CASE InsertProject(f)  BY <1>10, ProjectsWhole
<1>11. CASE \E p \in Sources, T \in Writes : Edit(f, p, T)
  <2>1. PICK p \in Sources, T \in Writes : Edit(f, p, T)  BY <1>11
  <2>2. QED  BY <2>1, EditIs, EditsWhole, SameRows
<1>12. QED
  BY <1>1, <1>2, <1>3, <1>4, <1>5, <1>6, <1>7, <1>8, <1>9, <1>10, <1>11 DEF Step

\* What a read of a copy keeps.
LEMMA CloneReadIs ==
    ASSUME ReqOK, NEW f \in Flow, CloneRead(f)
    PROVE  LET h == req[f]
               q == req'[f]
               R == Children(h, CloneScript[h.step], ReadFor(CloneScript[h.step]))
           IN  /\ f \in Clones /\ h.step \in 1 .. 12 /\ h.pc = "reading"
               /\ q.pc = "reading" /\ q.step = h.step + 1 /\ q.src = h.src
               /\ q.slug = h.slug /\ q.ids = h.ids \cup R
               /\ q.refs = h.refs \cup { k \in ref : k[1] \in R }
               /\ q.names = h.names \cup { n \in named : n[1] \in R }
<1> DEFINE h == req[f]
           R == Children(h, CloneScript[h.step], ReadFor(CloneScript[h.step]))
           q == [h EXCEPT !.ids = @ \cup R,
                          !.refs = @ \cup { k \in ref : k[1] \in R },
                          !.names = @ \cup { n \in named : n[1] \in R },
                          !.step = @ + 1]
<1>1. req' = [req EXCEPT ![f] = q]  BY DEF CloneRead
<1>2. DOMAIN req = Flow /\ h \in Request /\ Stage(f, h) /\ h.pc = "reading"
  BY DEF ReqOK, CloneRead
<1>3. f \in Clones /\ h.step \in 1 .. 12
  <2>1. h.step <= 12  BY CloneLength DEF CloneRead
  <2>2. f \in Clones /\ h.step \in 1 .. Len(CloneScript) + 1  BY <1>2 DEF Stage
  <2> HIDE DEF h
  <2>3. QED  BY <2>1, <2>2, CloneLength
<1>4. req'[f] = q  BY <1>1, <1>2
<1> HIDE DEF h, R
<1>5. /\ q.pc = h.pc /\ q.step = h.step + 1 /\ q.src = h.src /\ q.slug = h.slug
      /\ q.ids = h.ids \cup R
      /\ q.refs = h.refs \cup { k \in ref : k[1] \in R }
      /\ q.names = h.names \cup { n \in named : n[1] \in R }
  BY <1>2 DEF Request
<1> HIDE DEF q
<1>6. QED  BY <1>2, <1>3, <1>4, <1>5 DEF h, R

\* What a copy keeps when it starts.
LEMMA StartCloneIs ==
    ASSUME ReqOK, NEW f \in Flow, NEW p, StartClone(f, p)
    PROVE  LET q == req'[f]
           IN  /\ f \in Clones /\ req[f].pc = "idle" /\ UNCHANGED data
               /\ \/ q.pc = "failed"
                  \/ /\ ActorActive /\ ProjectRow(p) \in rows
                     /\ q.pc = "reading" /\ q.step = 1 /\ q.src = p
                     /\ q.slug = CopySlug(p) /\ q.ids = {ProjectRow(p)}
                     /\ q.refs = {} /\ q.names = {}
<1>1. DOMAIN req = Flow  BY DEF ReqOK
<1>2. QED  BY <1>1 DEF StartClone, Answer, Quiet

\* Every step keeps what copies have read.
LEMMA StepsTook ==
    ASSUME DataOK, ReqOK, RowsOK, NEW f \in Flow, NEW g \in Flow, Took(req[g]), Step(f)
    PROVE  Took(req'[g])
<1>1. CASE g # f  BY <1>1, StepsOf
<1>2. CASE g = f /\ \E p : StartClone(f, p)
  <2>1. PICK p : StartClone(f, p)  BY <1>2
  <2> DEFINE q == req'[f]
  <2>2. \/ q.pc = "failed"
        \/ q.src = p /\ q.ids = {ProjectRow(p)} /\ q.refs = {} /\ q.names = {}
    BY <2>1, StartCloneIs
  <2> HIDE DEF q
  <2>3. Took(q)  BY <2>2 DEF Took
  <2>4. QED  BY <2>3, <1>2 DEF q
<1>3. CASE g = f /\ CloneRead(f)
  <2> DEFINE h == req[f]
             q == req'[f]
             t == CloneScript[h.step]
             R == Children(h, t, ReadFor(t))
  <2>1. /\ h.step \in 1 .. 12 /\ h.pc = "reading" /\ q.src = h.src /\ q.ids = h.ids \cup R
        /\ q.refs = h.refs \cup { k \in ref : k[1] \in R }
        /\ q.names = h.names \cup { n \in named : n[1] \in R }
    BY <1>3, CloneReadIs
  <2>2. t \in Copied  BY <2>1, CloneOrder
  <2>3. Took(h)  BY <1>3
  <2> HIDE DEF h, q, t
  <2>4. \A r \in R : r \in rows /\ r[1] = t  BY DEF Children, DataOK
  <2> HIDE DEF R
  <2>5. ASSUME NEW r \in R, NEW u \in Required[r[1]]
        PROVE  \E k \in q.refs : k[1] = r /\ k[2][1] = u
    <3>1. PICK k \in ref : k[1] = r /\ k[2][1] = u  BY <2>4 DEF RowsOK, Whole
    <3>2. k \in q.refs  BY <3>1, <2>1
    <3>3. QED  BY <3>1, <3>2
  <2>6. \A r \in q.ids :
            \/ r = ProjectRow(q.src)
            \/ /\ r[1] \in Copied
               /\ \A u \in Required[r[1]] : \E k \in q.refs : k[1] = r /\ k[2][1] = u
    <3> SUFFICES ASSUME NEW r \in q.ids, r # ProjectRow(q.src)
                 PROVE  /\ r[1] \in Copied
                        /\ \A u \in Required[r[1]] :
                              \E k \in q.refs : k[1] = r /\ k[2][1] = u
      OBVIOUS
    <3>1. CASE r \in R  BY <3>1, <2>2, <2>4, <2>5
    <3>2. CASE r \in h.ids
      <4>1. /\ r[1] \in Copied
            /\ \A u \in Required[r[1]] : \E k \in h.refs : k[1] = r /\ k[2][1] = u
        BY <3>2, <2>1, <2>3 DEF Took
      <4>2. h.refs \subseteq q.refs  BY <2>1
      <4>3. QED  BY <4>1, <4>2
    <3>3. QED  BY <3>1, <3>2, <2>1
  <2>7. \A k \in q.refs : Declared(k)  BY <2>1, <2>3 DEF Took, RowsOK
  <2>8. \A n \in q.names : Naming(n)  BY <2>1, <2>3 DEF Took, RowsOK
  <2>9. Took(q)  BY <2>6, <2>7, <2>8 DEF Took
  <2>10. QED  BY <2>9, <1>3 DEF q
<1>4. CASE g = f /\ req'[f].pc \notin {"idle", "reading"}  BY <1>4 DEF Took
<1>5. QED  BY <1>1, <1>2, <1>3, <1>4, StepsOf

-----------------------------------------------------------------------------
(* A copy that nobody disturbs *)

\* Until a copy is written, no row belongs to it.
Unborn(f) == req[f].pc \in {"idle", "reading"} => \A r \in rows : r[2] # f

\* The rows of the source in the tables read so far.
ReadSoFar(q) ==
    { r \in rows : r[2] = q.src /\ \E i \in 1 .. q.step - 1 : r[1] = CloneScript[i] }

\* While nobody else writes, a copy has read just these, with what refers from them
\* and what they name, and its slug is still free.
Mirror(q) ==
    /\ q.src \in Project /\ ProjectRow(q.src) \in rows /\ Users \in rows
    /\ SlugFree(q.slug)
    /\ q.ids = {ProjectRow(q.src)} \cup ReadSoFar(q)
    /\ q.refs = { k \in ref : k[1] \in ReadSoFar(q) }
    /\ q.names = { n \in named : n[1] \in ReadSoFar(q) }

CopyInv ==
    /\ IInv
    /\ RowsOK
    /\ \A f \in Flow : Took(req[f])
    /\ \A f \in Clones : Unborn(f)
    /\ \A f \in Clones : req[f].pc = "reading" /\ f \notin disturbed => Mirror(req[f])

\* A copy is its own project, and no other's.
LEMMA ClonesApart ==
    \A f \in Clones : f \in Flow /\ f \notin Seeded \cup {Org}
BY FlowsAssumption DEF Flow, Seeded

\* Every step keeps the rows of a copy for the step that writes it.
LEMMA StepsUnborn ==
    ASSUME ReqOK, NEW f \in Flow, Step(f), NewIn(f), NEW g \in Clones, Unborn(g)
    PROVE  Unborn(g)'
<1>1. g \in Flow /\ g \notin Seeded \cup {Org}  BY ClonesApart
<1>2. CASE g # f
  <2>1. req'[g] = req[g]  BY <1>1, <1>2, StepsOf
  <2>2. SUFFICES ASSUME req[g].pc \in {"idle", "reading"}, NEW r \in rows', r[2] = g
                 PROVE  FALSE
    BY <2>1 DEF Unborn
  <2>3. \A x \in rows : x[2] # g  BY <2>2 DEF Unborn
  <2>4. r \in rows' \ rows  BY <2>2, <2>3
  <2>5. ProjectRow(g) \in rows  BY <2>2, <2>4, <1>1, <1>2 DEF NewIn
  <2>6. ProjectRow(g)[2] = g  BY DEF ProjectRow
  <2>7. QED  BY <2>3, <2>5, <2>6
<1>3. CASE g = f
  <2>1. CASE \E p : StartClone(f, p)
    <3>1. req[f].pc = "idle" /\ UNCHANGED data  BY <2>1, StartCloneIs
    <3>2. QED  BY <3>1, <1>3 DEF Unborn, data
  <2>2. CASE CloneRead(f)
    <3>1. req[f].pc = "reading" /\ UNCHANGED data  BY <2>2 DEF CloneRead
    <3>2. QED  BY <3>1, <1>3 DEF Unborn, data
  <2>3. CASE req'[f].pc \notin {"idle", "reading"}  BY <2>3, <1>3 DEF Unborn
  <2>4. QED  BY <2>1, <2>2, <2>3, StepsOf
<1>4. QED  BY <1>2, <1>3

\* What a copy that is alone reads of a table is every row of it.
LEMMA ReadsAll ==
    ASSUME DataOK, RowsOK, NEW q, Mirror(q), q.step \in 1 .. 12
    PROVE  LET t == CloneScript[q.step]
           IN  Children(q, t, ReadFor(t)) = { r \in rows : r[2] = q.src /\ r[1] = t }
<1> DEFINE t == CloneScript[q.step]
           u == ReadFor(t)
           R == Children(q, t, u)
<1>1. q.src # Org  BY OrgIsNoProject DEF Mirror
<1>2. \A r \in q.ids : r[2] = q.src  BY DEF Mirror, ReadSoFar, ProjectRow
<1>3. t \in Copied  BY CloneOrder
<1>4. ASSUME NEW r \in R PROVE r \in rows /\ r[2] = q.src /\ r[1] = t
  <2>1. PICK k \in ref : r = k[1] /\ k[1][1] = t /\ k[2] \in q.ids  BY DEF Children
  <2>2. k[2][2] = q.src  BY <2>1, <1>2
  <2>3. k[2][2] \in {Org, k[1][2]}  BY DEF DataOK, ProjectsApart
  <2>4. QED  BY <2>1, <2>2, <2>3, <1>1 DEF DataOK
<1>5. ASSUME NEW r \in rows, r[2] = q.src, r[1] = t PROVE r \in R
  <2>1. u \in Required[t]  BY <1>3, ReadForRequired
  <2> HIDE DEF u
  <2>2. PICK k \in ref : k[1] = r /\ k[2][1] = u  BY <2>1, <1>5 DEF RowsOK, Whole
  <2>3. k[2] \in rows /\ k[2] \in Row  BY DEF DataOK
  <2>4. k[2] = <<k[2][1], k[2][2], k[2][3]>> /\ (k[2][2] = Org => k[2][1] \in OrgTable)
    BY <2>3, RowForm
  <2>5. \/ u = "projects"
        \/ \E j \in 1 .. q.step - 1 : CloneScript[j] = u
    BY CloneOrder DEF u
  <2>6. u \notin OrgTable
    <3>1. CASE u = "projects"  BY <3>1 DEF OrgTable
    <3>2. CASE \E j \in 1 .. q.step - 1 : CloneScript[j] = u
      <4>1. PICK j \in 1 .. q.step - 1 : CloneScript[j] = u  BY <3>2
      <4>2. j \in 1 .. 12  OBVIOUS
      <4>3. QED  BY <4>1, <4>2, CloneLength
    <3>3. QED  BY <3>1, <3>2, <2>5
  <2>7. k[2][2] = q.src
    <3>1. k[2][2] \in {Org, k[1][2]}  BY DEF DataOK, ProjectsApart
    <3>2. k[2][2] # Org  BY <2>2, <2>4, <2>6
    <3>3. QED  BY <3>1, <3>2, <2>2, <1>5
  <2>8. k[2] \in q.ids
    <3>1. CASE u = "projects"
      <4>1. k[2][3] = Org  BY <3>1, <2>2, <2>3 DEF RowsOK, SoleRows
      <4>2. k[2] = ProjectRow(q.src)  BY <4>1, <3>1, <2>2, <2>4, <2>7 DEF ProjectRow
      <4>3. QED  BY <4>2 DEF Mirror
    <3>2. CASE \E j \in 1 .. q.step - 1 : CloneScript[j] = u
      <4>1. k[2] \in ReadSoFar(q)  BY <3>2, <2>2, <2>3, <2>7 DEF ReadSoFar
      <4>2. QED  BY <4>1 DEF Mirror
    <3>3. QED  BY <3>1, <3>2, <2>5
  <2>9. QED  BY <2>2, <2>8, <1>5 DEF Children
<1>6. QED  BY <1>4, <1>5

\* A copy that is alone goes on as a mirror of its source.
LEMMA ReadsMirror ==
    ASSUME DataOK, ReqOK, RowsOK, NEW f \in Flow, CloneRead(f), Mirror(req[f])
    PROVE  Mirror(req[f])'
<1> DEFINE h == req[f]
           q == req'[f]
           t == CloneScript[h.step]
           R == Children(h, t, ReadFor(t))
<1>1. /\ h.step \in 1 .. 12
      /\ q.step = h.step + 1 /\ q.src = h.src /\ q.slug = h.slug /\ q.ids = h.ids \cup R
      /\ q.refs = h.refs \cup { k \in ref : k[1] \in R }
      /\ q.names = h.names \cup { n \in named : n[1] \in R }
  BY CloneReadIs
<1>2. R = { r \in rows : r[2] = h.src /\ r[1] = t }  BY <1>1, ReadsAll
<1>3. UNCHANGED data  BY DEF CloneRead
<1> HIDE DEF h, q, R
<1>4. ReadSoFar(q) = ReadSoFar(h) \cup R
  <2>1. \A i : i \in 1 .. q.step - 1 <=> i \in 1 .. h.step - 1 \/ i = h.step
    BY <1>1
  <2>2. \A r : (\E i \in 1 .. q.step - 1 : r[1] = CloneScript[i])
                 <=> \/ \E i \in 1 .. h.step - 1 : r[1] = CloneScript[i]
                     \/ r[1] = t
    BY <2>1
  <2> HIDE DEF t
  <2>3. QED  BY <2>2, <1>1, <1>2 DEF ReadSoFar
<1>5. Mirror(h)  BY DEF h
<1>6. q.ids = {ProjectRow(q.src)} \cup ReadSoFar(q)  BY <1>1, <1>4, <1>5 DEF Mirror
<1>7. /\ q.refs = { k \in ref : k[1] \in ReadSoFar(q) }
      /\ q.names = { n \in named : n[1] \in ReadSoFar(q) }
  BY <1>1, <1>4, <1>5 DEF Mirror
<1>8. Mirror(q)  BY <1>1, <1>5, <1>6, <1>7 DEF Mirror
<1>9. UNCHANGED <<rows, ref, named, slug>> /\ q = req'[f]  BY <1>3 DEF data, q
<1>10. QED  BY <1>8, <1>9 DEF Mirror, ReadSoFar, SlugFree

\* Every step leaves a copy that is alone a mirror of its source.
LEMMA StepsMirror ==
    ASSUME DataOK, ReqOK, RowsOK, NEW f \in Flow, Step(f), Watch(f), NEW g \in Clones,
           req[g].pc = "reading" /\ g \notin disturbed => Mirror(req[g]),
           req'[g].pc = "reading", g \notin disturbed'
    PROVE  Mirror(req[g])'
<1>1. g \in Flow  BY ClonesApart
<1>2. Running(g)'  BY DEF Running
<1>3. g \notin disturbed /\ (g # f /\ Running(g) => data' = data)
  BY <1>1, <1>2 DEF Watch
<1>4. CASE g # f
  <2>1. req'[g] = req[g]  BY <1>1, <1>4, StepsOf
  <2>2. Running(g)  BY <2>1 DEF Running
  <2>3. UNCHANGED <<rows, ref, named, slug>>  BY <1>3, <1>4, <2>2 DEF data
  <2>4. Mirror(req[g])  BY <1>3, <2>1
  <2>5. QED  BY <2>1, <2>3, <2>4 DEF Mirror, ReadSoFar, SlugFree
<1>5. CASE g = f
  <2>1. CASE \E p : StartClone(f, p)
    <3>1. PICK p : StartClone(f, p)  BY <2>1
    <3> DEFINE q == req'[f]
    <3>2. /\ ActorActive /\ ProjectRow(p) \in rows
          /\ q.step = 1 /\ q.src = p /\ q.slug = CopySlug(p) /\ q.ids = {ProjectRow(p)}
          /\ q.refs = {} /\ q.names = {} /\ UNCHANGED data
      BY <3>1, <1>5, StartCloneIs
    <3> HIDE DEF q
    <3>3. p \in Project  BY <3>2, ProjectRows DEF DataOK
    <3>4. p \in DOMAIN slug  BY <3>2, <3>3 DEF DataOK, SlugsRight
    <3>5. SlugFree(q.slug)  BY <3>2, <3>4, CopySlugTyped
    <3>6. ReadSoFar(q) = {}  BY <3>2 DEF ReadSoFar
    <3>7. Mirror(q)  BY <3>2, <3>3, <3>5, <3>6 DEF Mirror, ActorActive
    <3>8. UNCHANGED <<rows, ref, named, slug>> /\ q = req'[g]  BY <3>2, <1>5 DEF data, q
    <3>9. QED  BY <3>7, <3>8 DEF Mirror, ReadSoFar, SlugFree
  <2>2. CASE CloneRead(f)
    <3>1. req[f].pc = "reading"  BY <2>2 DEF CloneRead
    <3>2. QED  BY <3>1, <2>2, <1>3, <1>5, ReadsMirror
  <2>3. QED  BY <2>1, <2>2, <1>5, StepsOf
<1>6. QED  BY <1>4, <1>5

\* The seed has all this.
LEMMA InitCopy == Init => CopyInv
<1> SUFFICES ASSUME Init PROVE CopyInv
  OBVIOUS
<1>1. /\ rows = SeedRows(SeedEntries, Org) /\ ref = SeedRefs(rows)
      /\ named = SeedNames(Org) /\ req = [f \in Flow |-> Quiet]
  BY ScriptEntries DEF Init, Baseline
<1>2. /\ \A r \in rows : /\ r[1] \in {"projects", "organisations", "users"} => r[3] = Org
                         /\ r[2] \in Seeded \cup {Org}
                         /\ \A t \in Required[r[1]] :
                               \E k \in ref : k[1] = r /\ k[2][1] = t
      /\ \A k \in ref : Declared(k)
  <2>1. rows \in SUBSET SeedRows(SeedEntries, Org)  BY <1>1
  <2>2. SeedEntries \in SUBSET SeedEntries /\ Org \in Writer  BY FlowWriters
  <2> HIDE DEF SeedEntries
  <2>3. /\ \A r \in rows : /\ r[1] \in {"projects", "organisations", "users"} => r[3] = Org
                           /\ r[2] \in Seeded \cup {Org}
                           /\ \A t \in Required[r[1]] :
                                 \E k \in SeedRefs(rows) : k[1] = r /\ k[2][1] = t
        /\ \A k \in SeedRefs(rows) : Declared(k)
    BY <2>1, <2>2, SeedWhole
  <2>4. QED  BY <2>3, <1>1
<1>3. \A n \in named : Naming(n)  BY <1>1 DEF SeedNames, SeedRow, Naming
<1>4. RowsOK  BY <1>2, <1>3 DEF RowsOK, Whole, SoleRows
<1>5. Quiet.pc = "idle"  BY DEF Quiet
<1>6. \A f \in Flow : Took(req[f])  BY <1>1, <1>5 DEF Took
<1>7. \A f \in Clones : Unborn(f)  BY <1>2, ClonesApart DEF Unborn
<1>8. \A f \in Clones : req[f].pc # "reading"  BY <1>1, <1>5, ClonesApart
<1>9. QED  BY <1>4, <1>6, <1>7, <1>8, InitOK DEF CopyInv

\* And every step keeps it.
LEMMA CopyInvKept == Spec => []CopyInv
<1>1. CopyInv /\ [Next]_vars => CopyInv'
  <2> SUFFICES ASSUME CopyInv, [Next]_vars PROVE CopyInv'
    OBVIOUS
  <2>1. DataOK /\ ReqOK /\ disturbed \subseteq Flow  BY Parts DEF CopyInv
  <2>2. CASE UNCHANGED vars
    <3>1. UNCHANGED <<rows, ref, named, slug, req, disturbed>>  BY <2>2 DEF vars
    <3>2. IInv'
      <4>1. DataOK'  BY <2>1, <3>1, SameData DEF data
      <4>2. ReqOK' /\ (disturbed \subseteq Flow)'  BY <2>1, <3>1 DEF ReqOK
      <4>3. QED  BY <4>1, <4>2, Parts, PTL
    <3>3. RowsOK'  BY <3>1, SameRows DEF data, CopyInv
    <3>4. (\A f \in Flow : Took(req[f]))'  BY <3>1 DEF CopyInv
    <3>5. (\A f \in Clones : Unborn(f))'  BY <3>1 DEF CopyInv, Unborn
    <3>6. (\A f \in Clones : req[f].pc = "reading" /\ f \notin disturbed => Mirror(req[f]))'
      <4>1. \A f \in Clones : req[f].pc = "reading" /\ f \notin disturbed => Mirror(req[f])
        BY DEF CopyInv
      <4>2. QED  BY <4>1, <3>1 DEF Mirror, ReadSoFar, SlugFree
    <3>7. QED  BY <3>2, <3>3, <3>4, <3>5, <3>6 DEF CopyInv
  <2>3. CASE Next
    <3>1. PICK f \in Flow : Step(f) /\ Watch(f)  BY <2>3 DEF Next
    <3>2. RowsOK /\ \A g \in Flow : Took(req[g])  BY DEF CopyInv
    <3>3. DataOK' /\ ReqOK'  BY <2>1, <3>1, Steps
    <3>4. (disturbed \subseteq Flow)'  BY <3>1 DEF Watch
    <3>5. IInv'  BY <3>3, <3>4, Parts, PTL
    <3>6. RowsOK' /\ NewIn(f)  BY <2>1, <3>1, <3>2, StepsWhole
    <3>7. (\A g \in Flow : Took(req[g]))'  BY <2>1, <3>1, <3>2, StepsTook
    <3>8. (\A g \in Clones : Unborn(g))'
      <4>1. \A g \in Clones : Unborn(g)  BY DEF CopyInv
      <4>2. QED  BY <4>1, <2>1, <3>1, <3>6, StepsUnborn
    <3>9. (\A g \in Clones : req[g].pc = "reading" /\ g \notin disturbed => Mirror(req[g]))'
      <4>1. \A g \in Clones : req[g].pc = "reading" /\ g \notin disturbed => Mirror(req[g])
        BY DEF CopyInv
      <4>2. ASSUME NEW g \in Clones, req'[g].pc = "reading", g \notin disturbed'
            PROVE  Mirror(req[g])'
        BY <4>1, <4>2, <2>1, <3>1, <3>2, StepsMirror
      <4>3. QED  BY <4>2
    <3>10. QED  BY <3>5, <3>6, <3>7, <3>8, <3>9 DEF CopyInv
  <2>4. QED  BY <2>2, <2>3
<1>2. QED  BY <1>1, InitCopy, PTL DEF Spec

\* What a copy that is alone has read when it has read everything: every parent of a
\* row it has read, but for defects.
LEMMA AllRead ==
    ASSUME CopyInv, NEW f \in Clones, CloneCommit(f), f \notin disturbed
    PROVE  LET q == req[f]
           IN  /\ Mirror(q) /\ ReadSoFar(q) = Content(q.src)
               /\ \A k \in ref :
                     k[1] \in Content(q.src) =>
                        \/ k[2][2] = Org
                        \/ k[2] \in q.ids
                        \/ k[2][1] = "defects" /\ Rule(k) = "setNull"
<1> DEFINE q == req[f]
<1>1. /\ q.pc = "reading" /\ Mirror(q) /\ RowsOK /\ DataOK /\ Stage(f, q)
      /\ q.step > Len(CloneScript)
  BY ClonesApart, Parts DEF CopyInv, CloneCommit, ReqOK
<1>2. q.step - 1 = 12  BY <1>1, CloneLength DEF Stage
<1> HIDE DEF q
<1>3. ReadSoFar(q) = Content(q.src)
  <2>1. \A t : (\E i \in 1 .. q.step - 1 : t = CloneScript[i]) <=> t \in Range(CloneScript)
    <3>1. DOMAIN CloneScript = 1 .. 12  BY DEF CloneScript
    <3>2. QED  BY <3>1, <1>2 DEF Range
  <2>2. QED  BY <2>1 DEF ReadSoFar, Content
<1>4. ASSUME NEW k \in ref, k[1] \in Content(q.src), k[2][2] # Org
      PROVE  k[2] \in q.ids \/ (k[2][1] = "defects" /\ Rule(k) = "setNull")
  <2>1. k[1] \in rows /\ k[2] \in rows /\ k[1] \in Row /\ k[2] \in Row
    BY <1>1 DEF DataOK
  <2>2. /\ k[1][1] \in Table /\ k[2][1] \in Table
        /\ k[2] = <<k[2][1], k[2][2], k[2][3]>>
    BY <2>1, RowForm
  <2>3. k[1][1] \in Copied /\ k[1][2] = q.src  BY <1>4, CloneOrder DEF Content
  <2>4. k[2][2] = q.src
    <3>1. k[2][2] \in {Org, k[1][2]}  BY <1>1 DEF DataOK, ProjectsApart
    <3>2. QED  BY <3>1, <2>3, <1>4
  <2> DEFINE j == <<k[1][1], k[2][1], Rule(k)>>
  <2>5. j \in Keys  BY <1>1, <2>2, RuleOfRequired DEF RowsOK, Declared, Rule
  <2>6. KeyFacts(j) /\ j[1] = k[1][1] /\ j[2] = k[2][1] /\ j[3] = Rule(k)
    BY <2>5, EveryKey
  <2> HIDE DEF j
  <2>7. \/ k[2][1] \in Copied \/ k[2][1] = "projects" \/ k[2][1] = "users"
        \/ k[2][1] = "defects" /\ Rule(k) = "setNull"
    BY <2>3, <2>6 DEF KeyFacts
  <2>8. CASE k[2][1] \in Copied
    <3>1. k[2] \in Content(q.src)  BY <2>1, <2>4, <2>8, CloneOrder DEF Content
    <3>2. QED  BY <3>1, <1>1, <1>3 DEF Mirror
  <2>9. CASE k[2][1] = "projects"
    <3>1. k[2][3] = Org  BY <2>1, <2>9, <1>1 DEF RowsOK, SoleRows
    <3>2. k[2] = ProjectRow(q.src)  BY <3>1, <2>2, <2>4, <2>9 DEF ProjectRow
    <3>3. QED  BY <3>2, <1>1 DEF Mirror
  <2>10. k[2][1] # "users"
    <3>1. "users" \in OrgTable  BY DEF OrgTable
    <3>2. QED  BY <3>1, <2>1, <1>4, <1>1 DEF DataOK, OrgRows
  <2>11. QED  BY <2>7, <2>8, <2>9, <2>10
<1>5. QED  BY <1>1, <1>3, <1>4 DEF q

\* Its commit then succeeds, and writes a copy of everything.
LEMMA CommitCopiesAll ==
    ASSUME CopyInv, NEW f \in Clones, CloneCommit(f), f \notin disturbed
    PROVE  LET p == req[f].src
           IN  /\ req'[f].pc = "done"
               /\ Content(f)' = { Copy(r, f) : r \in Content(p) }
               /\ KeysOf(f)' = { CopyOf(k, f) : k \in KeysOf(p) }
               /\ { n \in named' : n[1][2] = f }
                    = { NameCopy(n, f, p) : n \in { n \in named : n[1][2] = p } }
<1> DEFINE q == req[f]
           p == q.src
           R == CopyRows(q, f)
           N == NewProjectRefs(f)
           G == CopyRefs(q, f)
           C == Content(p)
<1>1. /\ Mirror(q) /\ ReadSoFar(q) = C
      /\ \A k \in ref :
            k[1] \in C => \/ k[2][2] = Org
                          \/ k[2] \in q.ids
                          \/ k[2][1] = "defects" /\ Rule(k) = "setNull"
  BY AllRead
<1>2. /\ RowsOK /\ DataOK /\ ReqOK /\ q.pc = "reading" /\ Unborn(f) /\ f \in Flow
      /\ f \in Project
  BY ClonesApart, Parts, FlowWriters DEF CopyInv, CloneCommit
<1>3. /\ p \in Project /\ p # Org /\ p # f
      /\ ProjectRow(p) \in rows /\ Users \in rows /\ SlugFree(q.slug)
      /\ q.ids = {ProjectRow(p)} \cup C
      /\ q.refs = { k \in ref : k[1] \in C }
      /\ q.names = { n \in named : n[1] \in C }
      /\ \A r \in rows : r[2] # f
  <2>1. ProjectRow(p)[2] = p  BY DEF ProjectRow
  <2> HIDE DEF C
  <2>2. QED  BY <2>1, <1>1, <1>2, OrgIsNoProject DEF Mirror, Unborn
<1>4. \A r, g : Copy(r, g)[1] = r[1] /\ Copy(r, g)[2] = g /\ Copy(r, g)[3] = r[3]
  BY DEF Copy
<1>5. /\ R = { <<"roles", f, f>>, <<"counters", f, Org>> } \cup { Copy(r, f) : r \in q.ids }
      /\ N = { <<ProjectRow(f), Organisation>>, <<ProjectRow(f), Users>>,
               <<<<"roles", f, f>>, ProjectRow(f)>>, <<<<"roles", f, f>>, Users>> }
      /\ G = { <<Copy(k[1], f), IF k[2][2] = Org THEN k[2] ELSE Copy(k[2], f)>> :
                 k \in { k \in q.refs : k[2][2] = Org \/ k[2] \in q.ids } }
  BY DEF CopyRows, NewProjectRefs, CopyRefs
<1>6. \A r \in C : r \in rows /\ r[2] = p /\ r[1] \in Copied
  BY CloneOrder DEF Content
<1>7. Remappable(q)
  <2> SUFFICES ASSUME NEW k \in q.refs, Rule(k) # "setNull", k[2][2] # Org
               PROVE  k[2] \in q.ids
    BY DEF Remappable
  <2>1. k \in ref /\ k[1] \in C  BY <1>3
  <2>2. QED  BY <2>1, <1>1
<1>8. Organisation \in rows
  <2>1. Users[1] = "users"  BY DEF Users
  <2>2. "organisations" \in Required[Users[1]]  BY <2>1, NewProjectKeys
  <2>3. PICK k \in ref : k[1] = Users /\ k[2][1] = "organisations"
    BY <2>2, <1>2, <1>3 DEF RowsOK, Whole
  <2>4. k[2] \in rows /\ k[2] \in Row  BY <1>2 DEF DataOK
  <2>5. k[2] = <<k[2][1], k[2][2], k[2][3]>>  BY <2>4, RowForm
  <2>6. k[2][2] = Org  BY <2>3, <2>4, <1>2 DEF DataOK, OrgRows, OrgTable
  <2>7. k[2][3] = Org  BY <2>3, <2>4, <1>2 DEF RowsOK, SoleRows
  <2>8. k[2] = Organisation  BY <2>3, <2>5, <2>6, <2>7 DEF Organisation
  <2>9. QED  BY <2>4, <2>8
<1>9. ProjectRow(f) \in R /\ <<"roles", f, f>> \in R
  <2>1. Copy(ProjectRow(p), f) = ProjectRow(f)  BY DEF Copy, ProjectRow
  <2>2. ProjectRow(p) \in q.ids  BY <1>3
  <2> HIDE DEF R, q, p
  <2>3. QED  BY <2>1, <2>2, <1>5
<1> HIDE DEF q, p, R, N, G, C
<1>10. Fits(R, N \cup G)
  <2>1. R \cap rows = {}
    <3>1. \A r \in R : r[2] = f  BY <1>4, <1>5
    <3>2. QED  BY <3>1, <1>3
  <2>2. ASSUME NEW k \in N PROVE k[2] \in rows \cup R
    BY <1>3, <1>5, <1>8, <1>9
  <2>3. ASSUME NEW k \in G PROVE k[2] \in rows \cup R
    <3>1. PICK j \in q.refs :
             /\ j[2][2] = Org \/ j[2] \in q.ids
             /\ k = <<Copy(j[1], f), IF j[2][2] = Org THEN j[2] ELSE Copy(j[2], f)>>
      BY <1>5
    <3>2. j \in ref /\ j[2] \in rows  BY <1>2, <1>3 DEF DataOK
    <3>3. CASE j[2][2] = Org  BY <3>1, <3>2, <3>3
    <3>4. CASE j[2][2] # Org
      <4>1. k[2] = Copy(j[2], f) /\ j[2] \in q.ids  BY <3>1, <3>4
      <4>2. QED  BY <4>1, <1>5
    <3>5. QED  BY <3>3, <3>4
  <2>4. QED  BY <2>1, <2>2, <2>3 DEF Fits
<1>11. /\ Insert(R, N \cup G) /\ named' = named \cup CopyNames(q, f) /\ Answer(f, "done")
  BY <1>3, <1>7, <1>10 DEF CloneCommit, q, R, N, G
<1>12. rows' = rows \cup R /\ ref' = ref \cup N \cup G  BY <1>11 DEF Insert
<1>13. req'[f].pc = "done"  BY <1>2, <1>11 DEF Answer, ReqOK, Quiet
<1>14. Content(f)' = { Copy(r, f) : r \in C }
  <2>1. \A r : r \in Content(f)' <=> r \in rows \cup R /\ r[2] = f /\ r[1] \in Copied
    BY <1>12, CloneOrder DEF Content
  <2>2. ASSUME NEW r \in Content(f)' PROVE \E x \in C : r = Copy(x, f)
    <3>1. r \in R /\ r[1] \in Copied  BY <2>1, <1>3
    <3>2. r # <<"roles", f, f>> /\ r # <<"counters", f, Org>>  BY <3>1 DEF Copied
    <3>3. PICK x \in q.ids : r = Copy(x, f)  BY <3>1, <3>2, <1>5
    <3>4. x # ProjectRow(p)
      <4>1. ProjectRow(p)[1] = "projects"  BY DEF ProjectRow
      <4>2. QED  BY <4>1, <3>1, <3>3, <1>4, CloneOrder
    <3>5. QED  BY <3>3, <3>4, <1>3
  <2>3. ASSUME NEW x \in C PROVE Copy(x, f) \in Content(f)'
    <3>1. Copy(x, f) \in R  BY <1>3, <1>5
    <3>2. QED  BY <3>1, <2>1, <1>4, <1>6
  <2>4. QED  BY <2>2, <2>3
<1>15. KeysOf(f)' = { CopyOf(k, f) : k \in KeysOf(p) }
  <2>1. \A k : k \in KeysOf(f)' <=>
                  k \in ref' /\ (\E x \in C : k[1] = Copy(x, f)) /\ k[2][1] # "defects"
    BY <1>14 DEF KeysOf
  <2>2. \A k : k \in KeysOf(p) <=> k \in ref /\ k[1] \in C /\ k[2][1] # "defects"
    BY DEF KeysOf, C
  <2>3. ASSUME NEW k \in KeysOf(f)' PROVE \E j \in KeysOf(p) : k = CopyOf(j, f)
    <3>1. PICK x \in C : k[1] = Copy(x, f)  BY <2>3, <2>1
    <3>2. k[1][2] = f /\ k[1][1] \in Copied /\ k[2][1] # "defects"
      BY <3>1, <2>1, <2>3, <1>4, <1>6
    <3>3. k \notin ref  BY <3>2, <1>2, <1>3 DEF DataOK
    <3>4. k \notin N
      <4>1. \A j \in N : j[1][1] \in {"projects", "roles"}  BY <1>5 DEF ProjectRow
      <4>2. QED  BY <4>1, <3>2 DEF Copied
    <3>5. k \in G  BY <3>3, <3>4, <1>12, <2>1, <2>3
    <3>6. PICK j \in q.refs :
             k = <<Copy(j[1], f), IF j[2][2] = Org THEN j[2] ELSE Copy(j[2], f)>>
      BY <3>5, <1>5
    <3>7. j[2][1] = k[2][1]  BY <3>6, <1>4
    <3>8. j \in KeysOf(p)  BY <3>2, <3>7, <2>2, <1>3
    <3>9. QED  BY <3>6, <3>8 DEF CopyOf
  <2>4. ASSUME NEW j \in KeysOf(p) PROVE CopyOf(j, f) \in KeysOf(f)'
    <3>1. j \in ref /\ j[1] \in C /\ j[2][1] # "defects"  BY <2>2
    <3>2. j \in q.refs /\ (j[2][2] = Org \/ j[2] \in q.ids)  BY <3>1, <1>1, <1>3
    <3>3. CopyOf(j, f) \in G  BY <3>2, <1>5 DEF CopyOf
    <3>4. CopyOf(j, f)[1] = Copy(j[1], f) /\ CopyOf(j, f)[2][1] = j[2][1]
      BY <1>4 DEF CopyOf
    <3>5. CopyOf(j, f) \in ref'  BY <3>3, <1>12
    <3>6. QED  BY <3>1, <3>4, <3>5, <2>1
  <2>5. QED  BY <2>3, <2>4
<1>16. { n \in named' : n[1][2] = f }
         = { NameCopy(n, f, p) : n \in { n \in named : n[1][2] = p } }
  <2>1. \A n \in named : n[1] \in rows /\ n[1][1] \in Copied
    BY <1>2 DEF DataOK, RowsOK, Naming, Copied
  <2>2. \A n : n \in q.names <=> n \in named /\ n[1][2] = p
    BY <2>1, <1>3, CloneOrder DEF C, Content
  <2>3. \A n \in named : n \in Row \X Row  BY <1>2 DEF DataOK
  <2>4. \A n \in q.names :
           (IF n[2] \in q.ids THEN Copy(n[2], f) ELSE n[2])
              = (IF n[2] \in C THEN Copy(n[2], f) ELSE n[2])
    <3>1. ProjectRow(p)[1] = "projects"  BY DEF ProjectRow
    <3>2. \A n \in q.names : n[2][1] = "cases"  BY <1>2, <1>3 DEF RowsOK, Naming
    <3>3. QED  BY <3>1, <3>2, <1>3
  <2>5. CopyNames(q, f) = { NameCopy(n, f, p) : n \in q.names }
    BY <2>4 DEF CopyNames, NameCopy, C
  <2>6. \A n \in CopyNames(q, f) : n[1][2] = f
    BY <1>4 DEF CopyNames
  <2>7. \A n \in named : n[1][2] # f  BY <2>1, <1>3
  <2>8. { n \in named' : n[1][2] = f } = CopyNames(q, f)  BY <2>6, <2>7, <1>11
  <2>9. QED  BY <2>2, <2>5, <2>8
<1>17. QED  BY <1>13, <1>14, <1>15, <1>16 DEF q, p, C

\* A copy made while nobody wrote succeeds and is complete: whatever is in the source
\* is in the copy, refers to the copies of what it referred to, and its plans name the
\* copies of their cases.
THEOREM AloneCopiesComplete == Spec => AloneCopiesAll
<1>1. CopyInv /\ [Next]_vars =>
        [ \A f \in Clones :
            LET p == req[f].src IN
            req[f].pc = "reading" /\ ~Running(f)' /\ f \notin disturbed =>
              /\ req'[f].pc = "done"
              /\ Content(f)' = { Copy(r, f) : r \in Content(p) }
              /\ KeysOf(f)' = { CopyOf(k, f) : k \in KeysOf(p) }
              /\ { n \in named' : n[1][2] = f }
                   = { NameCopy(n, f, p) : n \in { n \in named : n[1][2] = p } }
        ]_vars
  <2> SUFFICES ASSUME CopyInv, Next, NEW f \in Clones,
                      req[f].pc = "reading", ~Running(f)', f \notin disturbed
               PROVE  CloneCommit(f)
    BY CommitCopiesAll
  <2>1. PICK g \in Flow : Step(g)  BY DEF Next
  <2>2. ReqOK /\ f \in Flow  BY Parts, ClonesApart DEF CopyInv
  <2>3. g = f
    <3>1. g # f => req'[f] = req[f]  BY <2>1, <2>2, StepsOf
    <3>2. QED  BY <3>1 DEF Running
  <2>4. ~CloneRead(f)
    <3>1. CloneRead(f) => req'[f].pc = "reading"  BY <2>2, CloneReadIs
    <3>2. QED  BY <3>1 DEF Running
  <2>5. QED
    BY <2>1, <2>3, <2>4
       DEF Step, StartReset, ClearRead, ClearDelete, Cleared, FillNext, StartClone,
           StartCreate, InsertProject, Edit
<1>2. QED  BY <1>1, CopyInvKept, PTL DEF Spec, AloneCopiesAll

-----------------------------------------------------------------------------
(* Workspace: a reset restores the seed *)

\* The tables whose rows must refer to others, and for each one it must refer to.
Hanging == {"users", "projects", "roleDefs", "apiKeys", "roles", "folders", "cases",
            "requirements", "defects", "plans", "runs", "steps", "caseRequirements",
            "planCases", "runCases", "assignees", "snapshots", "stepResults", "events",
            "defectLinks", "execComments"}
Above(t) ==
    IF t \in {"users", "projects", "roleDefs", "apiKeys"} THEN "organisations"
    ELSE IF t \in {"roles", "folders", "cases", "requirements", "defects", "plans", "runs"}
    THEN "projects"
    ELSE IF t \in {"steps", "caseRequirements"} THEN "cases"
    ELSE IF t = "planCases" THEN "plans"
    ELSE IF t \in {"runCases", "assignees"} THEN "runs"
    ELSE "runCases"

\* Each of these must refer to what is above it, and only the organisation, numbers and
\* the audit log need no other row.
LEMMA AboveRequired ==
    /\ \A t \in Hanging : t \in Table /\ Above(t) \in Required[t]
    /\ \A t \in Table : t \in Hanging \cup {"organisations", "counters", "audit"}
<1>1. \A t \in Table : t \in Hanging \cup {"organisations", "counters", "audit"}
  <2>1. \A k \in OrganisationKeys \cup ProjectKeys \cup CaseKeys \cup RequirementKeys
              \cup DefectKeys \cup PlanKeys : k[1] \in Hanging
    BY DEF OrganisationKeys, ProjectKeys, CaseKeys, RequirementKeys, DefectKeys, PlanKeys,
           Hanging
  <2>2. \A k \in RunKeys \cup RunCaseKeys \cup SnapshotKeys \cup EventKeys \cup LinkKeys
              \cup AdminKeys : k[1] \in Hanging
    BY DEF RunKeys, RunCaseKeys, SnapshotKeys, EventKeys, LinkKeys, AdminKeys, Hanging
  <2>3. \A k \in AuditKeys : k[1] = "audit"  BY DEF AuditKeys
  <2>4. \A k \in Keys : k[1] \in Hanging \cup {"audit"}  BY <2>1, <2>2, <2>3 DEF Keys
  <2>5. QED  BY <2>4 DEF Table
<1>2. \A t \in Hanging : t \in Table  BY Tables DEF Hanging, OrgTable
<1> DEFINE Chain == {
        <<"users", "organisations", "restrict">>, <<"projects", "organisations", "restrict">>,
        <<"roleDefs", "organisations", "cascade">>, <<"apiKeys", "organisations", "cascade">>,
        <<"roles", "projects", "cascade">>, <<"folders", "projects", "cascade">>,
        <<"cases", "projects", "restrict">>, <<"requirements", "projects", "restrict">>,
        <<"defects", "projects", "restrict">>, <<"plans", "projects", "restrict">>,
        <<"runs", "projects", "restrict">>, <<"steps", "cases", "cascade">>,
        <<"caseRequirements", "cases", "cascade">>, <<"planCases", "plans", "cascade">>,
        <<"runCases", "runs", "cascade">>, <<"assignees", "runs", "cascade">>,
        <<"snapshots", "runCases", "cascade">>, <<"stepResults", "runCases", "cascade">>,
        <<"events", "runCases", "cascade">>, <<"defectLinks", "runCases", "cascade">>,
        <<"execComments", "runCases", "cascade">>}
<1>3. \A k \in Chain : k \in Keys
  <2>1. \A k \in Chain :
           \/ k \in OrganisationKeys \/ k \in ProjectKeys \/ k \in CaseKeys
           \/ k \in RequirementKeys \/ k \in DefectKeys \/ k \in PlanKeys \/ k \in RunKeys
           \/ k \in RunCaseKeys \/ k \in SnapshotKeys \/ k \in EventKeys
           \/ k \in LinkKeys \/ k \in AdminKeys
    BY DEF OrganisationKeys, ProjectKeys, CaseKeys, RequirementKeys, DefectKeys, PlanKeys,
           RunKeys, RunCaseKeys, SnapshotKeys, EventKeys, LinkKeys, AdminKeys
  <2> HIDE DEF Chain
  <2>2. QED  BY <2>1 DEF Keys
<1>4. \A k \in Chain : Above(k[1]) = k[2] /\ k[3] # "setNull"  BY DEF Above
<1>5. \A t \in Hanging : \E k \in Chain : k[1] = t  BY DEF Hanging
<1> HIDE DEF Chain
<1>6. \A t \in Hanging : Above(t) \in Required[t]
  BY <1>2, <1>3, <1>4, <1>5 DEF Required
<1>7. QED  BY <1>1, <1>2, <1>6

\* The tables a clearing may leave rows of, until the rows these refer to go.
Spared == {"audit", "counters", "roleDefs", "apiKeys"}

\* What is deleted has been read, or is found by what has; and what would refuse the
\* delete has gone before, but for requirements and defects.
ClearFacts(i) ==
    LET t == ClearScript[i][2]
        by == ClearScript[i][3]
        Before(what, u) == \E j \in 1 .. i - 1 : ClearScript[j][1] = what /\ ClearScript[j][2] = u
    IN  /\ ClearScript[i][1] \in {"read", "delete"}
        /\ \/ t \in {"organisations", "audit", "counters"}
           \/ t \in Hanging /\ by = t /\ Before("read", t)
           \/ t \in Hanging /\ by = Above(t) /\ Before("read", by)
        /\ ClearScript[i][1] = "delete" /\ t \in {"organisations", "projects", "cases"} =>
              \A u : <<u, t>> \in Restricted =>
                        u \in {"requirements", "defects"} \/ Before("delete", u)

ClearList ==
  /\ ClearScript[1] = <<"read", "organisations", "organisations">>
  /\ ClearScript[2] = <<"read", "projects", "organisations">>
  /\ ClearScript[3] = <<"read", "runs", "projects">>
  /\ ClearScript[4] = <<"read", "runCases", "runs">>
  /\ ClearScript[5] = <<"delete", "execComments", "runCases">>
  /\ ClearScript[6] = <<"delete", "defectLinks", "runCases">>
  /\ ClearScript[7] = <<"delete", "stepResults", "runCases">>
  /\ ClearScript[8] = <<"delete", "snapshots", "runCases">>
  /\ ClearScript[9] = <<"delete", "runCases", "runCases">>
  /\ ClearScript[10] = <<"delete", "assignees", "runs">>
  /\ ClearScript[11] = <<"delete", "runs", "runs">>
  /\ ClearScript[12] = <<"read", "plans", "projects">>
  /\ ClearScript[13] = <<"delete", "planCases", "plans">>
  /\ ClearScript[14] = <<"delete", "plans", "plans">>
  /\ ClearScript[15] = <<"read", "cases", "projects">>
  /\ ClearScript[16] = <<"delete", "steps", "cases">>
  /\ ClearScript[17] = <<"delete", "cases", "cases">>
  /\ ClearScript[18] = <<"delete", "folders", "projects">>
  /\ ClearScript[19] = <<"delete", "roles", "projects">>
  /\ ClearScript[20] = <<"delete", "audit", "organisations">>
  /\ ClearScript[21] = <<"delete", "counters", "projects">>
  /\ ClearScript[22] = <<"delete", "projects", "projects">>
  /\ ClearScript[23] = <<"delete", "apiKeys", "organisations">>
  /\ ClearScript[24] = <<"delete", "roleDefs", "organisations">>
  /\ ClearScript[25] = <<"delete", "users", "organisations">>
  /\ ClearScript[26] = <<"delete", "organisations", "organisations">>

\* The statements, one by one.
LEMMA ClearIs == ClearList
BY DEF ClearScript, ClearList

\* The order of the statements is right.
LEMMA ClearOrder == \A i \in 1 .. 26 : ClearFacts(i)
<1> DEFINE Done(i, what, u) ==
             \E j \in 1 .. i - 1 : ClearScript[j][1] = what /\ ClearScript[j][2] = u
<1>1. \A i \in 1 .. 26 : i \in {1, 2, 3, 4, 5, 6, 7, 8, 9, 10, 11, 12, 13} \cup
                               {14, 15, 16, 17, 18, 19, 20, 21, 22, 23, 24, 25, 26}
  OBVIOUS
<1>2. \A i \in 1 .. 26 : /\ i > 1 => Done(i, "read", "organisations")
                         /\ i > 2 => Done(i, "read", "projects")
                         /\ i > 3 => Done(i, "read", "runs")
                         /\ i > 4 => Done(i, "read", "runCases")
                         /\ i > 12 => Done(i, "read", "plans")
                         /\ i > 15 => Done(i, "read", "cases")
  <2> SUFFICES ASSUME NEW i \in 1 .. 26
               PROVE  /\ i > 1 => Done(i, "read", "organisations")
                      /\ i > 2 => Done(i, "read", "projects")
                      /\ i > 3 => Done(i, "read", "runs")
                      /\ i > 4 => Done(i, "read", "runCases")
                      /\ i > 12 => Done(i, "read", "plans")
                      /\ i > 15 => Done(i, "read", "cases")
    OBVIOUS
  <2>1. /\ ClearScript[1][1] = "read" /\ ClearScript[1][2] = "organisations"
        /\ ClearScript[2][1] = "read" /\ ClearScript[2][2] = "projects"
        /\ ClearScript[3][1] = "read" /\ ClearScript[3][2] = "runs"
        /\ ClearScript[4][1] = "read" /\ ClearScript[4][2] = "runCases"
        /\ ClearScript[12][1] = "read" /\ ClearScript[12][2] = "plans"
        /\ ClearScript[15][1] = "read" /\ ClearScript[15][2] = "cases"
    BY ClearIs DEF ClearList
  <2>2. \A j \in {1, 2, 3, 4, 12, 15} : i > j => j \in 1 .. i - 1  OBVIOUS
  <2>3. QED  BY <2>1, <2>2
<1>3. \A i \in 1 .. 26 : /\ i > 9 => Done(i, "delete", "runCases")
                         /\ i > 11 => Done(i, "delete", "runs")
                         /\ i > 13 => Done(i, "delete", "planCases")
                         /\ i > 14 => Done(i, "delete", "plans")
                         /\ i > 17 => Done(i, "delete", "cases")
                         /\ i > 22 => Done(i, "delete", "projects")
                         /\ i > 25 => Done(i, "delete", "users")
  <2> SUFFICES ASSUME NEW i \in 1 .. 26
               PROVE  /\ i > 9 => Done(i, "delete", "runCases")
                      /\ i > 11 => Done(i, "delete", "runs")
                      /\ i > 13 => Done(i, "delete", "planCases")
                      /\ i > 14 => Done(i, "delete", "plans")
                      /\ i > 17 => Done(i, "delete", "cases")
                      /\ i > 22 => Done(i, "delete", "projects")
                      /\ i > 25 => Done(i, "delete", "users")
    OBVIOUS
  <2>1. /\ ClearScript[9][1] = "delete" /\ ClearScript[9][2] = "runCases"
        /\ ClearScript[11][1] = "delete" /\ ClearScript[11][2] = "runs"
        /\ ClearScript[13][1] = "delete" /\ ClearScript[13][2] = "planCases"
        /\ ClearScript[14][1] = "delete" /\ ClearScript[14][2] = "plans"
        /\ ClearScript[17][1] = "delete" /\ ClearScript[17][2] = "cases"
        /\ ClearScript[22][1] = "delete" /\ ClearScript[22][2] = "projects"
        /\ ClearScript[25][1] = "delete" /\ ClearScript[25][2] = "users"
    BY ClearIs DEF ClearList
  <2>2. \A j \in {9, 11, 13, 14, 17, 22, 25} : i > j => j \in 1 .. i - 1  OBVIOUS
  <2>3. QED  BY <2>1, <2>2
<1>4. \A i : ClearFacts(i) <=>
        /\ ClearScript[i][1] \in {"read", "delete"}
        /\ \/ ClearScript[i][2] \in {"organisations", "audit", "counters"}
           \/ /\ ClearScript[i][2] \in Hanging /\ ClearScript[i][3] = ClearScript[i][2]
              /\ Done(i, "read", ClearScript[i][2])
           \/ /\ ClearScript[i][2] \in Hanging /\ ClearScript[i][3] = Above(ClearScript[i][2])
              /\ Done(i, "read", ClearScript[i][3])
        /\ (ClearScript[i][1] = "delete"
              /\ ClearScript[i][2] \in {"organisations", "projects", "cases"})
            => \A u : <<u, ClearScript[i][2]>> \in Restricted
                        => u \in {"requirements", "defects"} \/ Done(i, "delete", u)
  BY DEF ClearFacts
<1> HIDE DEF Done
<1>5. \A i \in {1, 2, 3, 4, 5, 6, 7, 8, 9, 10, 11, 12, 13} : ClearFacts(i)
  BY <1>2, <1>4, ClearIs DEF ClearList, Hanging, Above
<1>6. \A i \in {14, 15, 16, 18, 19, 20, 21, 23, 24, 25} : ClearFacts(i)
  BY <1>2, <1>4, ClearIs DEF ClearList, Hanging, Above
<1>7. \A u :
         /\ <<u, "cases">> \in Restricted => u \in {"planCases", "runCases"}
         /\ <<u, "projects">> \in Restricted
               => u \in {"cases", "requirements", "defects", "plans", "runs"}
         /\ <<u, "organisations">> \in Restricted => u \in {"users", "projects"}
  BY DEF Restricted
<1>8. ClearFacts(17)
  <2>1. /\ ClearScript[17][1] = "delete" /\ ClearScript[17][2] = "cases"
        /\ ClearScript[17][3] = "cases" /\ "cases" \in Hanging
    BY ClearIs DEF ClearList, Hanging
  <2>2. 17 \in 1 .. 26  OBVIOUS
  <2>3. /\ Done(17, "read", "cases") /\ Done(17, "delete", "planCases")
        /\ Done(17, "delete", "runCases")
    BY <2>2, <1>2, <1>3
  <2>4. QED  BY <2>1, <2>3, <1>4, <1>7
<1>9. ClearFacts(22)
  <2>1. /\ ClearScript[22][1] = "delete" /\ ClearScript[22][2] = "projects"
        /\ ClearScript[22][3] = "projects" /\ "projects" \in Hanging
    BY ClearIs DEF ClearList, Hanging
  <2>2. 22 \in 1 .. 26  OBVIOUS
  <2>3. /\ Done(22, "read", "projects") /\ Done(22, "delete", "cases")
        /\ Done(22, "delete", "plans") /\ Done(22, "delete", "runs")
    BY <2>2, <1>2, <1>3
  <2>4. QED  BY <2>1, <2>3, <1>4, <1>7
<1>10. ClearFacts(26)
  <2>1. /\ ClearScript[26][1] = "delete" /\ ClearScript[26][2] = "organisations"
    BY ClearIs DEF ClearList
  <2>2. 26 \in 1 .. 26  OBVIOUS
  <2>3. Done(26, "delete", "projects") /\ Done(26, "delete", "users")
    BY <2>2, <1>3
  <2>4. QED  BY <2>1, <2>3, <1>4, <1>7
<1>11. QED  BY <1>1, <1>5, <1>6, <1>8, <1>9, <1>10

\* The places of some statements.
LEMMA ClearPlaces ==
    /\ \A i \in 1 .. 26 : ClearScript[i][1] = "read" <=> i \in {1, 2, 3, 4, 12, 15}
    /\ \A i \in 1 .. 26 : ClearScript[i][1] \in {"read", "delete"}
    /\ \A i \in 1 .. 26 :
          /\ ClearScript[i][2] = "organisations" => i = 1 \/ i = 26
          /\ ClearScript[i][2] = "projects" => i = 2 \/ i = 22
          /\ ClearScript[i][2] = "users" <=> i = 25
          /\ ClearScript[i][2] = "audit" <=> i = 20
          /\ ClearScript[i][2] = "counters" <=> i = 21
<1>1. \A i \in 1 .. 26 : i \in {1, 2, 3, 4, 5, 6, 7, 8, 9, 10, 11, 12, 13} \cup
                               {14, 15, 16, 17, 18, 19, 20, 21, 22, 23, 24, 25, 26}
  OBVIOUS
<1>2. \A i \in 1 .. 26 : /\ ClearScript[i][1] = "read" <=> i \in {1, 2, 3, 4, 12, 15}
                         /\ ClearScript[i][1] \in {"read", "delete"}
  BY <1>1, ClearIs DEF ClearList
<1>3. \A i \in 1 .. 26 :
          /\ ClearScript[i][2] = "organisations" => i = 1 \/ i = 26
          /\ ClearScript[i][2] = "projects" => i = 2 \/ i = 22
          /\ ClearScript[i][2] = "users" <=> i = 25
          /\ ClearScript[i][2] = "audit" <=> i = 20
          /\ ClearScript[i][2] = "counters" <=> i = 21
  BY <1>1, ClearIs DEF ClearList
<1>4. QED  BY <1>2, <1>3

\* A row that must refer to another does, and so there is one above it.
LEMMA Climbs ==
    ASSUME DataOK, RowsOK, NEW r \in rows, r[1] \in Hanging
    PROVE  \E k \in ref : k[1] = r /\ k[2] \in rows /\ k[2][1] = Above(r[1])
<1>1. Above(r[1]) \in Required[r[1]]  BY AboveRequired
<1>2. PICK k \in ref : k[1] = r /\ k[2][1] = Above(r[1])  BY <1>1 DEF RowsOK, Whole
<1>3. QED  BY <1>2 DEF DataOK

\* With the projects all their content goes, and with the organisation nearly all.
LEMMA AllGoes ==
    ASSUME DataOK, RowsOK
    PROVE  /\ (\A r \in rows : r[1] # "projects") =>
                 \A r \in rows : r[1] \in {"organisations", "users"} \cup Spared
           /\ (\A r \in rows : r[1] # "organisations") =>
                 \A r \in rows : r[1] \in {"audit", "counters"}
<1> DEFINE Gone(t) == \A r \in rows : r[1] # t
           Inner(t) == t \in Hanging \ {"users", "projects", "roleDefs", "apiKeys"}
<1>1. \A t \in Hanging : Gone(Above(t)) => Gone(t)  BY Climbs
<1>2. \A r \in rows : r[1] \in Hanging \cup {"organisations", "counters", "audit"}
  <2>1. \A r \in rows : r[1] \in Table  BY RowForm DEF DataOK
  <2>2. QED  BY <2>1, AboveRequired
<1> HIDE DEF Gone
<1>3. Gone("projects") => \A t : Inner(t) => Gone(t)
  <2> SUFFICES ASSUME Gone("projects") PROVE \A t : Inner(t) => Gone(t)
    OBVIOUS
  <2>1. /\ Gone("roles") /\ Gone("folders") /\ Gone("cases") /\ Gone("requirements")
        /\ Gone("defects") /\ Gone("plans") /\ Gone("runs")
    BY <1>1 DEF Hanging, Above
  <2>2. /\ Gone("steps") /\ Gone("caseRequirements") /\ Gone("planCases")
        /\ Gone("runCases") /\ Gone("assignees")
    BY <2>1, <1>1 DEF Hanging, Above
  <2>3. /\ Gone("snapshots") /\ Gone("stepResults") /\ Gone("events")
        /\ Gone("defectLinks") /\ Gone("execComments")
    BY <2>2, <1>1 DEF Hanging, Above
  <2>4. QED  BY <2>1, <2>2, <2>3 DEF Hanging
<1>4. Gone("organisations") =>
         /\ Gone("users") /\ Gone("projects") /\ Gone("roleDefs") /\ Gone("apiKeys")
  BY <1>1 DEF Hanging, Above
<1>5. Gone("projects") => \A r \in rows : r[1] \in {"organisations", "users"} \cup Spared
  BY <1>2, <1>3 DEF Gone, Spared
<1>6. Gone("organisations") => \A r \in rows : r[1] \in {"audit", "counters"}
  BY <1>2, <1>3, <1>4 DEF Gone
<1>7. QED  BY <1>5, <1>6 DEF Gone

\* The place of an entry of the seed among the statements.
Rank(t) ==
    CASE t = "organisations" -> 1 [] t = "users" -> 2 [] t = "projects" -> 5
      [] t = "roles" -> 6 [] t = "folders" -> 7 [] t = "cases" -> 8 [] t = "steps" -> 9
      [] t = "plans" -> 10 [] t = "planCases" -> 11 [] t = "runs" -> 12
      [] t = "runCases" -> 13 [] t = "snapshots" -> 14 [] t = "stepResults" -> 15
      [] t = "defectLinks" -> 16 [] t = "assignees" -> 17 [] t = "events" -> 18
      [] t = "roleDefs" -> 19 [] t = "apiKeys" -> 20 [] t = "counters" -> 21
      [] OTHER -> 0
Place(x) ==
    IF x[2] \in Blank /\ x[1] = "projects" THEN 3
    ELSE IF x[2] \in Blank /\ x[1] = "roles" THEN 4
    ELSE Rank(x[1])

\* The n statements of script s are those after the first o.
Placed(s, n, o) ==
    /\ s \in Seq(SUBSET SeedEntries) /\ Len(s) = n
    /\ \A i \in 1 .. n : \A x \in s[i] : Place(x) = o + i

\* Two scripts joined.
LEMMA PlacedJoins ==
    ASSUME NEW m \in Nat, NEW n \in Nat, NEW o \in Nat, NEW s, NEW t,
           Placed(s, m, o), Placed(t, n, o + m)
    PROVE  Placed(s \o t, m + n, o)
<1>1. s \in Seq(SUBSET SeedEntries) /\ t \in Seq(SUBSET SeedEntries)  BY DEF Placed
<1>2. /\ s \o t \in Seq(SUBSET SeedEntries) /\ Len(s \o t) = Len(s) + Len(t)
  BY <1>1, Joined
<1>3. \A i \in 1 .. Len(s) + Len(t) :
            (s \o t)[i] = IF i <= Len(s) THEN s[i] ELSE t[i - Len(s)]
  BY <1>1, ConcatProperties
<1>4. Len(s) = m /\ Len(t) = n  BY DEF Placed
<1>5. ASSUME NEW i \in 1 .. m + n, NEW x \in (s \o t)[i] PROVE Place(x) = o + i
  <2>1. CASE i <= m  BY <2>1, <1>3, <1>4, <1>5 DEF Placed
  <2>2. CASE i > m
    <3>1. i - m \in 1 .. n /\ x \in t[i - m]  BY <2>2, <1>3, <1>4, <1>5
    <3>2. Place(x) = (o + m) + (i - m)  BY <3>1 DEF Placed
    <3>3. QED  BY <3>2
  <2>3. QED  BY <2>1, <2>2
<1>6. QED  BY <1>2, <1>4, <1>5 DEF Placed

\* The short scripts the long ones are joined of.
At(A, o) == A \in SUBSET SeedEntries /\ \A x \in A : Place(x) = o

\* Scripts of one statement,
LEMMA PlacedOne ==
    ASSUME NEW o \in Nat, NEW A, At(A, o + 1)
    PROVE  Placed(<<A>>, 1, o)
<1>1. <<A>> \in Seq(SUBSET SeedEntries) /\ Len(<<A>>) = 1 /\ <<A>>[1] = A
  BY DEF At
<1>2. \A i \in 1 .. 1 : i = 1  OBVIOUS
<1>3. QED  BY <1>1, <1>2 DEF Placed, At

\* of two,
LEMMA PlacedTwo ==
    ASSUME NEW o \in Nat, NEW A, NEW B, At(A, o + 1), At(B, o + 2)
    PROVE  Placed(<<A, B>>, 2, o)
<1>1. /\ <<A, B>> \in Seq(SUBSET SeedEntries) /\ Len(<<A, B>>) = 2
      /\ <<A, B>>[1] = A /\ <<A, B>>[2] = B
  BY DEF At
<1>2. \A i \in 1 .. 2 : i = 1 \/ i = 2  OBVIOUS
<1>3. QED  BY <1>1, <1>2 DEF Placed, At

\* and of three.
LEMMA PlacedThree ==
    ASSUME NEW o \in Nat, NEW A, NEW B, NEW C, At(A, o + 1), At(B, o + 2), At(C, o + 3)
    PROVE  Placed(<<A, B, C>>, 3, o)
<1>1. /\ <<A, B, C>> \in Seq(SUBSET SeedEntries) /\ Len(<<A, B, C>>) = 3
      /\ <<A, B, C>>[1] = A /\ <<A, B, C>>[2] = B /\ <<A, B, C>>[3] = C
  BY DEF At
<1>2. \A i \in 1 .. 3 : i = 1 \/ i = 2 \/ i = 3  OBVIOUS
<1>3. QED  BY <1>1, <1>2 DEF Placed, At

\* Each entry of the seed is in the statement of its place.
LEMMA SeedPlaced == Placed(InsertScript, 21, 0)
<1> DEFINE E(t) == { <<t, Demo>> }
           O(t) == { <<t, Org>> }
           B(t) == { <<t, p>> : p \in Blank }
           Counters == { <<"counters", p>> : p \in Seeded }
<1>1. Demo \notin Blank /\ Org \notin Blank  BY FlowsAssumption
<1>2. /\ \A t \in SeededForDemo : At(E(t), Rank(t))
      /\ \A t \in SeededForOrg : At(O(t), Rank(t))
  BY <1>1 DEF SeedEntries, Place, At
<1>3. /\ At(B("projects"), 3)
      /\ At(B("roles"), 4)
      /\ At(Counters, 21)
  <2>1. B("projects") \in SUBSET SeedEntries /\ B("roles") \in SUBSET SeedEntries
    BY DEF SeedEntries, SeededForBlank
  <2>2. \A x \in B("projects") : Place(x) = 3  BY DEF Place
  <2>3. \A x \in B("roles") : Place(x) = 4  BY DEF Place
  <2>4. Counters \in SUBSET SeedEntries
    BY DEF SeedEntries, Seeded, SeededForBlank, SeededForDemo
  <2>5. \A x \in Counters : Place(x) = 21  BY DEF Place, Rank
  <2>6. QED  BY <2>1, <2>2, <2>3, <2>4, <2>5 DEF At
<1> HIDE DEF E, O, B, Counters
<1>4. /\ At(E("projects"), 5)
      /\ At(E("roles"), 6)
      /\ At(E("folders"), 7)
      /\ At(E("cases"), 8)
      /\ At(E("steps"), 9)
      /\ At(E("plans"), 10)
      /\ At(E("planCases"), 11)
      /\ At(E("runs"), 12)
      /\ At(E("runCases"), 13)
      /\ At(E("snapshots"), 14)
      /\ At(E("stepResults"), 15)
      /\ At(E("defectLinks"), 16)
      /\ At(E("assignees"), 17)
      /\ At(E("events"), 18)
  BY <1>2 DEF SeededForDemo, Rank
<1>5. /\ At(O("organisations"), 1)
      /\ At(O("users"), 2)
      /\ At(O("roleDefs"), 19)
      /\ At(O("apiKeys"), 20)
  BY <1>2 DEF SeededForOrg, Rank
<1>6. Placed(SeedOrganisation, 2, 0)
  <2>1. SeedOrganisation = <<O("organisations"), O("users")>>  BY DEF SeedOrganisation, O
  <2>2. At(O("organisations"), 0 + 1) /\ At(O("users"), 0 + 2)  BY <1>5
  <2>3. Placed(<<O("organisations"), O("users")>>, 2, 0)  BY <2>2, PlacedTwo
  <2>4. QED  BY <2>1, <2>3
<1>7. Placed(SeedProjects, 2, 2)
  <2>1. SeedProjects = <<B("projects"), B("roles")>>  BY DEF SeedProjects, B
  <2>2. At(B("projects"), 2 + 1) /\ At(B("roles"), 2 + 2)  BY <1>3
  <2>3. Placed(<<B("projects"), B("roles")>>, 2, 2)  BY <2>2, PlacedTwo
  <2>4. QED  BY <2>1, <2>3
<1>8. Placed(DemoProject, 2, 4)
  <2>1. DemoProject = <<E("projects"), E("roles")>>  BY DEF DemoProject, E
  <2>2. At(E("projects"), 4 + 1) /\ At(E("roles"), 4 + 2)  BY <1>4
  <2>3. Placed(<<E("projects"), E("roles")>>, 2, 4)  BY <2>2, PlacedTwo
  <2>4. QED  BY <2>1, <2>3
<1>9. Placed(DemoFolders, 1, 6)
  <2>1. DemoFolders = <<E("folders")>>  BY DEF DemoFolders, E
  <2>2. At(E("folders"), 6 + 1)  BY <1>4
  <2>3. Placed(<<E("folders")>>, 1, 6)  BY <2>2, PlacedOne
  <2>4. QED  BY <2>1, <2>3
<1>10. Placed(DemoCases, 1, 7)
  <2>1. DemoCases = <<E("cases")>>  BY DEF DemoCases, E
  <2>2. At(E("cases"), 7 + 1)  BY <1>4
  <2>3. Placed(<<E("cases")>>, 1, 7)  BY <2>2, PlacedOne
  <2>4. QED  BY <2>1, <2>3
<1>11. Placed(DemoSteps, 1, 8)
  <2>1. DemoSteps = <<E("steps")>>  BY DEF DemoSteps, E
  <2>2. At(E("steps"), 8 + 1)  BY <1>4
  <2>3. Placed(<<E("steps")>>, 1, 8)  BY <2>2, PlacedOne
  <2>4. QED  BY <2>1, <2>3
<1>12. Placed(DemoPlans, 2, 9)
  <2>1. DemoPlans = <<E("plans"), E("planCases")>>  BY DEF DemoPlans, E
  <2>2. At(E("plans"), 9 + 1) /\ At(E("planCases"), 9 + 2)  BY <1>4
  <2>3. Placed(<<E("plans"), E("planCases")>>, 2, 9)  BY <2>2, PlacedTwo
  <2>4. QED  BY <2>1, <2>3
<1>13. Placed(DemoRuns, 2, 11)
  <2>1. DemoRuns = <<E("runs"), E("runCases")>>  BY DEF DemoRuns, E
  <2>2. At(E("runs"), 11 + 1) /\ At(E("runCases"), 11 + 2)  BY <1>4
  <2>3. Placed(<<E("runs"), E("runCases")>>, 2, 11)  BY <2>2, PlacedTwo
  <2>4. QED  BY <2>1, <2>3
<1>14. Placed(DemoResults, 3, 13)
  <2>1. DemoResults = <<E("snapshots"), E("stepResults"), E("defectLinks")>>  BY DEF DemoResults, E
  <2>2. /\ At(E("snapshots"), 13 + 1) /\ At(E("stepResults"), 13 + 2)
        /\ At(E("defectLinks"), 13 + 3)
    BY <1>4
  <2>3. Placed(<<E("snapshots"), E("stepResults"), E("defectLinks")>>, 3, 13)  BY <2>2, PlacedThree
  <2>4. QED  BY <2>1, <2>3
<1>15. Placed(DemoPeople, 2, 16)
  <2>1. DemoPeople = <<E("assignees"), E("events")>>  BY DEF DemoPeople, E
  <2>2. At(E("assignees"), 16 + 1) /\ At(E("events"), 16 + 2)  BY <1>4
  <2>3. Placed(<<E("assignees"), E("events")>>, 2, 16)  BY <2>2, PlacedTwo
  <2>4. QED  BY <2>1, <2>3
<1>16. Placed(SeedAdmin, 2, 18)
  <2>1. SeedAdmin = <<O("roleDefs"), O("apiKeys")>>  BY DEF SeedAdmin, O
  <2>2. At(O("roleDefs"), 18 + 1) /\ At(O("apiKeys"), 18 + 2)  BY <1>5
  <2>3. Placed(<<O("roleDefs"), O("apiKeys")>>, 2, 18)  BY <2>2, PlacedTwo
  <2>4. QED  BY <2>1, <2>3
<1>17. Placed(SeedCounters, 1, 20)
  <2>1. SeedCounters = <<Counters>>  BY DEF SeedCounters, Counters
  <2>2. At(Counters, 20 + 1)  BY <1>3
  <2>3. Placed(<<Counters>>, 1, 20)  BY <2>2, PlacedOne
  <2>4. QED  BY <2>1, <2>3
<1> DEFINE d1 == DemoProject \o DemoFolders
           d2 == d1 \o DemoCases
           d3 == d2 \o DemoSteps
           d4 == d3 \o DemoPlans
           d5 == d4 \o DemoRuns
           d6 == d5 \o DemoResults
           d7 == d6 \o DemoPeople
<1>18. Placed(d1, 2 + 1, 4)  BY <1>8, <1>9, PlacedJoins
<1>19. Placed(d2, 3 + 1, 4)  BY <1>18, <1>10, PlacedJoins
<1>20. Placed(d3, 4 + 1, 4)  BY <1>19, <1>11, PlacedJoins
<1>21. Placed(d4, 5 + 2, 4)  BY <1>20, <1>12, PlacedJoins
<1>22. Placed(d5, 7 + 2, 4)  BY <1>21, <1>13, PlacedJoins
<1>23. Placed(d6, 9 + 3, 4)  BY <1>22, <1>14, PlacedJoins
<1>24. Placed(d7, 12 + 2, 4)  BY <1>23, <1>15, PlacedJoins
<1>25. Placed(DemoScript, 14, 4)
  <2>1. d7 = DemoScript  BY DEF DemoScript
  <2> HIDE DEF d7
  <2>2. QED  BY <2>1, <1>24
<1> DEFINE s1 == SeedOrganisation \o SeedProjects
           s2 == s1 \o DemoScript
           s3 == s2 \o SeedAdmin
           s4 == s3 \o SeedCounters
<1>26. Placed(s1, 2 + 2, 0)  BY <1>6, <1>7, PlacedJoins
<1>27. Placed(s2, 4 + 14, 0)  BY <1>26, <1>25, PlacedJoins
<1>28. Placed(s3, 18 + 2, 0)  BY <1>27, <1>16, PlacedJoins
<1>29. Placed(s4, 20 + 1, 0)  BY <1>28, <1>17, PlacedJoins
<1>30. s4 = InsertScript  BY DEF InsertScript
<1> HIDE DEF s4
<1>31. QED  BY <1>30, <1>29

\* The entries of a statement have its place,
LEMMA SeedPlaces == \A i \in 1 .. 21 : \A x \in InsertScript[i] : Place(x) = i
<1>1. ASSUME NEW i \in 1 .. 21, NEW x \in InsertScript[i] PROVE Place(x) = i
  <2>1. \A j \in 1 .. 21 : \A y \in InsertScript[j] : Place(y) = 0 + j
    BY SeedPlaced, Zenon DEF Placed
  <2>2. Place(x) = 0 + i  BY <2>1
  <2>3. QED  BY <2>2
<1>2. QED  BY <1>1

\* and are all that have it.
LEMMA SeedAt ==
    /\ \A x \in SeedEntries : Place(x) \in 1 .. 21 /\ x \in InsertScript[Place(x)]
    /\ \A i \in 1 .. 21 : InsertScript[i] = { x \in SeedEntries : Place(x) = i }
<1>1. InsertScript \in Seq(SUBSET SeedEntries) /\ Len(InsertScript) = 21
  BY SeedPlaced DEF Placed
<1>2. DOMAIN InsertScript = 1 .. 21  BY <1>1
<1>3. ASSUME NEW x \in SeedEntries PROVE Place(x) \in 1 .. 21 /\ x \in InsertScript[Place(x)]
  <2>1. x \in UNION Range(InsertScript)  BY ScriptEntries
  <2>2. PICK i \in 1 .. 21 : x \in InsertScript[i]  BY <2>1, <1>2 DEF Range
  <2>3. Place(x) = i  BY <2>2, SeedPlaces
  <2>4. QED  BY <2>2, <2>3
<1>4. \A i \in 1 .. 21 : InsertScript[i] = { x \in SeedEntries : Place(x) = i }
  BY <1>3, SeedPlaces, ScriptEntries
<1>5. QED  BY <1>3, <1>4

\* What a key of a seeded row leads to is seeded before it, and has an id of its own
\* if the row has.
Sown == SeededForOrg \cup SeededForDemo
KeyOrder(k) ==
    /\ k[1] \in Sown /\ k[2] # "defects" => Rank(k[2]) < Rank(k[1])
    /\ k[1] \in FixedId => k[2] \in FixedId

\* The keys lead to what is seeded before.
LEMMA KeysOrdered == \A k \in Keys : KeyOrder(k)
<1>1. \A k \in OrganisationKeys : KeyOrder(k)
  BY DEF OrganisationKeys, KeyOrder, Rank, Sown, SeededForOrg, SeededForDemo, FixedId
<1>2. \A k \in ProjectKeys : KeyOrder(k)
  BY DEF ProjectKeys, KeyOrder, Rank, Sown, SeededForOrg, SeededForDemo, FixedId
<1>3. \A k \in CaseKeys : KeyOrder(k)
  BY DEF CaseKeys, KeyOrder, Rank, Sown, SeededForOrg, SeededForDemo, FixedId
<1>4. \A k \in RequirementKeys : KeyOrder(k)
  BY DEF RequirementKeys, KeyOrder, Rank, Sown, SeededForOrg, SeededForDemo, FixedId
<1>5. \A k \in DefectKeys : KeyOrder(k)
  BY DEF DefectKeys, KeyOrder, Rank, Sown, SeededForOrg, SeededForDemo, FixedId
<1>6. \A k \in PlanKeys : KeyOrder(k)
  BY DEF PlanKeys, KeyOrder, Rank, Sown, SeededForOrg, SeededForDemo, FixedId
<1>7. \A k \in RunKeys : KeyOrder(k)
  BY DEF RunKeys, KeyOrder, Rank, Sown, SeededForOrg, SeededForDemo, FixedId
<1>8. \A k \in RunCaseKeys : KeyOrder(k)
  BY DEF RunCaseKeys, KeyOrder, Rank, Sown, SeededForOrg, SeededForDemo, FixedId
<1>9. \A k \in SnapshotKeys : KeyOrder(k)
  BY DEF SnapshotKeys, KeyOrder, Rank, Sown, SeededForOrg, SeededForDemo, FixedId
<1>10. \A k \in EventKeys : KeyOrder(k)
  BY DEF EventKeys, KeyOrder, Rank, Sown, SeededForOrg, SeededForDemo, FixedId
<1>11. \A k \in LinkKeys : KeyOrder(k)
  BY DEF LinkKeys, KeyOrder, Rank, Sown, SeededForOrg, SeededForDemo, FixedId
<1>12. \A k \in AuditKeys : KeyOrder(k)
  BY DEF AuditKeys, KeyOrder, Rank, Sown, SeededForOrg, SeededForDemo, FixedId
<1>13. \A k \in AdminKeys : KeyOrder(k)
  BY DEF AdminKeys, KeyOrder, Rank, Sown, SeededForOrg, SeededForDemo, FixedId
<1>14. QED
  BY <1>1, <1>2, <1>3, <1>4, <1>5, <1>6, <1>7, <1>8, <1>9, <1>10, <1>11, <1>12, <1>13
     DEF Keys

\* The row that a row of the seed refers to.
Up(x, t) == <<t, IF t \in OrgTable THEN Org ELSE x[2]>>

\* What an entry refers to is seeded before it, with the id by which it is referred to.
LEMMA SeedOrder ==
    ASSUME NEW x \in SeedEntries, NEW t \in SetBySeed[x[1]], NEW w \in Writer
    PROVE  /\ Up(x, t) \in SeedEntries /\ Place(Up(x, t)) < Place(x)
           /\ SeedRow(t, x[2], SeedRow(x[1], x[2], w)[3]) = SeedRow(Up(x, t)[1], Up(x, t)[2], w)
<1>1. x[1] \in Table  BY SeedRowGood, FlowWriters
<1>2. t # "defects"
  <2>1. /\ "defects" \notin SeededForOrg /\ "defects" \notin SeededForDemo
        /\ "defects" \notin SeededForBlank /\ "defects" \notin OrgTable
    BY DEF SeededForOrg, SeededForDemo, SeededForBlank, OrgTable
  <2>2. Up(x, t) \in SeedEntries  BY <1>1, SeedClosed DEF Up
  <2>3. Up(x, t)[1] = t  BY DEF Up
  <2>4. \A y \in SeedEntries : y[1] # "defects"  BY <2>1 DEF SeedEntries
  <2>5. QED  BY <2>2, <2>3, <2>4
<1>3. Up(x, t) \in SeedEntries  BY <1>1, SeedClosed DEF Up
<1>4. PICK d : <<x[1], t, d>> \in Keys
  <2>1. t \in Required[x[1]] \cup Optional[x[1]]  BY <1>1 DEF SetBySeed
  <2>2. QED  BY <2>1, <1>1, KeyOf
<1>5. PICK a : a = x[1]  OBVIOUS
<1>6. KeyOrder(<<a, t, d>>)  BY <1>4, <1>5, KeysOrdered
<1>7. x[1] \in FixedId => t \in FixedId  BY <1>5, <1>6 DEF KeyOrder
<1>8. /\ SeedRow(t, x[2], SeedRow(x[1], x[2], w)[3]) = SeedRow(t, Up(x, t)[2], w)
      /\ Up(x, t)[1] = t
  BY <1>7 DEF SeedRow, Up
<1>9. Demo \notin Blank /\ Org \notin Blank  BY FlowsAssumption
<1>10. KeyFacts(<<a, t, d>>)  BY <1>4, <1>5, EveryKey
<1>11. CASE x[2] \in Blank
  <2>1. x[1] \in {"projects", "roles"}
    <3>1. x[1] \in SeededForBlank  BY <1>11, <1>9 DEF SeedEntries
    <3>2. x[1] # "counters"  BY <1>5, <1>10 DEF KeyFacts
    <3>3. QED  BY <3>1, <3>2 DEF SeededForBlank
  <2>2. CASE x[1] = "projects"
    <3>1. t \in {"organisations", "users"}  BY <1>5, <1>10, <2>2 DEF KeyFacts
    <3>2. Place(x) = 3  BY <1>11, <2>2 DEF Place
    <3>3. Place(Up(x, t)) = Rank(t)  BY <3>1 DEF Place, Up
    <3>4. Rank(t) \in {1, 2}  BY <3>1 DEF Rank
    <3>5. QED  BY <3>2, <3>3, <3>4, <1>3, <1>8
  <2>3. CASE x[1] = "roles"
    <3>1. t \in {"projects", "users"}  BY <1>5, <1>10, <2>3 DEF KeyFacts
    <3>2. Place(x) = 4  BY <1>11, <2>3 DEF Place
    <3>3. t = "projects" => Place(Up(x, t)) = 3  BY <1>11 DEF Place, Up, OrgTable
    <3>4. t = "users" => Place(Up(x, t)) = 2  BY DEF Place, Up, Rank
    <3>5. QED  BY <3>1, <3>2, <3>3, <3>4, <1>3, <1>8
  <2>4. QED  BY <2>1, <2>2, <2>3
<1>12. CASE x[2] \notin Blank
  <2>1. x[1] \in Sown  BY <1>12 DEF SeedEntries, Sown
  <2>2. Rank(t) < Rank(x[1])  BY <2>1, <1>2, <1>5, <1>6 DEF KeyOrder
  <2>3. Up(x, t)[2] \notin Blank  BY <1>9, <1>12 DEF Up
  <2>4. Place(x) = Rank(x[1]) /\ Place(Up(x, t)) = Rank(t)
    BY <1>12, <2>3, <1>8 DEF Place
  <2>5. QED  BY <2>2, <2>4, <1>3, <1>8
<1>13. QED  BY <1>11, <1>12

-----------------------------------------------------------------------------
(* The filling *)

\* The kinds that have a reference, and no counter for it.
Uncounted == {"requirements", "defects"}

\* Every number of a project is of one that there is, or of the seed's, and nothing
\* is there that the counters have no number for.
CountersOK ==
    \A r \in rows :
       /\ r[1] = "counters" =>
             r[3] = Org /\ (r[2] \in Seeded \/ ProjectRow(r[2]) \in rows)
       /\ r[1] \notin Uncounted

\* The entries of the statements before the i-th, and what is there before it in a
\* filling that is alone.
Before(i) == { x \in SeedEntries : Place(x) < i }
Filled(f, i) ==
    /\ { r \in rows : r[1] \notin {"audit", "counters"} } = SeedRows(Before(i), f)
    /\ ref = SeedRefs(SeedRows(Before(i), f))
    /\ named = { n \in SeedNames(f) : n[1] \in rows }
    /\ \A p \in DOMAIN slug : slug[p] = SeedSlug(p)

\* The rows of entries at different places differ.
LEMMA SeedApart ==
    ASSUME NEW w \in Writer, NEW x \in SeedEntries, NEW y \in SeedEntries,
           SeedRow(x[1], x[2], w) = SeedRow(y[1], y[2], w)
    PROVE  Place(x) = Place(y)
<1>1. x[1] = y[1] /\ x[2] = y[2]  BY SeedRowGood
<1>2. QED  BY <1>1 DEF Place

\* The counters come last, and have no key.
LEMMA CountersLast ==
    /\ \A x \in SeedEntries : Place(x) = 21 <=> x[1] = "counters"
    /\ \A x \in SeedEntries : x[1] # "audit" /\ x[1] \notin Uncounted
    /\ SetBySeed["counters"] = {}
    /\ \A p \in Seeded : <<"counters", p>> \in SeedEntries
<1>1. \A x \in SeedEntries : x[1] \in Sown
  BY DEF SeedEntries, Sown, SeededForBlank, SeededForDemo
<1>2. \A t \in Sown : Rank(t) = 21 <=> t = "counters"
  BY DEF Rank, Sown, SeededForOrg, SeededForDemo
<1>3. \A x \in SeedEntries : Place(x) = 21 <=> x[1] = "counters"
  <2>1. \A x : Place(x) = 3 \/ Place(x) = 4 \/ Place(x) = Rank(x[1])  BY DEF Place
  <2>2. \A x : x[1] = "counters" => Place(x) = Rank(x[1])  BY DEF Place
  <2>3. QED  BY <1>1, <1>2, <2>1, <2>2
<1>4. \A x \in SeedEntries : x[1] # "audit" /\ x[1] \notin Uncounted
  BY <1>1 DEF Sown, SeededForOrg, SeededForDemo, Uncounted
<1>5. SetBySeed["counters"] = {}
  <2>1. "counters" \in Table  BY Tables
  <2>2. \A u \in Required["counters"] \cup Optional["counters"] :
           \E d : KeyFacts(<<"counters", u, d>>)
    BY <2>1, KeyOf, EveryKey
  <2>3. \A u \in Required["counters"] \cup Optional["counters"] : FALSE
    BY <2>2 DEF KeyFacts
  <2>4. QED  BY <2>1, <2>3 DEF SetBySeed
<1>6. \A p \in Seeded : <<"counters", p>> \in SeedEntries
  BY DEF SeedEntries, Seeded, SeededForBlank, SeededForDemo
<1>7. QED  BY <1>3, <1>4, <1>5, <1>6

\* What is there before the i-th statement, and after it.
LEMMA BeforeNext ==
    ASSUME NEW i \in 1 .. 21
    PROVE  /\ Before(i + 1) = Before(i) \cup InsertScript[i]
           /\ InsertScript[i] \subseteq SeedEntries /\ \A x \in InsertScript[i] : Place(x) = i
           /\ Before(i) \subseteq SeedEntries
           /\ i = 21 => Before(i + 1) = SeedEntries
           /\ Before(1) = {}
<1>1. \A x \in SeedEntries : Place(x) \in 1 .. 21  BY SeedAt
<1>2. InsertScript[i] = { x \in SeedEntries : Place(x) = i }  BY SeedAt
<1>3. Before(i + 1) = Before(i) \cup InsertScript[i]  BY <1>1, <1>2 DEF Before
<1>4. i = 21 => Before(i + 1) = SeedEntries  BY <1>1 DEF Before
<1>5. Before(1) = {}  BY <1>1 DEF Before
<1>6. QED  BY <1>2, <1>3, <1>4, <1>5 DEF Before

\* The rows and the references of entries put together.
LEMMA SeedJoins ==
    /\ \A A, B, w : SeedRows(A \cup B, w) = SeedRows(A, w) \cup SeedRows(B, w)
    /\ \A A, B : SeedRefs(A \cup B) = SeedRefs(A) \cup SeedRefs(B)
<1>1. \A A, B, w : SeedRows(A \cup B, w) = SeedRows(A, w) \cup SeedRows(B, w)
  BY DEF SeedRows
<1>2. \A A, k : k \in SeedRefs(A) <=>
                  \E r \in A : \E t \in SetBySeed[r[1]] : k = <<r, SeedRow(t, r[2], r[3])>>
  BY DEF SeedRefs
<1>3. \A A, B : SeedRefs(A \cup B) = SeedRefs(A) \cup SeedRefs(B)
  BY <1>2
<1>4. QED  BY <1>1, <1>3

\* In a filling that is alone each statement goes in.
LEMMA FillFits ==
    ASSUME DataOK, ReqOK, NEW f \in Flow, FillNext(f), Filled(f, req[f].step)
    PROVE  LET i == req[f].step
               R == NewOf(SeedRows(InsertScript[i], f))
               P == { r[2] : r \in { r \in R : r[1] = "projects" } }
           IN  /\ i \in 1 .. 21
               /\ i < 21 => R = SeedRows(InsertScript[i], f)
               /\ \A r \in R : r \notin rows
               /\ Fits(R, SeedRefs(R)) /\ \A p \in P : SlugFree(SeedSlug(p))
<1> DEFINE i == req[f].step
           X == InsertScript[i]
           S == SeedRows(X, f)
           R == NewOf(S)
           P == { r[2] : r \in { r \in R : r[1] = "projects" } }
<1>1. i \in 1 .. 21  BY ScriptEntries DEF ReqOK, Stage, FillNext
<1>2. /\ X \subseteq SeedEntries /\ \A x \in X : Place(x) = i
      /\ Before(i) \subseteq SeedEntries /\ \A x \in Before(i) : Place(x) < i
  BY <1>1, BeforeNext DEF Before
<1>3. f \in Writer  BY FlowWriters
<1>4. /\ { r \in rows : r[1] \notin {"audit", "counters"} } = SeedRows(Before(i), f)
      /\ \A p \in DOMAIN slug : slug[p] = SeedSlug(p)
  BY DEF Filled
<1> HIDE DEF i, X, R, P
<1>5. \A r \in S : r[1] \notin {"audit", "counters"} => r \notin rows
  <2> SUFFICES ASSUME NEW r \in S, r[1] \notin {"audit", "counters"}, r \in rows
               PROVE  FALSE
    OBVIOUS
  <2>1. PICK x \in X : r = SeedRow(x[1], x[2], f)  BY DEF SeedRows
  <2>2. r \in SeedRows(Before(i), f)  BY <1>4
  <2>3. PICK y \in Before(i) : r = SeedRow(y[1], y[2], f)  BY <2>2 DEF SeedRows
  <2>4. Place(x) = Place(y)  BY <2>1, <2>3, <1>2, <1>3, SeedApart
  <2>5. QED  BY <2>1, <2>3, <2>4, <1>1, <1>2
<1>6. \A r \in S : r[1] # "audit" /\ (r[1] = "counters" <=> i = 21)
  <2>1. \A x \in X : SeedRow(x[1], x[2], f)[1] = x[1]  BY DEF SeedRow
  <2>2. \A x \in X : x[1] # "audit" /\ (x[1] = "counters" <=> i = 21)
    BY <1>2, CountersLast
  <2>3. QED  BY <2>1, <2>2 DEF SeedRows
<1>7. R \subseteq S /\ \A r \in R : r \notin rows  BY <1>5, <1>6 DEF R, NewOf
<1>8. i < 21 => R = S  BY <1>6, <1>1 DEF R, NewOf
<1>9. ASSUME NEW r \in R, NEW t \in SetBySeed[r[1]]
      PROVE  SeedRow(t, r[2], r[3]) \in rows
  <2>1. PICK x \in X : r = SeedRow(x[1], x[2], f)  BY <1>7 DEF SeedRows
  <2>2. r[1] = x[1] /\ r[2] = x[2] /\ x \in SeedEntries  BY <2>1, <1>2, <1>3, SeedRowGood
  <2>3. /\ Up(x, t) \in SeedEntries /\ Place(Up(x, t)) < Place(x)
        /\ SeedRow(t, r[2], r[3]) = SeedRow(Up(x, t)[1], Up(x, t)[2], f)
    BY <2>1, <2>2, <1>3, SeedOrder
  <2>4. Up(x, t) \in Before(i)  BY <2>3, <1>2 DEF Before
  <2>5. SeedRow(t, r[2], r[3]) \in SeedRows(Before(i), f)  BY <2>3, <2>4 DEF SeedRows
  <2>6. QED  BY <2>5, <1>4
<1>10. Fits(R, SeedRefs(R))
  <2>1. \A k \in SeedRefs(R) :
           \E r \in R : \E t \in SetBySeed[r[1]] : k = <<r, SeedRow(t, r[2], r[3])>>
    BY DEF SeedRefs
  <2>2. \A k \in SeedRefs(R) : k[2] \in rows  BY <2>1, <1>9
  <2>3. QED  BY <2>2, <1>7 DEF Fits
<1>11. \A p \in P : SlugFree(SeedSlug(p))
  <2> SUFFICES ASSUME NEW p \in P, NEW q \in DOMAIN slug, slug[q] = SeedSlug(p)
               PROVE  FALSE
    BY DEF SlugFree
  <2>1. p = q  BY <1>4 DEF SeedSlug
  <2>2. ProjectRow(p) \in rows  BY <2>1 DEF DataOK, SlugsRight
  <2>3. PICK r \in R : r[1] = "projects" /\ r[2] = p  BY DEF P
  <2>4. r = ProjectRow(p)  BY <2>3, <1>2, <1>3, <1>7, SeedRowsGood
  <2>5. QED  BY <2>2, <2>4, <1>7
<1>12. QED  BY <1>1, <1>7, <1>8, <1>10, <1>11 DEF i, X, R, P

\* What it leaves: before the last,
LEMMA FillGoesOn ==
    ASSUME DataOK, ReqOK, NEW f \in Flow, NEW i, req[f].step = i, i < 21,
           FillNext(f), Filled(f, i)
    PROVE  /\ Filled(f, i + 1)'
           /\ req'[f].pc = "filling" /\ req'[f].step = i + 1
<1> DEFINE X == InsertScript[i]
           R == NewOf(SeedRows(X, f))
           P == { r[2] : r \in { r \in R : r[1] = "projects" } }
<1>1. /\ i \in 1 .. 21 /\ R = SeedRows(X, f)
      /\ Fits(R, SeedRefs(R)) /\ \A p \in P : SlugFree(SeedSlug(p))
  BY FillFits
<1>2. /\ Insert(R, SeedRefs(R))
      /\ slug' = [p \in DOMAIN slug \cup P |-> IF p \in P THEN SeedSlug(p) ELSE slug[p]]
      /\ named' = named \cup { n \in SeedNames(f) : n[1] \in R }
      /\ IF i = Len(InsertScript) THEN Answer(f, "done")
                                  ELSE req' = [req EXCEPT ![f].step = @ + 1]
  BY <1>1 DEF FillNext
<1>3. /\ { r \in rows : r[1] \notin {"audit", "counters"} } = SeedRows(Before(i), f)
      /\ ref = SeedRefs(SeedRows(Before(i), f))
      /\ named = { n \in SeedNames(f) : n[1] \in rows }
      /\ \A p \in DOMAIN slug : slug[p] = SeedSlug(p)
  BY DEF Filled
<1>4. req' = [req EXCEPT ![f].step = @ + 1] /\ req[f].pc = "filling" /\ req[f] \in Request
      /\ DOMAIN req = Flow
  BY <1>2, ScriptEntries DEF ReqOK, FillNext
<1>5. req'[f].pc = "filling" /\ req'[f].step = i + 1  BY <1>4 DEF Request
<1>6. /\ Before(i + 1) = Before(i) \cup X /\ X \subseteq SeedEntries
      /\ \A x \in X : Place(x) = i
  BY <1>1, BeforeNext
<1>7. i # 21  OBVIOUS
<1> HIDE DEF X, P
<1>8. \A r \in R : r[1] \notin {"audit", "counters"}
  <2>1. \A x \in X : x[1] \notin {"audit", "counters"}  BY <1>6, <1>7, CountersLast
  <2>2. \A x \in X : SeedRow(x[1], x[2], f)[1] = x[1]  BY DEF SeedRow
  <2>3. QED  BY <1>1, <2>1, <2>2 DEF SeedRows
<1>9. /\ SeedRows(Before(i + 1), f) = SeedRows(Before(i), f) \cup R
      /\ SeedRefs(SeedRows(Before(i + 1), f)) = ref \cup SeedRefs(R)
  BY <1>1, <1>3, <1>6, SeedJoins
<1> HIDE DEF R
<1>10. rows' = rows \cup R /\ ref' = ref \cup SeedRefs(R)  BY <1>2 DEF Insert
<1>11. { r \in rows' : r[1] \notin {"audit", "counters"} } = SeedRows(Before(i + 1), f)
  BY <1>3, <1>8, <1>9, <1>10
<1>12. named' = { n \in SeedNames(f) : n[1] \in rows' }  BY <1>2, <1>3, <1>10
<1>13. \A p \in DOMAIN slug' : slug'[p] = SeedSlug(p)  BY <1>2, <1>3
<1>14. Filled(f, i + 1)'  BY <1>9, <1>10, <1>11, <1>12, <1>13 DEF Filled
<1>15. QED  BY <1>5, <1>14

\* and the last, with which the seed is there.
LEMMA FillEnds ==
    ASSUME DataOK, ReqOK, CountersOK, NEW f \in Flow, FillNext(f), Filled(f, req[f].step),
           req[f].step = 21
    PROVE  /\ req'[f].pc = "done"
           /\ { r \in rows' : r[1] # "audit" } = Baseline(f)
           /\ ref' = SeedRefs(Baseline(f)) /\ named' = SeedNames(f)
           /\ slug' = [p \in Seeded |-> SeedSlug(p)]
           /\ \A r \in rows' : r \in rows \/ r[1] # "audit"
<1> DEFINE X == InsertScript[21]
           S == SeedRows(X, f)
           R == NewOf(S)
           P == { r[2] : r \in { r \in R : r[1] = "projects" } }
<1>1. /\ \A r \in R : r \notin rows
      /\ Fits(R, SeedRefs(R)) /\ \A p \in P : SlugFree(SeedSlug(p))
  BY FillFits
<1>2. /\ Insert(R, SeedRefs(R))
      /\ slug' = [p \in DOMAIN slug \cup P |-> IF p \in P THEN SeedSlug(p) ELSE slug[p]]
      /\ named' = named \cup { n \in SeedNames(f) : n[1] \in R }
      /\ Answer(f, "done")
  BY <1>1, ScriptEntries DEF FillNext
<1>3. /\ { r \in rows : r[1] \notin {"audit", "counters"} } = SeedRows(Before(21), f)
      /\ ref = SeedRefs(SeedRows(Before(21), f))
      /\ named = { n \in SeedNames(f) : n[1] \in rows }
      /\ \A p \in DOMAIN slug : slug[p] = SeedSlug(p)
  BY DEF Filled
<1>4. req'[f].pc = "done"  BY <1>2 DEF ReqOK, Answer, Quiet
<1>5. /\ SeedEntries = Before(21) \cup X /\ X \subseteq SeedEntries
      /\ Before(21) \subseteq SeedEntries
      /\ \A x \in X : Place(x) = 21
  <2>1. 21 \in 1 .. 21  OBVIOUS
  <2>2. QED  BY <2>1, BeforeNext
<1>6. f \in Writer  BY FlowWriters
<1>7. Baseline(f) = SeedRows(Before(21), f) \cup S
  <2>1. Baseline(f) = SeedRows(SeedEntries, f)  BY ScriptEntries DEF Baseline
  <2>2. QED  BY <2>1, <1>5, SeedJoins
<1>8. X = { x \in SeedEntries : x[1] = "counters" }
  <2>1. X = { x \in SeedEntries : Place(x) = 21 }
    <3>1. 21 \in 1 .. 21  OBVIOUS
    <3>2. QED  BY <3>1, SeedAt
  <2>2. QED  BY <2>1, CountersLast
<1> HIDE DEF X
<1>9. \A r \in S : r[1] = "counters"
  <2>1. \A x \in X : SeedRow(x[1], x[2], f)[1] = x[1]  BY DEF SeedRow
  <2>2. QED  BY <2>1, <1>8 DEF SeedRows
<1>10. \A r \in rows : r[1] = "counters" => r \in S
  <2> SUFFICES ASSUME NEW r \in rows, r[1] = "counters" PROVE r \in S
    OBVIOUS
  <2>1. r[3] = Org /\ (r[2] \in Seeded \/ ProjectRow(r[2]) \in rows)  BY DEF CountersOK
  <2>2. r[2] \in Seeded
    <3>1. CASE ProjectRow(r[2]) \in rows
      <4>1. ProjectRow(r[2])[1] = "projects" /\ ProjectRow(r[2])[2] = r[2]
        BY DEF ProjectRow
      <4>2. ProjectRow(r[2]) \in SeedRows(Before(21), f)  BY <3>1, <4>1, <1>3
      <4>3. \A s \in SeedRows(Before(21), f) : s[1] = "projects" => s[2] \in Seeded
        BY <1>5, <1>6, SeedRowsGood
      <4>4. QED  BY <4>1, <4>2, <4>3
    <3>2. QED  BY <3>1, <2>1
  <2>3. <<"counters", r[2]>> \in X  BY <2>2, <1>8, CountersLast
  <2>4. SeedRow("counters", r[2], f) \in S  BY <2>3 DEF SeedRows
  <2>5. SeedRow("counters", r[2], f) = <<"counters", r[2], Org>>
    BY DEF SeedRow, FixedId, OrgTable
  <2>6. r = <<r[1], r[2], r[3]>>  BY RowForm DEF DataOK
  <2>7. QED  BY <2>1, <2>4, <2>5, <2>6
<1>11. R = S \ rows  BY <1>9 DEF NewOf
<1>12. rows' = rows \cup R /\ ref' = ref \cup SeedRefs(R)  BY <1>2 DEF Insert
<1>13. SeedRefs(R) = {} /\ SeedRefs(S) = {}
  <2>1. \A A : (\A r \in A : r[1] = "counters") => SeedRefs(A) = {}
    BY CountersLast DEF SeedRefs
  <2>2. QED  BY <2>1, <1>9, <1>11
<1> HIDE DEF S
<1>14. ref' = SeedRefs(Baseline(f))
  <2>1. SeedRefs(Baseline(f)) = SeedRefs(SeedRows(Before(21), f)) \cup SeedRefs(S)
    BY <1>7, SeedJoins
  <2>2. QED  BY <2>1, <1>3, <1>12, <1>13
<1>15. \A r \in SeedRows(Before(21), f) : r[1] # "audit" /\ r \in rows  BY <1>3
<1>16. { r \in rows' : r[1] # "audit" } = Baseline(f)
  BY <1>3, <1>7, <1>9, <1>10, <1>11, <1>12, <1>15
<1> HIDE DEF R
<1>17. \A r \in rows' : r \in rows \/ r[1] # "audit"
  BY <1>9, <1>11, <1>12
<1>18. named' = SeedNames(f)
  <2>1. <<"plans", Demo>> \in SeedEntries  BY DEF SeedEntries, SeededForDemo
  <2>2. SeedRow("plans", Demo, f) \in Baseline(f)
    BY <2>1, ScriptEntries DEF Baseline, SeedRows
  <2>3. SeedRow("plans", Demo, f) \in rows'  BY <2>2, <1>16
  <2>4. \A n \in SeedNames(f) : n[1] = SeedRow("plans", Demo, f)  BY DEF SeedNames
  <2>5. QED  BY <2>3, <2>4, <1>2, <1>3, <1>12
<1>19. slug' = [p \in Seeded |-> SeedSlug(p)]
  <2>1. P = {}  BY <1>9, <1>11
  <2>2. DOMAIN slug = Seeded
    <3>1. DOMAIN slug = { p \in Project : ProjectRow(p) \in rows }  BY DEF DataOK, SlugsRight
    <3>2. \A p : ProjectRow(p)[1] = "projects" /\ ProjectRow(p)[2] = p  BY DEF ProjectRow
    <3>3. \A p : ProjectRow(p) \in rows <=> ProjectRow(p) \in Baseline(f)
      BY <1>16, <1>9, <1>11, <1>12, <3>2
    <3>4. ASSUME NEW p \in Seeded PROVE ProjectRow(p) \in Baseline(f)
      <4>1. <<"projects", p>> \in SeedEntries
        BY DEF SeedEntries, SeededForBlank, SeededForDemo, Seeded
      <4>2. SeedRow("projects", p, f) = ProjectRow(p)  BY <4>1, <1>6, SeedRowGood
      <4>3. QED  BY <4>1, <4>2, ScriptEntries DEF Baseline, SeedRows
    <3>5. \A r \in Baseline(f) : r[1] = "projects" => r[2] \in Seeded
      <4>1. SeedEntries \in SUBSET SeedEntries  OBVIOUS
      <4>2. \A r \in SeedRows(SeedEntries, f) : r[1] = "projects" => r[2] \in Seeded
        BY <4>1, <1>6, SeedRowsGood
      <4>3. QED  BY <4>2, ScriptEntries DEF Baseline
    <3>6. QED  BY <3>1, <3>2, <3>3, <3>4, <3>5, FlowWriters
  <2> HIDE DEF P
  <2>3. slug' = [p \in DOMAIN slug |-> slug[p]]  BY <2>1, <1>2
  <2>4. QED  BY <2>2, <2>3, <1>3
<1>20. QED  BY <1>4, <1>14, <1>16, <1>17, <1>18, <1>19

-----------------------------------------------------------------------------
(* What a step adds *)

\* The tables are finitely many.
LEMMA TablesFinite == IsFiniteSet(Table)
<1> DEFINE Few(a, b, c, d, e, g) == {a, b, c, d, e, g}
<1>1. ASSUME NEW a, NEW b, NEW c, NEW d, NEW e, NEW g PROVE IsFiniteSet(Few(a, b, c, d, e, g))
  <2>1. IsFiniteSet({a})  BY FS_Singleton
  <2>2. IsFiniteSet({a} \cup {b})  BY <2>1, FS_AddElement
  <2>3. IsFiniteSet(({a} \cup {b}) \cup {c})  BY <2>2, FS_AddElement
  <2>4. IsFiniteSet((({a} \cup {b}) \cup {c}) \cup {d})  BY <2>3, FS_AddElement
  <2>5. IsFiniteSet(((({a} \cup {b}) \cup {c}) \cup {d}) \cup {e})  BY <2>4, FS_AddElement
  <2>6. IsFiniteSet((((({a} \cup {b}) \cup {c}) \cup {d}) \cup {e}) \cup {g})
    BY <2>5, FS_AddElement
  <2>7. (((({a} \cup {b}) \cup {c}) \cup {d}) \cup {e}) \cup {g} = Few(a, b, c, d, e, g)
    OBVIOUS
  <2> HIDE DEF Few
  <2>8. QED  BY <2>6, <2>7
<1> DEFINE A == Few("users", "projects", "roleDefs", "apiKeys", "roles", "folders")
           B == Few("cases", "requirements", "defects", "plans", "runs", "steps")
           C == Few("caseRequirements", "planCases", "runCases", "assignees", "snapshots",
                    "stepResults")
           D == Few("events", "defectLinks", "execComments", "organisations", "counters",
                    "audit")
<1>2. \A t \in Hanging \cup {"organisations", "counters", "audit"} :
         t \in A \/ t \in B \/ t \in C \/ t \in D
  BY DEF Hanging
<1> HIDE DEF Few
<1>3. IsFiniteSet(A) /\ IsFiniteSet(B) /\ IsFiniteSet(C) /\ IsFiniteSet(D)  BY <1>1
<1> HIDE DEF A, B, C, D
<1>4. IsFiniteSet(A \cup B) /\ IsFiniteSet(C \cup D)  BY <1>3, FS_Union
<1>5. IsFiniteSet((A \cup B) \cup (C \cup D))  BY <1>4, FS_Union
<1>6. Table \subseteq (A \cup B) \cup (C \cup D)  BY <1>2, AboveRequired
<1>7. QED  BY <1>5, <1>6, FS_Subset

\* One of each kind that there is: none is left out.
LEMMA OneOfEach ==
    ASSUME NEW C, NEW S \in kSubset(Cardinality({ r[1] : r \in C }), C),
           { r[1] : r \in C } \subseteq Table, \A r, s \in S : r[1] = s[1] => r = s,
           NEW c \in C
    PROVE  \E s \in S : s[1] = c[1]
<1> DEFINE K == { r[1] : r \in C }
           g == [s \in S |-> s[1]]
<1>1. S \subseteq C /\ Cardinality(S) = Cardinality(K)  BY DEF kSubset
<1>2. IsFiniteSet(K)  BY TablesFinite, FS_Subset
<1>3. g \in Injection(S, K)
  <2>1. g \in [S -> K]  BY <1>1
  <2>2. IsInjective(g)  BY DEF IsInjective
  <2>3. QED  BY <2>1, <2>2 DEF Injection
<1>4. c[1] \in K  OBVIOUS
<1>5. \A s \in S : g[s] = s[1]  OBVIOUS
<1> HIDE DEF K, g
<1>6. g \in Surjection(S, K)  BY <1>1, <1>2, <1>3, FS_Injection
<1>7. \E s \in S : g[s] = c[1]  BY <1>4, <1>6 DEF Surjection
<1>8. QED  BY <1>5, <1>7

\* Where there is an active user, there is the organisation.
LEMMA OrganisationThere ==
    ASSUME DataOK, RowsOK, NEW r \in rows, r[1] \in {"users", "projects"}
    PROVE  Organisation \in rows
<1>1. PICK k \in ref : k[1] = r /\ k[2] \in rows /\ k[2][1] = "organisations"
  BY Climbs DEF Hanging, Above
<1>2. k[2] = <<k[2][1], k[2][2], k[2][3]>>  BY <1>1, RowForm DEF DataOK
<1>3. k[2][2] = Org  BY <1>1 DEF DataOK, OrgRows, OrgTable
<1>4. k[2][3] = Org  BY <1>1 DEF RowsOK, SoleRows
<1>5. QED  BY <1>1, <1>2, <1>3, <1>4 DEF Organisation

\* The organisation has but one row.
LEMMA OneOrganisation ==
    ASSUME DataOK, RowsOK, NEW r \in rows, r[1] = "organisations"
    PROVE  r = Organisation
<1>1. r = <<r[1], r[2], r[3]>>  BY RowForm DEF DataOK
<1>2. r[2] = Org  BY DEF DataOK, OrgRows, OrgTable
<1>3. r[3] = Org  BY DEF RowsOK, SoleRows
<1>4. QED  BY <1>1, <1>2, <1>3 DEF Organisation

\* What is added: numbers of the seed, or of a copy with its project; a row of the
\* audit log with the key to its organisation; and nothing that has no counter.
AddedOK(f, r) ==
    /\ r[1] = "counters" =>
          /\ r[3] = Org
          /\ \/ r[2] \in Seeded
             \/ f \in Clones /\ req[f].pc = "reading" /\ r[2] = f /\ ProjectRow(f) \in rows'
    /\ r[1] = "audit" => <<r, Organisation>> \in ref'
    /\ r[1] \notin Uncounted
Adds(f) ==
    /\ rows \subseteq rows' /\ ref \subseteq ref'
    /\ \A r \in rows' \ rows : AddedOK(f, r)

\* A step that writes nothing.
LEMMA AddsNothing == ASSUME NEW f, UNCHANGED data PROVE Adds(f)
BY DEF Adds, data

\* A statement of the seed adds its rows, none of the audit log;
LEMMA FillAdds ==
    ASSUME ReqOK, NEW f \in Flow, FillNext(f)
    PROVE  Adds(f) /\ \A r \in rows' : r \in rows \/ r[1] # "audit"
<1> DEFINE X == InsertScript[req[f].step]
           R == NewOf(SeedRows(X, f))
           P == { r[2] : r \in { r \in R : r[1] = "projects" } }
           fits == Fits(R, SeedRefs(R)) /\ \A p \in P : SlugFree(SeedSlug(p))
<1>1. CASE ~fits
  <2>1. UNCHANGED data  BY <1>1 DEF FillNext
  <2>2. QED  BY <2>1, AddsNothing DEF data
<1>2. CASE fits
  <2>1. rows' = rows \cup R /\ ref' = ref \cup SeedRefs(R)  BY <1>2 DEF FillNext, Insert
  <2>2. req[f].step \in 1 .. 21  BY ScriptEntries DEF ReqOK, Stage, FillNext
  <2>3. X \in SUBSET SeedEntries  BY <2>2, ScriptEntries
  <2>4. \A r \in R : \E x \in X : r = SeedRow(x[1], x[2], f)  BY DEF NewOf, SeedRows
  <2> HIDE DEF X, R
  <2>5. \A r \in R : AddedOK(f, r) /\ r[1] # "audit"
    <3> SUFFICES ASSUME NEW r \in R PROVE AddedOK(f, r) /\ r[1] # "audit"
      OBVIOUS
    <3>1. PICK x \in X : r = SeedRow(x[1], x[2], f)  BY <2>4
    <3>2. x \in SeedEntries /\ r[1] = x[1] /\ r[2] = x[2]
      BY <2>3, <3>1, FlowWriters, SeedRowGood
    <3>3. r[1] # "audit" /\ r[1] \notin Uncounted  BY <3>2, CountersLast
    <3>4. r[1] = "counters" => r[2] \in Seeded /\ r[3] = Org
      <4>1. "counters" \in FixedId /\ "counters" \notin SeededForOrg
        BY DEF FixedId, SeededForOrg
      <4>2. x[1] = "counters" => x[2] \in Seeded  BY <3>2, <4>1 DEF SeedEntries, Seeded
      <4>3. r[3] = IF x[1] \in FixedId THEN Org ELSE f  BY <3>1 DEF SeedRow
      <4>4. QED  BY <4>1, <4>2, <4>3, <3>2
    <3>5. QED  BY <3>3, <3>4 DEF AddedOK
  <2>6. QED  BY <2>1, <2>5 DEF Adds
<1>3. QED  BY <1>1, <1>2

\* a new project adds its row;
LEMMA ProjectAdds == ASSUME NEW f \in Flow, InsertProject(f) PROVE Adds(f)
<1>1. UNCHANGED data \/ (rows' = rows \cup {ProjectRow(f)} /\ ref \subseteq ref')
  BY DEF InsertProject, Insert
<1>2. ProjectRow(f)[1] = "projects"  BY DEF ProjectRow
<1>3. AddedOK(f, ProjectRow(f))  BY <1>2 DEF AddedOK, Uncounted
<1>4. QED  BY <1>1, <1>3, AddsNothing DEF Adds

\* the commit of a copy adds one number, of its own project;
LEMMA CommitAdds ==
    ASSUME ReqOK, NEW f \in Flow, Took(req[f]), CloneCommit(f) PROVE Adds(f)
<1> DEFINE q == req[f]
           R == CopyRows(q, f)
           F == NewProjectRefs(f) \cup CopyRefs(q, f)
<1>1. q.pc = "reading"  BY DEF CloneCommit
<1>2. \/ UNCHANGED data \/ (rows' = rows \cup R /\ ref' = ref \cup F)
  BY DEF CloneCommit, Insert
<1>3. Stage(f, q) /\ Took(q)  BY DEF ReqOK
<1> HIDE DEF q, F
<1>4. f \in Clones /\ ProjectRow(q.src) \in q.ids /\ \A r \in q.ids : r[1] \notin OrgTable
  BY <1>1, <1>3 DEF Stage
<1>5. \A r \in q.ids : r[1] # "counters" /\ r[1] \notin Uncounted
  <2>1. \A r \in q.ids : r = ProjectRow(q.src) \/ r[1] \in Copied  BY <1>1, <1>3 DEF Took
  <2>2. /\ "counters" \notin Copied /\ Copied \cap Uncounted = {}
        /\ "projects" \notin Uncounted
    BY DEF Copied, Uncounted
  <2>3. ProjectRow(q.src)[1] = "projects"  BY DEF ProjectRow
  <2>4. QED  BY <2>1, <2>2, <2>3
<1>6. \A r \in q.ids : Copy(r, f)[1] \notin {"audit", "counters"} \cup Uncounted
  BY <1>4, <1>5 DEF Copy, OrgTable
<1>7. R = { <<"roles", f, f>>, <<"counters", f, Org>> } \cup { Copy(r, f) : r \in q.ids }
  BY DEF CopyRows
<1> HIDE DEF R
<1>8. ProjectRow(f) \in R
  <2>1. Copy(ProjectRow(q.src), f) = ProjectRow(f)  BY DEF Copy, ProjectRow
  <2>2. QED  BY <2>1, <1>4, <1>7
<1>9. CASE rows' = rows \cup R /\ ref' = ref \cup F
  <2>1. \A r \in R : /\ r[1] \notin {"audit", "counters"} \/ r = <<"counters", f, Org>>
                     /\ r[1] \notin Uncounted
    BY <1>6, <1>7 DEF Uncounted
  <2>2. ProjectRow(f) \in rows'  BY <1>8, <1>9
  <2>3. \A r \in R : AddedOK(f, r)  BY <2>1, <2>2, <1>1, <1>4 DEF AddedOK, q
  <2>4. QED  BY <2>3, <1>9 DEF Adds
<1>10. QED  BY <1>2, <1>9, AddsNothing

\* and an edit a row of the audit log that refers to the organisation.
LEMMA EditAdds ==
    ASSUME DataOK, RowsOK, NEW f \in Flow, NEW p, NEW T \in Writes, Edit(f, p, T),
           T \cap Numbered \subseteq CountedTables
    PROVE  Adds(f)
<1> DEFINE U == T \cup {"audit"}
           R == { Written(t, p, f) : t \in U }
           C == Candidates(U, p)
<1>1. PICK S \in Selections(U, p) : Insert(R, NewRefs(R, S))
  BY DEF Edit
<1>2. Organisation \in rows
  <2>1. Users \in rows /\ Users[1] = "users"  BY DEF Edit, ActorActive, Users
  <2>2. QED  BY <2>1, OrganisationThere
<1>3. rows' = rows \cup R /\ ref' = ref \cup NewRefs(R, S)  BY <1>1 DEF Insert
<1>4. \A t \in T : t \in Table /\ t \notin OrgTable  BY WritesAre
<1>5. Organisation[1] = "organisations" /\ "organisations" \in OrgTable
  BY DEF Organisation, OrgTable
<1>6. "organisations" \in ParentTables({"audit"})
  <2> DEFINE k == <<"audit", "organisations", "setNull">>
  <2>1. k \in Keys /\ k[1] = "audit" /\ k[2] = "organisations" /\ k[3] = "setNull"
    <3>1. k \in AuditKeys  BY DEF AuditKeys
    <3> HIDE DEF k
    <3>2. k \in Keys  BY <3>1 DEF Keys
    <3>3. QED  BY <3>2 DEF k
  <2> HIDE DEF k
  <2>2. "audit" \in Table  BY Tables DEF OrgTable
  <2>3. "organisations" \in Optional["audit"]  BY <2>1, <2>2 DEF Optional
  <2>4. QED  BY <2>3 DEF ParentTables
<1>7. Organisation \in C
  <2>1. "organisations" \in ParentTables(U)  BY <1>6 DEF ParentTables
  <2>2. "organisations" \notin U  BY <1>4, <1>5
  <2> HIDE DEF U
  <2>3. QED  BY <2>1, <2>2, <1>2, <1>5 DEF Candidates
<1>8. \E s \in S : s[1] = "organisations"
  <2>1. /\ S \in kSubset(Cardinality({ r[1] : r \in C }), C)
        /\ \A r, s \in S : r[1] = s[1] => r = s
    BY DEF Selections
  <2>2. C \subseteq rows  BY DEF Candidates
  <2> HIDE DEF C
  <2>3. { r[1] : r \in C } \subseteq Table  BY <2>2, RowForm DEF DataOK
  <2>4. \E s \in S : s[1] = Organisation[1]  BY <2>1, <2>3, <1>7, OneOfEach
  <2>5. QED  BY <2>4, <1>5
<1>9. Organisation \in S
  <2>1. PICK s \in S : s[1] = "organisations"  BY <1>8
  <2>2. S \subseteq rows  BY DEF Selections, kSubset, Candidates
  <2>3. QED  BY <2>1, <2>2, OneOrganisation
<1>10. \A r \in R : r[1] \in U  BY DEF Written
<1>11. "counters" \notin U /\ U \cap Uncounted = {}
  <2>1. \A V \in Writes : "counters" \notin V  BY DEF Writes
  <2>2. T \cap Uncounted = {}  BY DEF Numbered, CountedTables, Uncounted
  <2>3. QED  BY <2>1, <2>2 DEF Uncounted
<1>12. \A r \in R : r[1] = "audit" => <<r, Organisation>> \in NewRefs(R, S)
  <2> HIDE DEF R
  <2>1. \A r \in R, s \in R \cup S : s[1] \in ParentTables({r[1]}) => <<r, s>> \in NewRefs(R, S)
    BY NewRefsAre
  <2>2. QED  BY <2>1, <1>5, <1>6, <1>9
<1> HIDE DEF R, U
<1>13. \A r \in R : AddedOK(f, r)  BY <1>3, <1>10, <1>11, <1>12 DEF AddedOK
<1>14. QED  BY <1>3, <1>13 DEF Adds

\* Every step but a delete only adds.
LEMMA StepsAdd ==
    ASSUME DataOK, ReqOK, RowsOK, NEW f \in Flow, Took(req[f]), Step(f), ~ClearDelete(f)
    PROVE  Adds(f)
<1>1. CASE StartReset(f)  BY <1>1, AddsNothing DEF StartReset
<1>2. CASE ClearRead(f)  BY <1>2, AddsNothing DEF ClearRead
<1>4. CASE Cleared(f)  BY <1>4, AddsNothing DEF Cleared
<1>5. CASE FillNext(f)  BY <1>5, FillAdds
<1>6. CASE \E p \in Sources : StartClone(f, p)  BY <1>6, AddsNothing DEF StartClone
<1>7. CASE CloneRead(f)  BY <1>7, AddsNothing DEF CloneRead
<1>8. CASE CloneCommit(f)  BY <1>8, CommitAdds
<1>9. CASE \E s \in NewSlugs : StartCreate(f, s)  BY <1>9, AddsNothing DEF StartCreate
<1>10. CASE InsertProject(f)  BY <1>10, ProjectAdds
<1>11. CASE \E p \in Sources, T \in Writes : Edit(f, p, T)
  <2>1. PICK p \in Sources, T \in Writes : Edit(f, p, T)  BY <1>11
  <2>2. QED  BY <2>1, EditIs, EditAdds, AddsNothing
<1>12. QED
  BY <1>1, <1>2, <1>4, <1>5, <1>6, <1>7, <1>8, <1>9, <1>10, <1>11 DEF Step

-----------------------------------------------------------------------------
(* The clearing *)

\* What the next statement of a clearing is about.
Target(q) == Belonging(q, ClearScript[q.step][2], ClearScript[q.step][3])

\* In a clearing that is alone, whatever is there of the tables that were read has
\* been kept, and nothing is there of those that were deleted.
Covered(q) ==
    \A j \in 1 .. q.step - 1 :
       /\ ClearScript[j][1] = "read" =>
             \A r \in rows : r[1] = ClearScript[j][2] => r \in q.ids
       /\ ClearScript[j][1] = "delete" =>
             ClearScript[j][2] \in Spared \/ \A r \in rows : r[1] # ClearScript[j][2]

\* What the start of a reset does,
LEMMA StartResetIs ==
    ASSUME ReqOK, NEW f \in Flow, StartReset(f)
    PROVE  /\ f \in Resets /\ req[f].pc = "idle" /\ UNCHANGED data
           /\ \/ req'[f].pc = "failed"
              \/ /\ req'[f].pc = "clearing" /\ req'[f].step = 1
                 /\ req'[f].ids = req[f].ids
<1>1. DOMAIN req = Flow /\ req[f] \in Request  BY DEF ReqOK
<1>2. QED  BY <1>1 DEF StartReset, Answer, Quiet, Request

\* a read of the clearing,
LEMMA ClearReadIs ==
    ASSUME ReqOK, NEW f \in Flow, ClearRead(f)
    PROVE  LET q == req[f]
               kept == Target(q)
           IN  /\ q.pc = "clearing" /\ q.step \in {1, 2, 3, 4, 12, 15} /\ UNCHANGED data
               /\ ClearScript[q.step][1] = "read"
               /\ req'[f].pc = "clearing" /\ req'[f].ids = q.ids \cup kept
               /\ \/ q.step = 1 /\ kept = {} /\ req'[f].step = 27
                  \/ q.step = 2 /\ kept = {} /\ req'[f].step = 25
                  \/ req'[f].step = q.step + 1
<1> DEFINE q == req[f]
           kept == Target(q)
           h == [q EXCEPT !.ids = @ \cup kept, !.step = After(q, kept)]
<1>1. req' = [req EXCEPT ![f] = h]  BY DEF ClearRead, Target
<1>2. q.pc = "clearing" /\ UNCHANGED data /\ ClearScript[q.step][1] = "read"
      /\ q.step \in 1 .. 26
  BY ClearLength DEF ClearRead
<1>3. DOMAIN req = Flow /\ q \in Request  BY DEF ReqOK
<1> HIDE DEF kept
<1>4. req'[f].pc = "clearing" /\ req'[f].ids = q.ids \cup kept /\ req'[f].step = After(q, kept)
  BY <1>1, <1>2, <1>3 DEF Request
<1>5. q.step \in {1, 2, 3, 4, 12, 15}
  <2> HIDE DEF q
  <2>1. QED  BY <1>2, ClearPlaces
<1>6. \/ q.step = 1 /\ kept = {} /\ After(q, kept) = 27
      \/ q.step = 2 /\ kept = {} /\ After(q, kept) = 25
      \/ After(q, kept) = q.step + 1
  <2> DEFINE u == CHOOSE i \in DOMAIN ClearScript : ClearScript[i][2] = "users"
  <2>1. \E i \in DOMAIN ClearScript : ClearScript[i][2] = "users"  BY ClearLength
  <2>2. u \in 1 .. 26 /\ ClearScript[u][2] = "users"  BY <2>1, ClearLength
  <2> HIDE DEF u
  <2>3. u = 25  BY <2>2, ClearPlaces
  <2>4. After(q, kept) = IF q.step = 1 /\ kept = {} THEN 27
                         ELSE IF q.step = 2 /\ kept = {} THEN u ELSE q.step + 1
    BY ClearLength DEF After, u
  <2> HIDE DEF q
  <2>5. QED  BY <2>3, <2>4
<1>7. QED  BY <1>2, <1>4, <1>5, <1>6 DEF kept

\* a delete,
LEMMA ClearDeleteIs ==
    ASSUME ReqOK, NEW f \in Flow, ClearDelete(f)
    PROVE  LET q == req[f]
               gone == Cascaded(Target(q))
           IN  /\ q.pc = "clearing" /\ q.step \in 1 .. 26 /\ q.step >= 5
               /\ ClearScript[q.step][1] = "delete"
               /\ \/ Refused(gone) /\ UNCHANGED data /\ req'[f].pc = "failed"
                  \/ /\ ~Refused(gone) /\ Delete(gone)
                     /\ req'[f].pc = "clearing" /\ req'[f].ids = q.ids
                     /\ req'[f].step = q.step + 1
<1> DEFINE q == req[f]
           gone == Cascaded(Target(q))
<1>1. /\ q.pc = "clearing" /\ q.step \in 1 .. 26 /\ ClearScript[q.step][1] = "delete"
      /\ IF Refused(gone) THEN Answer(f, "failed") /\ UNCHANGED data
         ELSE Delete(gone) /\ req' = [req EXCEPT ![f].step = @ + 1]
  BY ClearLength DEF ClearDelete, Target
<1>2. DOMAIN req = Flow /\ q \in Request  BY DEF ReqOK
<1> HIDE DEF gone
<1>3. CASE Refused(gone)
  <2>1. req'[f].pc = "failed"  BY <1>1, <1>2, <1>3 DEF Answer, Quiet
  <2>2. UNCHANGED data  BY <1>1, <1>3
  <2>3. QED  BY <2>1, <2>2, <1>1, <1>3, ClearPlaces DEF gone
<1>4. CASE ~Refused(gone)
  <2>1. req' = [req EXCEPT ![f].step = @ + 1] /\ Delete(gone)  BY <1>1, <1>4
  <2>2. req'[f].pc = "clearing" /\ req'[f].ids = q.ids /\ req'[f].step = q.step + 1
    BY <2>1, <1>1, <1>2 DEF Request
  <2>3. QED  BY <2>1, <2>2, <1>1, <1>4, ClearPlaces DEF gone
<1>5. QED  BY <1>3, <1>4

\* the end of the clearing,
LEMMA ClearedIs ==
    ASSUME ReqOK, NEW f \in Flow, Cleared(f)
    PROVE  /\ req[f].pc = "clearing" /\ req[f].step > 26 /\ UNCHANGED data
           /\ req'[f].pc = "filling" /\ req'[f].step = 1
<1>1. DOMAIN req = Flow  BY DEF ReqOK
<1>2. QED  BY <1>1, ClearLength DEF Cleared, Quiet

\* and a statement of the seed.
LEMMA FillNextIs ==
    ASSUME ReqOK, NEW f \in Flow, FillNext(f)
    PROVE  /\ req[f].pc = "filling" /\ req[f].step \in 1 .. 21
           /\ req'[f].pc \in {"filling", "done", "failed"}
<1>1. DOMAIN req = Flow /\ req[f] \in Request /\ req[f].pc = "filling"
  BY DEF ReqOK, FillNext
<1>2. req[f].step \in 1 .. 21  BY ScriptEntries DEF ReqOK, Stage, FillNext
<1>3. \/ Answer(f, "done") \/ Answer(f, "failed")
      \/ req' = [req EXCEPT ![f].step = @ + 1]
  BY DEF FillNext
<1>4. CASE req' = [req EXCEPT ![f].step = @ + 1]  BY <1>1, <1>2, <1>4 DEF Request
<1>5. QED  BY <1>1, <1>2, <1>3, <1>4 DEF Answer, Quiet

\* No other step leaves a flow in a reset.
LEMMA OnlyResets ==
    ASSUME ReqOK, NEW f \in Flow, Step(f)
    PROVE  \/ StartReset(f) \/ ClearRead(f) \/ ClearDelete(f) \/ Cleared(f) \/ FillNext(f)
           \/ req'[f].pc \in {"reading", "checked", "done", "failed"}
<1>1. DOMAIN req = Flow  BY DEF ReqOK
<1>2. ASSUME NEW o \in {"done", "failed"}, Answer(f, o) PROVE req'[f].pc = o
  BY <1>1, <1>2 DEF Answer, Quiet
<1>3. CASE \E p \in Sources : StartClone(f, p)  BY <1>1, <1>2, <1>3 DEF StartClone, Quiet
<1>4. CASE CloneRead(f)  BY <1>4, CloneReadIs
<1>5. CASE CloneCommit(f)
  <2>1. Answer(f, "done") \/ Answer(f, "failed")  BY <1>5 DEF CloneCommit
  <2>2. QED  BY <2>1, <1>2
<1>6. CASE \E s \in NewSlugs : StartCreate(f, s)
  BY <1>1, <1>2, <1>6 DEF StartCreate, Quiet
<1>7. CASE InsertProject(f)
  <2>1. Answer(f, "done") \/ Answer(f, "failed")  BY <1>7 DEF InsertProject
  <2>2. QED  BY <2>1, <1>2
<1>8. CASE \E p \in Sources, T \in Writes : Edit(f, p, T)
  <2>1. Answer(f, "done") \/ Answer(f, "failed")  BY <1>8, EditIs
  <2>2. QED  BY <2>1, <1>2
<1>9. QED  BY <1>3, <1>4, <1>5, <1>6, <1>7, <1>8 DEF Step

\* What goes that does not hang below a cascade was the target itself.
LEMMA ShallowGone ==
    ASSUME DataOK, NEW S
    PROVE  /\ S \subseteq Cascaded(S)
           /\ \A r \in Cascaded(S) : Depth(r[1]) = 0 => r \in S
<1>1. \A A : A \subseteq CascadedOnce(A)  BY DEF CascadedOnce
<1>2. \A A : \A r \in CascadedOnce(A) : r \in A \/ Depth(r[1]) # 0
  <2> SUFFICES ASSUME NEW A, NEW k \in ref, Rule(k) = "cascade" PROVE Depth(k[1][1]) # 0
    BY DEF CascadedOnce
  <2>1. k[1] \in Row /\ k[2] \in Row  BY DEF DataOK
  <2>2. k[1][1] \in Table /\ k[2][1] \in Table  BY <2>1, RowForm
  <2>3. Depth(k[2][1]) < Depth(k[1][1])  BY <2>2, RuleOfRequired DEF Rule
  <2>4. Depth(k[2][1]) \in 0 .. 3 /\ Depth(k[1][1]) \in 0 .. 3  BY DEF Depth
  <2>5. QED  BY <2>3, <2>4
<1>3. QED  BY <1>1, <1>2 DEF Cascaded

\* All the target is of its table.
LEMMA TargetTable ==
    ASSUME DataOK, NEW q
    PROVE  \A r \in Target(q) : r \in rows /\ r[1] = ClearScript[q.step][2]
BY DEF Target, Belonging, Children, DataOK

\* In a clearing that is alone the target is the whole of its table.
LEMMA TargetAll ==
    ASSUME DataOK, RowsOK, NEW q, q.step \in 1 .. 26, Covered(q),
           NEW r \in rows, r[1] = ClearScript[q.step][2], r[1] \notin {"audit", "counters"}
    PROVE  r \in Target(q)
<1> DEFINE i == q.step
           t == ClearScript[i][2]
           by == ClearScript[i][3]
           Had(what, u) == \E j \in 1 .. i - 1 : ClearScript[j][1] = what /\ ClearScript[j][2] = u
<1>1. Target(q) = { x \in rows : /\ x[1] = t
                                 /\ \/ t = by /\ (x \in q.ids \/ t = "organisations")
                                    \/ t = "counters" /\ ProjectRow(x[2]) \in q.ids }
                  \cup { k[1] : k \in { k \in ref : k[1][1] = t /\ k[2][1] = by /\ k[2] \in q.ids } }
  BY DEF Target, Belonging, Children
<1>2. /\ \/ t \in {"organisations", "audit", "counters"}
         \/ t \in Hanging /\ by = t /\ Had("read", t)
         \/ t \in Hanging /\ by = Above(t) /\ Had("read", by)
      /\ t = "organisations" => by = "organisations"
  <2>1. ClearFacts(i)  BY ClearOrder
  <2>2. t = "organisations" => by = "organisations"
    <3>1. t = "organisations" => i = 1 \/ i = 26  BY ClearPlaces
    <3>2. ClearScript[1][3] = "organisations" /\ ClearScript[26][3] = "organisations"
      BY ClearIs DEF ClearList
    <3>3. QED  BY <3>1, <3>2
  <2>3. QED  BY <2>1, <2>2 DEF ClearFacts
<1>3. \A u : Had("read", u) => \A x \in rows : x[1] = u => x \in q.ids
  BY DEF Covered
<1> HIDE DEF i, t, by, Had
<1>4. r[1] = t  BY DEF t, i
<1>5. CASE t = "organisations"  BY <1>1, <1>2, <1>4, <1>5
<1>6. CASE t \in Hanging /\ by = t /\ Had("read", t)  BY <1>1, <1>3, <1>4, <1>6
<1>7. CASE t \in Hanging /\ by = Above(t) /\ Had("read", by)
  <2>1. PICK k \in ref : k[1] = r /\ k[2] \in rows /\ k[2][1] = Above(r[1])
    BY <1>4, <1>7, Climbs
  <2>2. k[2] \in q.ids  BY <2>1, <1>3, <1>4, <1>7
  <2>3. QED  BY <2>1, <2>2, <1>1, <1>4, <1>7
<1>8. QED  BY <1>2, <1>4, <1>5, <1>6, <1>7

\* Nothing refuses a delete of a clearing that is alone, for there is no requirement
\* and no defect.
LEMMA AloneClears ==
    ASSUME DataOK, RowsOK, NEW q, q.step \in 1 .. 26, ClearScript[q.step][1] = "delete",
           Covered(q), CountersOK
    PROVE  ~Refused(Cascaded(Target(q)))
<1> DEFINE i == q.step
           S == Target(q)
<1>1. SUFFICES ASSUME NEW k \in ref, k[2] \in Cascaded(S), k[1] \notin Cascaded(S),
                      Rule(k) = "restrict"
               PROVE  FALSE
  BY DEF Refused
<1>2. k[1] \in rows /\ k[2] \in rows /\ k[1][1] \in Table /\ k[2][1] \in Table
  BY RowForm DEF DataOK
<1>3. PICK t, u : t = k[2][1] /\ u = k[1][1]  OBVIOUS
<1>4. <<u, t, "restrict">> \in Keys  BY <1>1, <1>2, <1>3, RuleIs DEF Rule
<1>5. <<u, t>> \in Restricted  BY <1>4, EveryKey DEF KeyFacts
<1>6. t \in {"organisations", "projects", "cases"}  BY <1>5 DEF Restricted
<1>7. Depth(t) = 0  BY <1>6 DEF Depth
<1>8. k[2] \in S  BY <1>1, <1>3, <1>7, ShallowGone
<1>9. t = ClearScript[i][2]  BY <1>3, <1>8, TargetTable
<1>10. u \in {"requirements", "defects"}
       \/ \E j \in 1 .. i - 1 : ClearScript[j][1] = "delete" /\ ClearScript[j][2] = u
  <2>1. ClearFacts(i)  BY ClearOrder
  <2>2. QED  BY <2>1, <1>5, <1>6, <1>9 DEF ClearFacts
<1>11. u \notin {"requirements", "defects"}  BY <1>2, <1>3 DEF CountersOK, Uncounted
<1>12. PICK j \in 1 .. i - 1 : ClearScript[j][1] = "delete" /\ ClearScript[j][2] = u
  BY <1>10, <1>11
<1>13. u \notin Spared  BY <1>5 DEF Restricted, Spared
<1>14. QED  BY <1>2, <1>3, <1>12, <1>13 DEF Covered

\* A statement of a clearing that is alone keeps that it is covered: a read,
LEMMA ReadCovers ==
    ASSUME DataOK, RowsOK, ReqOK, NEW f \in Flow, ClearRead(f), Covered(req[f])
    PROVE  Covered(req[f])'
<1> DEFINE q == req[f]
           h == req'[f]
           kept == Target(q)
<1>1. /\ q.step \in {1, 2, 3, 4, 12, 15} /\ ClearScript[q.step][1] = "read"
      /\ h.ids = q.ids \cup kept
      /\ \/ q.step = 1 /\ kept = {} /\ h.step = 27
         \/ q.step = 2 /\ kept = {} /\ h.step = 25
         \/ h.step = q.step + 1
      /\ rows' = rows
  BY ClearReadIs DEF data
<1>2. Covered(q)  OBVIOUS
<1> HIDE DEF q, h
<1>3. q.step \in 1 .. 26  BY <1>1
<1>4. ClearScript[q.step][2] \notin {"audit", "counters"}  BY <1>1, <1>3, ClearPlaces
<1>5. \A r \in rows : r[1] = ClearScript[q.step][2] => r \in kept
  BY <1>2, <1>3, <1>4, TargetAll
<1> HIDE DEF kept
<1>6. SUFFICES ASSUME NEW j \in 1 .. h.step - 1
               PROVE  /\ ClearScript[j][1] = "read" =>
                            \A r \in rows : r[1] = ClearScript[j][2] => r \in h.ids
                      /\ ClearScript[j][1] = "delete" =>
                            \/ ClearScript[j][2] \in Spared
                            \/ \A r \in rows : r[1] # ClearScript[j][2]
  BY <1>1 DEF Covered, h
<1>7. CASE j < q.step
  <2>1. j \in 1 .. q.step - 1  BY <1>3, <1>7
  <2>2. QED  BY <2>1, <1>1, <1>2 DEF Covered
<1>8. CASE j = q.step  BY <1>1, <1>5, <1>8
<1>9. CASE j > q.step
  <2>1. \/ q.step = 1 /\ kept = {} /\ h.step = 27
        \/ q.step = 2 /\ kept = {} /\ h.step = 25
    BY <1>1, <1>3, <1>9
  <2>2. ClearScript[1][2] = "organisations" /\ ClearScript[2][2] = "projects"
    BY ClearIs DEF ClearList
  <2>3. j \in 1 .. 26  BY <2>1
  <2>4. CASE q.step = 1 /\ kept = {} /\ h.step = 27
    <3>1. \A r \in rows : r[1] \in {"audit", "counters"}  BY <2>2, <2>4, <1>5, AllGoes
    <3>2. ClearScript[j][1] = "read" => ClearScript[j][2] \notin {"audit", "counters"}
      BY <2>3, ClearPlaces
    <3>3. ClearScript[j][2] \in {"audit", "counters"} => ClearScript[j][2] \in Spared
      BY DEF Spared
    <3>4. QED  BY <3>1, <3>2, <3>3
  <2>5. CASE q.step = 2 /\ kept = {} /\ h.step = 25
    <3>1. \A r \in rows : r[1] \in {"organisations", "users"} \cup Spared
      BY <2>2, <2>5, <1>5, AllGoes
    <3>2. j # 1 /\ j # 25 /\ j # 26  BY <2>5, <1>9, <1>6
    <3>3. ClearScript[j][2] \notin {"organisations", "users"}  BY <2>3, <3>2, ClearPlaces
    <3>4. ClearScript[j][1] = "read" => ClearScript[j][2] \notin Spared
      BY <2>3, ClearIs, ClearPlaces DEF ClearList, Spared
    <3>5. QED  BY <3>1, <3>3, <3>4
  <2>6. QED  BY <2>1, <2>4, <2>5
<1>10. QED  BY <1>7, <1>8, <1>9, <1>3, <1>1

\* and a delete.
LEMMA DeleteCovers ==
    ASSUME DataOK, RowsOK, ReqOK, NEW f \in Flow, ClearDelete(f), Covered(req[f]),
           req'[f].pc # "failed"
    PROVE  Covered(req[f])'
<1> DEFINE q == req[f]
           h == req'[f]
           gone == Cascaded(Target(q))
<1>1. /\ q.step \in 1 .. 26 /\ ClearScript[q.step][1] = "delete"
      /\ h.ids = q.ids /\ h.step = q.step + 1 /\ Delete(gone)
  BY ClearDeleteIs
<1>2. rows' = rows \ gone  BY <1>1 DEF Delete
<1>3. Covered(q)  OBVIOUS
<1> HIDE DEF q, h
<1>4. \/ ClearScript[q.step][2] \in Spared
      \/ \A r \in rows : r[1] = ClearScript[q.step][2] => r \in gone
  <2>1. \A r \in rows : r[1] = ClearScript[q.step][2] /\ r[1] \notin {"audit", "counters"}
                           => r \in Target(q)
    BY <1>1, <1>3, TargetAll
  <2>2. Target(q) \subseteq gone  BY ShallowGone
  <2>3. "audit" \in Spared /\ "counters" \in Spared  BY DEF Spared
  <2>4. QED  BY <2>1, <2>2, <2>3
<1> HIDE DEF gone
<1>5. SUFFICES ASSUME NEW j \in 1 .. h.step - 1
               PROVE  /\ ClearScript[j][1] = "read" =>
                            \A r \in rows' : r[1] = ClearScript[j][2] => r \in h.ids
                      /\ ClearScript[j][1] = "delete" =>
                            \/ ClearScript[j][2] \in Spared
                            \/ \A r \in rows' : r[1] # ClearScript[j][2]
  BY DEF Covered, h
<1>6. CASE j < q.step
  <2>1. j \in 1 .. q.step - 1  BY <1>1, <1>6
  <2>2. QED  BY <2>1, <1>1, <1>2, <1>3 DEF Covered
<1>7. CASE j = q.step  BY <1>1, <1>2, <1>4, <1>7
<1>8. QED  BY <1>1, <1>6, <1>7

\* When it has come to its end, only the audit log and counters may be left.
LEMMA ClearedLeaves ==
    ASSUME DataOK, RowsOK, ReqOK, NEW f \in Flow, Cleared(f), Covered(req[f]),
           req[f].step = 27
    PROVE  Filled(f, 1)'
<1>1. UNCHANGED <<rows, ref, named, slug>>  BY ClearedIs DEF data
<1>2. \A r \in rows : r[1] # "organisations"
  <2>1. ClearScript[26][1] = "delete" /\ ClearScript[26][2] = "organisations"
    BY ClearIs DEF ClearList
  <2>2. 26 \in 1 .. req[f].step - 1  OBVIOUS
  <2>3. "organisations" \notin Spared  BY DEF Spared
  <2>4. QED  BY <2>1, <2>2, <2>3 DEF Covered
<1>3. \A r \in rows : r[1] \in {"audit", "counters"}  BY <1>2, AllGoes
<1>4. { r \in rows : r[1] \notin {"audit", "counters"} } = {}  BY <1>3
<1>5. ref = {}
  <2> SUFFICES ASSUME NEW k \in ref PROVE FALSE
    OBVIOUS
  <2>1. k[1] \in rows /\ k[2] \in rows /\ Declared(k)  BY DEF DataOK, RowsOK
  <2>2. CASE k[1][1] = "audit"
    <3>1. k[2][1] = "organisations"  BY <2>1, <2>2, AuditParent DEF Declared, ParentTables
    <3>2. QED  BY <3>1, <2>1, <1>2
  <2>3. CASE k[1][1] = "counters"
    <3>1. "counters" \in Table  BY Tables
    <3>2. \A u \in Required["counters"] \cup Optional["counters"] :
             \E d : KeyFacts(<<"counters", u, d>>)
      BY <3>1, KeyOf, EveryKey
    <3>3. QED  BY <3>2, <2>1, <2>3 DEF Declared, KeyFacts
  <2>4. QED  BY <2>1, <2>2, <2>3, <1>3
<1>6. named = {}
  <2>1. \A n \in named : n[1] \in rows /\ n[1][1] = "plans"  BY DEF DataOK, RowsOK, Naming
  <2>2. QED  BY <2>1, <1>3
<1>7. DOMAIN slug = {}
  <2>1. \A p : ProjectRow(p)[1] = "projects"  BY DEF ProjectRow
  <2>2. QED  BY <2>1, <1>3 DEF DataOK, SlugsRight
<1>8. \A n \in SeedNames(f) : n[1] \notin rows
  <2>1. \A n \in SeedNames(f) : n[1][1] = "plans"  BY DEF SeedNames, SeedRow
  <2>2. QED  BY <2>1, <1>3
<1>9. SeedRows(Before(1), f) = {} /\ SeedRefs({}) = {}
  <2>1. 1 \in 1 .. 21  OBVIOUS
  <2>2. Before(1) = {}  BY <2>1, BeforeNext
  <2>3. QED  BY <2>2 DEF SeedRows, SeedRefs
<1>10. Filled(f, 1)  BY <1>4, <1>5, <1>6, <1>7, <1>8, <1>9 DEF Filled
<1>11. QED  BY <1>1, <1>10 DEF Filled

-----------------------------------------------------------------------------
(* What holds of a reset whoever writes beside it *)

\* Only resets clear and fill; what a clearing keeps at its start is the organisation,
\* and never the project of a copy that is still to be written; and when it has deleted
\* the counters, the projects it keeps have none but the seed's.
Tidy(f) ==
    LET q == req[f]
    IN  /\ q.pc \in {"clearing", "filling"} => f \in Resets
        /\ q.pc = "idle" => q.ids = {}
        /\ q.pc = "clearing" =>
              /\ q.step \in 1 .. 27
              /\ q.step <= 2 => \A r \in q.ids : r[1] = "organisations"
              /\ \A g \in Clones : req[g].pc \in {"idle", "reading"} => ProjectRow(g) \notin q.ids
              /\ q.step > 21 => \A r \in rows :
                    r[1] = "counters" /\ ProjectRow(r[2]) \in q.ids => r[2] \in Seeded

\* A copy that is still to be written was so before.
LEMMA UnwrittenBefore ==
    ASSUME ReqOK, NEW f \in Flow, Step(f), NEW g \in Flow, req'[g].pc \in {"idle", "reading"}
    PROVE  /\ req[g].pc \in {"idle", "reading"}
           /\ req'[g].pc = "idle" => req[g].pc = "idle"
           /\ g \notin Clones => req[g] = req'[g]
<1>1. CASE g # f  BY <1>1, StepsOf
<1>2. CASE g = f
  <2>1. CASE \E p : StartClone(f, p)
    <3>1. req[f].pc = "idle" /\ f \in Clones  BY <2>1 DEF StartClone
    <3>2. QED  BY <3>1, <1>2
  <2>2. CASE CloneRead(f)
    <3>1. f \in Clones /\ req[f].pc = "reading" /\ req'[f].pc = "reading"
      BY <2>2, CloneReadIs
    <3>2. QED  BY <3>1, <1>2
  <2>3. QED  BY <1>2, <2>1, <2>2, StepsOf
<1>3. QED  BY <1>1, <1>2

\* The flows of one kind are not of another.
LEMMA KindsApart == \A f \in Resets : f \notin Clones /\ f \in Flow
BY FlowsAssumption DEF Flow

\* The steps of a reset keep it tidy,
LEMMA OwnTidy ==
    ASSUME DataOK, ReqOK, RowsOK, NEW f \in Flow, Step(f), Tidy(f),
           \A g \in Clones : Unborn(g)
    PROVE  Tidy(f)'
<1> DEFINE q == req[f]
           h == req'[f]
<1>1. CASE StartReset(f)
  <2>1. f \in Resets /\ q.pc = "idle" /\ h.pc \in {"failed", "clearing"}
        /\ (h.pc = "clearing" => h.step = 1 /\ h.ids = q.ids)
    BY <1>1, StartResetIs
  <2>2. q.ids = {}  BY <2>1 DEF Tidy
  <2> HIDE DEF q, h
  <2>3. h.pc = "clearing" => h.ids = {} /\ h.step = 1  BY <2>1, <2>2
  <2>4. QED  BY <2>1, <2>3 DEF Tidy, h
<1>2. CASE ClearRead(f)
  <2> DEFINE kept == Target(q)
  <2>1. /\ q.pc = "clearing" /\ q.step \in {1, 2, 3, 4, 12, 15} /\ UNCHANGED data
        /\ h.pc = "clearing" /\ h.ids = q.ids \cup kept
        /\ \/ q.step = 1 /\ kept = {} /\ h.step = 27
           \/ q.step = 2 /\ kept = {} /\ h.step = 25
           \/ h.step = q.step + 1
    BY <1>2, ClearReadIs
  <2>2. f \in Resets /\ (q.step <= 2 => \A r \in q.ids : r[1] = "organisations")
        /\ \A g \in Clones : req[g].pc \in {"idle", "reading"} => ProjectRow(g) \notin q.ids
    BY <2>1 DEF Tidy
  <2>3. \A r \in kept : r \in rows /\ r[1] = ClearScript[q.step][2]  BY TargetTable
  <2> HIDE DEF kept, q, h
  <2>4. h.step \in 1 .. 27  BY <2>1
  <2>5. h.step <= 2 => \A r \in h.ids : r[1] = "organisations"
    <3>1. ClearScript[1][2] = "organisations"  BY ClearIs DEF ClearList
    <3>2. h.step <= 2 => q.step = 1  BY <2>1
    <3>3. QED  BY <3>1, <3>2, <2>1, <2>2, <2>3
  <2>6. ASSUME NEW g \in Clones, req'[g].pc \in {"idle", "reading"}
        PROVE  ProjectRow(g) \notin h.ids
    <3>1. req[g].pc \in {"idle", "reading"}  BY <2>6, UnwrittenBefore, ClonesApart
    <3>2. \A r \in rows : r[2] # g  BY <3>1 DEF Unborn
    <3>3. ProjectRow(g)[2] = g  BY DEF ProjectRow
    <3>4. QED  BY <3>1, <3>2, <3>3, <2>1, <2>2, <2>3
  <2>7. h.step > 21 => \A r \in h.ids : r[1] = "organisations"
    <3>1. h.step > 21 => kept = {} /\ q.step <= 2  BY <2>1
    <3>2. QED  BY <3>1, <2>1, <2>2
  <2>8. h.step > 21 => \A p : ProjectRow(p) \notin h.ids
    <3>1. \A p : ProjectRow(p)[1] = "projects"  BY DEF ProjectRow
    <3>2. QED  BY <3>1, <2>7
  <2>9. QED  BY <2>1, <2>2, <2>4, <2>5, <2>6, <2>8 DEF Tidy, h
<1>3. CASE ClearDelete(f)
  <2> DEFINE gone == Cascaded(Target(q))
  <2>1. /\ q.pc = "clearing" /\ q.step \in 1 .. 26 /\ q.step >= 5
        /\ \/ h.pc = "failed"
           \/ /\ Delete(gone)
              /\ h.pc = "clearing" /\ h.ids = q.ids /\ h.step = q.step + 1
    BY <1>3, ClearDeleteIs
  <2>2. f \in Resets
        /\ (\A g \in Clones : req[g].pc \in {"idle", "reading"} => ProjectRow(g) \notin q.ids)
        /\ (q.step > 21 => \A r \in rows :
              r[1] = "counters" /\ ProjectRow(r[2]) \in q.ids => r[2] \in Seeded)
    BY <2>1 DEF Tidy
  <2>3. CASE h.pc = "failed"  BY <2>3 DEF Tidy
  <2>4. CASE /\ Delete(gone)
             /\ h.pc = "clearing" /\ h.ids = q.ids /\ h.step = q.step + 1
    <3>1. rows' = rows \ gone  BY <2>4 DEF Delete
    <3>2. ASSUME q.step = 21
          PROVE  \A r \in rows : r[1] = "counters" /\ ProjectRow(r[2]) \in q.ids => r \in gone
      <4>1. ClearScript[21][2] = "counters" /\ ClearScript[21][3] = "projects"
        BY ClearIs DEF ClearList
      <4>2. \A r \in rows : r[1] = "counters" /\ ProjectRow(r[2]) \in q.ids => r \in Target(q)
        BY <4>1, <3>2 DEF Target, Belonging
      <4>3. QED  BY <4>2, ShallowGone
    <3> HIDE DEF q, h, gone
    <3>3. h.step \in 1 .. 27 /\ h.step > 2  BY <2>1, <2>4
    <3>4. ASSUME NEW g \in Clones, req'[g].pc \in {"idle", "reading"}
          PROVE  ProjectRow(g) \notin h.ids
      <4>1. req[g].pc \in {"idle", "reading"}  BY <3>4, UnwrittenBefore, ClonesApart
      <4>2. QED  BY <4>1, <2>2, <2>4
    <3>5. h.step > 21 => \A r \in rows' :
             r[1] = "counters" /\ ProjectRow(r[2]) \in h.ids => r[2] \in Seeded
      <4>1. CASE q.step = 21  BY <4>1, <3>1, <3>2, <2>4
      <4>2. CASE q.step > 21  BY <4>2, <3>1, <2>2, <2>4
      <4>3. QED  BY <4>1, <4>2, <2>1, <2>4
    <3>6. h.pc = "clearing"  BY <2>4
    <3>7. QED  BY <2>2, <3>3, <3>4, <3>5, <3>6 DEF Tidy, h
  <2>5. QED  BY <2>1, <2>3, <2>4
<1>4. CASE Cleared(f)
  <2>1. q.pc = "clearing" /\ h.pc = "filling"  BY <1>4, ClearedIs
  <2>2. f \in Resets  BY <2>1 DEF Tidy
  <2>3. QED  BY <2>1, <2>2 DEF Tidy
<1>5. CASE FillNext(f)
  <2>1. q.pc = "filling" /\ h.pc \in {"filling", "done", "failed"}  BY <1>5, FillNextIs
  <2>2. f \in Resets  BY <2>1 DEF Tidy
  <2>3. QED  BY <2>1, <2>2 DEF Tidy
<1>6. CASE h.pc \in {"reading", "checked", "done", "failed"}  BY <1>6 DEF Tidy
<1>7. QED  BY <1>1, <1>2, <1>3, <1>4, <1>5, <1>6, OnlyResets

\* and so do those of the other flows.
LEMMA StepsTidy ==
    ASSUME DataOK, ReqOK, RowsOK, NEW f \in Flow, Step(f), Took(req[f]),
           \A g \in Flow : Tidy(g), \A g \in Clones : Unborn(g), NEW g \in Flow
    PROVE  Tidy(g)'
<1>1. CASE g = f  BY <1>1, OwnTidy
<1>2. CASE g # f
  <2>1. req'[g] = req[g] /\ Tidy(g)  BY <1>2, StepsOf
  <2> DEFINE q == req[g]
  <2>2. ASSUME q.pc = "clearing", NEW h \in Clones, req'[h].pc \in {"idle", "reading"}
        PROVE  ProjectRow(h) \notin q.ids
    <3>1. req[h].pc \in {"idle", "reading"}  BY <2>2, UnwrittenBefore, ClonesApart
    <3>2. QED  BY <3>1, <2>1, <2>2 DEF Tidy
  <2>3. ASSUME q.pc = "clearing", q.step > 21, NEW r \in rows',
               r[1] = "counters", ProjectRow(r[2]) \in q.ids
        PROVE  r[2] \in Seeded
    <3>1. CASE r \in rows  BY <3>1, <2>1, <2>3 DEF Tidy
    <3>2. CASE r \notin rows
      <4>1. ~ClearDelete(f)
        <5>1. ClearDelete(f) => rows' \subseteq rows
          BY ClearDeleteIs DEF Delete, data
        <5>2. QED  BY <5>1, <3>2
      <4>2. AddedOK(f, r)  BY <4>1, <3>2, StepsAdd DEF Adds
      <4>3. r[2] \in Seeded \/ (f \in Clones /\ req[f].pc = "reading" /\ r[2] = f)
        BY <4>2, <2>3 DEF AddedOK
      <4>4. QED  BY <4>3, <2>1, <2>3 DEF Tidy
    <3>3. QED  BY <3>1, <3>2
  <2>4. QED  BY <2>1, <2>2, <2>3 DEF Tidy
<1>3. QED  BY <1>1, <1>2

\* Numbers stay those of a project that is there, or of the seed: a clearing deletes
\* them before the projects.
LEMMA StepsCounters ==
    ASSUME DataOK, ReqOK, RowsOK, CountersOK, NEW f \in Flow, Step(f), Took(req[f]), Tidy(f)
    PROVE  CountersOK'
<1>1. CASE ~ClearDelete(f)
  <2>1. Adds(f)  BY <1>1, StepsAdd
  <2>2. rows \subseteq rows' /\ \A r \in rows' \ rows : AddedOK(f, r)  BY <2>1 DEF Adds
  <2>3. QED  BY <2>2 DEF CountersOK, AddedOK
<1>2. CASE ClearDelete(f)
  <2> DEFINE q == req[f]
             gone == Cascaded(Target(q))
  <2>1. /\ q.pc = "clearing" /\ q.step \in 1 .. 26 /\ q.step >= 5
        /\ UNCHANGED data \/ Delete(gone)
    BY <1>2, ClearDeleteIs
  <2>2. rows' = rows \/ rows' = rows \ gone  BY <2>1 DEF data, Delete
  <2>3. ASSUME NEW p, ProjectRow(p) \in gone
        PROVE  q.step = 22 /\ ProjectRow(p) \in q.ids
    <3>1. ProjectRow(p)[1] = "projects" /\ Depth("projects") = 0  BY DEF ProjectRow, Depth
    <3>2. ProjectRow(p) \in Target(q)  BY <3>1, <2>3, ShallowGone
    <3>3. ClearScript[q.step][2] = "projects"  BY <3>1, <3>2, TargetTable
    <3> HIDE DEF q, gone
    <3>4. q.step = 22
      <4>1. q.step = 2 \/ q.step = 22  BY <3>3, <2>1, ClearPlaces
      <4>2. QED  BY <4>1, <2>1
    <3>5. ClearScript[22][2] = "projects" /\ ClearScript[22][3] = "projects"
      BY ClearIs DEF ClearList
    <3>6. ProjectRow(p) \in q.ids \/ ProjectRow(p) \in Children(q, "projects", "projects")
      BY <3>2, <3>4, <3>5 DEF Target, Belonging
    <3>7. Children(q, "projects", "projects") = {}
      <4>1. SUFFICES ASSUME NEW k \in ref, k[1][1] = "projects", k[2][1] = "projects"
                     PROVE  FALSE
        BY DEF Children
      <4>2. "projects" \in Table  BY Tables
      <4>3. "projects" \in Required["projects"] \cup Optional["projects"]
        BY <4>1 DEF RowsOK, Declared
      <4>4. \E d : KeyFacts(<<"projects", "projects", d>>)  BY <4>2, <4>3, KeyOf, EveryKey
      <4>5. QED  BY <4>4 DEF KeyFacts
    <3>8. QED  BY <3>4, <3>6, <3>7
  <2>4. q.step = 22 => \A r \in rows :
           r[1] = "counters" /\ ProjectRow(r[2]) \in q.ids => r[2] \in Seeded
    BY <2>1 DEF Tidy
  <2> HIDE DEF q, gone
  <2>5. QED  BY <2>2, <2>3, <2>4 DEF CountersOK
<1>3. QED  BY <1>1, <1>2

-----------------------------------------------------------------------------
(* A reset that nobody disturbs *)

\* While nobody else writes, a clearing is covered,
LEMMA StepsCovered ==
    ASSUME DataOK, ReqOK, RowsOK, NEW f \in Flow, Step(f), Watch(f), NEW g \in Resets,
           req[g].pc = "clearing" /\ g \notin disturbed => Covered(req[g]),
           req'[g].pc = "clearing", g \notin disturbed'
    PROVE  Covered(req[g])'
<1>1. g \in Flow  BY KindsApart
<1>2. Running(g)'  BY DEF Running
<1>3. g \notin disturbed /\ (g # f /\ Running(g) => data' = data)
  BY <1>1, <1>2 DEF Watch
<1>4. CASE g # f
  <2>1. req'[g] = req[g]  BY <1>1, <1>4, StepsOf
  <2>2. Running(g)  BY <2>1 DEF Running
  <2>3. rows' = rows  BY <1>3, <1>4, <2>2 DEF data
  <2>4. Covered(req[g])  BY <1>3, <2>1
  <2>5. QED  BY <2>1, <2>3, <2>4 DEF Covered
<1>5. CASE g = f
  <2>1. CASE StartReset(f)
    <3>1. req'[f].step = 1  BY <2>1, <1>5, StartResetIs
    <3>2. 1 .. 1 - 1 = {}  OBVIOUS
    <3>3. QED  BY <3>1, <3>2, <1>5 DEF Covered
  <2>2. CASE ClearRead(f)
    <3>1. Covered(req[f])  BY <2>2, <1>3, <1>5, ClearReadIs
    <3>2. QED  BY <3>1, <2>2, <1>5, ReadCovers
  <2>3. CASE ClearDelete(f)
    <3>1. Covered(req[f])  BY <2>3, <1>3, <1>5, ClearDeleteIs
    <3>2. QED  BY <3>1, <2>3, <1>5, DeleteCovers
  <2>4. CASE Cleared(f)  BY <2>4, <1>5, ClearedIs
  <2>5. CASE FillNext(f)  BY <2>5, <1>5, FillNextIs
  <2>6. QED  BY <2>1, <2>2, <2>3, <2>4, <2>5, <1>5, OnlyResets
<1>6. QED  BY <1>4, <1>5

\* and a filling has put in just the statements before its next.
FilledNow(f) == Filled(f, req[f].step)

\* That is so after every step.
LEMMA StepsFilled ==
    ASSUME DataOK, ReqOK, RowsOK, CountersOK, NEW f \in Flow, Step(f), Watch(f),
           NEW g \in Resets, Tidy(g),
           req[g].pc = "clearing" /\ g \notin disturbed => Covered(req[g]),
           req[g].pc = "filling" /\ g \notin disturbed => FilledNow(g),
           req'[g].pc = "filling", g \notin disturbed'
    PROVE  FilledNow(g)'
<1>1. g \in Flow  BY KindsApart
<1>2. Running(g)'  BY DEF Running
<1>3. g \notin disturbed /\ (g # f /\ Running(g) => data' = data)
  BY <1>1, <1>2 DEF Watch
<1>4. CASE g # f
  <2>1. req'[g] = req[g]  BY <1>1, <1>4, StepsOf
  <2>2. Running(g)  BY <2>1 DEF Running
  <2>3. rows' = rows /\ ref' = ref /\ named' = named /\ slug' = slug
    BY <1>3, <1>4, <2>2 DEF data
  <2>4. FilledNow(g)  BY <1>3, <2>1
  <2>5. QED  BY <2>1, <2>3, <2>4 DEF FilledNow, Filled
<1>5. CASE g = f
  <2>1. CASE StartReset(f)  BY <2>1, <1>5, StartResetIs
  <2>2. CASE ClearRead(f)  BY <2>2, <1>5, ClearReadIs
  <2>3. CASE ClearDelete(f)  BY <2>3, <1>5, ClearDeleteIs
  <2>4. CASE Cleared(f)
    <3>1. req[f].pc = "clearing" /\ req[f].step > 26 /\ req'[f].step = 1
      BY <2>4, ClearedIs
    <3>2. req[f].step = 27  BY <3>1, <1>5 DEF Tidy
    <3>3. Covered(req[f])  BY <3>1, <1>3, <1>5
    <3>4. Filled(f, 1)'  BY <3>2, <3>3, <2>4, ClearedLeaves
    <3>5. QED  BY <3>1, <3>4, <1>5 DEF FilledNow, Filled
  <2>5. CASE FillNext(f)
    <3>1. req[f].pc = "filling" /\ req[f].step \in 1 .. 21  BY <2>5, FillNextIs
    <3>2. FilledNow(f)  BY <3>1, <1>3, <1>5
    <3>3. PICK i \in 1 .. 21 : req[f].step = i  BY <3>1
    <3>4. CASE i = 21
      <4>1. req'[f].pc = "done"  BY <3>2, <3>3, <3>4, <2>5, FillEnds DEF FilledNow
      <4>2. QED  BY <4>1, <1>5
    <3>5. CASE i < 21
      <4>1. Filled(f, i)  BY <3>2, <3>3 DEF FilledNow
      <4>2. Filled(f, i + 1)' /\ req'[f].step = i + 1
        BY <4>1, <3>3, <3>5, <2>5, FillGoesOn
      <4>3. QED  BY <4>2, <1>5 DEF FilledNow, Filled
    <3>6. QED  BY <3>4, <3>5
  <2>6. QED  BY <2>1, <2>2, <2>3, <2>4, <2>5, <1>5, OnlyResets
<1>6. QED  BY <1>4, <1>5

\* While no other reset has started, every row of the audit log refers to the
\* organisation until it is cleared and the Demo project is there until the clearing
\* has read the projects; and when nobody writes, the audit log stays cleared.
Fresh(f) ==
    (\A g \in Resets \ {f} : req[g].pc = "idle") =>
      /\ req[f].pc = "idle" \/ (req[f].pc = "clearing" /\ req[f].step <= 20) =>
            \A r \in rows : r[1] = "audit" => <<r, Organisation>> \in ref
      /\ req[f].pc = "idle" \/ (req[f].pc = "clearing" /\ req[f].step <= 2) =>
            ProjectRow(Demo) \in rows
      /\ f \notin disturbed
         /\ (req[f].pc = "filling" \/ (req[f].pc = "clearing" /\ req[f].step > 20)) =>
            \A r \in rows : r[1] # "audit"

\* A clearing that is alone takes the audit log with it,
LEMMA AuditGoes ==
    ASSUME DataOK, NEW q, q.step = 20, Covered(q),
           NEW r \in rows, r[1] = "audit", <<r, Organisation>> \in ref
    PROVE  r \in Cascaded(Target(q))
<1>1. ClearScript[20][2] = "audit" /\ ClearScript[20][3] = "organisations"
      /\ ClearScript[1][1] = "read" /\ ClearScript[1][2] = "organisations"
  BY ClearIs DEF ClearList
<1>2. Organisation \in rows /\ Organisation[1] = "organisations"
  BY DEF DataOK, Organisation
<1>3. 1 \in 1 .. q.step - 1  OBVIOUS
<1>4. Organisation \in q.ids  BY <1>1, <1>2, <1>3 DEF Covered
<1>5. PICK k \in ref : k[1] = r /\ k[2] = Organisation  OBVIOUS
<1>6. r \in Children(q, "audit", "organisations")
  BY <1>2, <1>4, <1>5 DEF Children
<1>7. r \in Target(q)  BY <1>1, <1>6 DEF Target, Belonging
<1>8. QED  BY <1>7, ShallowGone

\* and leaves the organisation to the last.
LEMMA OrganisationLast ==
    ASSUME DataOK, NEW q, q.step \in 5 .. 19
    PROVE  Organisation \notin Cascaded(Target(q))
<1>1. SUFFICES ASSUME Organisation \in Cascaded(Target(q)) PROVE FALSE
  OBVIOUS
<1>2. Organisation[1] = "organisations" /\ Depth("organisations") = 0
  BY DEF Organisation, Depth
<1>3. Organisation \in Target(q)  BY <1>1, <1>2, ShallowGone
<1>4. ClearScript[q.step][2] = "organisations"  BY <1>2, <1>3, TargetTable
<1>5. q.step \in 1 .. 26  OBVIOUS
<1>6. QED  BY <1>4, <1>5, ClearPlaces

\* The steps of the reset itself,
LEMMA OwnFresh ==
    ASSUME DataOK, ReqOK, RowsOK, NEW f \in Resets, f \in Flow, Step(f), Watch(f), Fresh(f),
           Tidy(f), req[f].pc = "clearing" /\ f \notin disturbed => Covered(req[f])
    PROVE  Fresh(f)'
<1> DEFINE q == req[f]
           h == req'[f]
           Audited == \A r \in rows : r[1] = "audit" => <<r, Organisation>> \in ref
           Logless == \A r \in rows : r[1] # "audit"
<1>1. SUFFICES ASSUME \A g \in Resets \ {f} : req'[g].pc = "idle"
               PROVE  /\ h.pc = "idle" \/ (h.pc = "clearing" /\ h.step <= 20) => Audited'
                      /\ h.pc = "idle" \/ (h.pc = "clearing" /\ h.step <= 2) =>
                            ProjectRow(Demo) \in rows'
                      /\ f \notin disturbed'
                         /\ (h.pc = "filling" \/ (h.pc = "clearing" /\ h.step > 20)) =>
                            Logless'
  BY DEF Fresh
<1>2. \A g \in Resets \ {f} : req[g].pc = "idle"
  <2>1. \A g \in Resets \ {f} : g \in Flow  BY KindsApart
  <2>2. QED  BY <1>1, <2>1, StepsOf
<1>3. /\ q.pc = "idle" \/ (q.pc = "clearing" /\ q.step <= 20) => Audited
      /\ q.pc = "idle" \/ (q.pc = "clearing" /\ q.step <= 2) => ProjectRow(Demo) \in rows
      /\ f \notin disturbed /\ (q.pc = "filling" \/ (q.pc = "clearing" /\ q.step > 20)) =>
            Logless
  BY <1>2 DEF Fresh
<1>4. f \notin disturbed' /\ (h.pc = "filling" \/ h.pc = "clearing") => f \notin disturbed
  BY DEF Watch, Running
<1>5. CASE StartReset(f)
  <2>1. q.pc = "idle" /\ UNCHANGED data
        /\ (h.pc = "failed" \/ (h.pc = "clearing" /\ h.step = 1))
    BY <1>5, StartResetIs
  <2> HIDE DEF q, h
  <2>2. QED  BY <2>1, <1>3 DEF data
<1>6. CASE ClearRead(f)
  <2> DEFINE kept == Target(q)
  <2>1. /\ q.pc = "clearing" /\ q.step \in {1, 2, 3, 4, 12, 15} /\ UNCHANGED data
        /\ h.pc = "clearing"
        /\ \/ q.step = 1 /\ kept = {} /\ h.step = 27
           \/ q.step = 2 /\ kept = {} /\ h.step = 25
           \/ h.step = q.step + 1
    BY <1>6, ClearReadIs
  <2>2. ASSUME f \notin disturbed', h.step > 20 PROVE FALSE
    <3>1. f \notin disturbed  BY <2>1, <2>2, <1>4
    <3>2. Covered(q)  BY <3>1, <2>1
    <3>3. q.step \in {1, 2} /\ kept = {}  BY <2>1, <2>2
    <3>4. ProjectRow(Demo) \in rows /\ ProjectRow(Demo)[1] = "projects"
      BY <2>1, <3>3, <1>3 DEF ProjectRow
    <3>5. Organisation \in rows /\ Organisation[1] = "organisations"
      BY <3>4, OrganisationThere DEF Organisation
    <3>6. ClearScript[1][2] = "organisations" /\ ClearScript[2][2] = "projects"
      BY ClearIs DEF ClearList
    <3> HIDE DEF q, h
    <3>7. q.step \in 1 .. 26  BY <3>3
    <3>8. CASE q.step = 1
      <4>1. Organisation \in kept  BY <3>2, <3>5, <3>6, <3>7, <3>8, TargetAll
      <4>2. QED  BY <4>1, <3>3
    <3>9. CASE q.step = 2
      <4>1. ProjectRow(Demo) \in kept  BY <3>2, <3>4, <3>6, <3>7, <3>9, TargetAll
      <4>2. QED  BY <4>1, <3>3
    <3>10. QED  BY <3>3, <3>8, <3>9
  <2> HIDE DEF q, h, kept
  <2>3. h.step <= 20 => q.step <= 20  BY <2>1
  <2>4. h.step <= 2 => q.step <= 2  BY <2>1
  <2>5. QED  BY <2>1, <2>2, <2>3, <2>4, <1>3 DEF data
<1>7. CASE ClearDelete(f)
  <2> DEFINE gone == Cascaded(Target(q))
  <2>1. /\ q.pc = "clearing" /\ q.step \in 1 .. 26 /\ q.step >= 5
        /\ \/ h.pc = "failed"
           \/ /\ Delete(gone)
              /\ h.pc = "clearing" /\ h.step = q.step + 1
    BY <1>7, ClearDeleteIs
  <2>2. CASE h.pc = "failed"  BY <2>2
  <2>3. CASE Delete(gone) /\ h.pc = "clearing" /\ h.step = q.step + 1
    <3>1. /\ rows' = rows \ gone
          /\ ref' = { k \in ref : k[1] \notin gone /\ k[2] \notin gone }
      BY <2>3 DEF Delete
    <3>2. q.step \in 5 .. 19 => Organisation \notin gone  BY OrganisationLast
    <3>3. q.step <= 19 => Audited'
      <4> HIDE DEF q, gone
      <4> SUFFICES ASSUME q.step <= 19, NEW r \in rows', r[1] = "audit"
                   PROVE  <<r, Organisation>> \in ref'
        OBVIOUS
      <4>1. r \in rows /\ r \notin gone  BY <3>1
      <4>2. Audited  BY <1>3, <2>1
      <4>3. <<r, Organisation>> \in ref  BY <4>1, <4>2
      <4>4. Organisation \notin gone  BY <2>1, <3>2
      <4>5. QED  BY <3>1, <4>1, <4>3, <4>4
    <3>4. f \notin disturbed' /\ q.step >= 20 => Logless'
      <4> SUFFICES ASSUME f \notin disturbed', q.step >= 20, NEW r \in rows', r[1] = "audit"
                   PROVE  FALSE
        OBVIOUS
      <4>1. r \in rows /\ r \notin gone  BY <3>1
      <4>2. f \notin disturbed  BY <1>4, <2>3
      <4>3. Covered(q)  BY <4>2, <2>1
      <4>4. CASE q.step = 20
        <5>1. <<r, Organisation>> \in ref  BY <1>3, <2>1, <4>1, <4>4
        <5>2. r \in gone  BY <4>1, <4>3, <4>4, <5>1, AuditGoes
        <5>3. QED  BY <4>1, <5>2
      <4>5. CASE q.step > 20  BY <1>3, <2>1, <4>1, <4>2, <4>5
      <4>6. QED  BY <4>4, <4>5, <2>1
    <3> HIDE DEF q, h, gone, Audited, Logless
    <3>5. (h.step <= 20 => q.step <= 19) /\ ~(h.step <= 2) /\ (h.step > 20 => q.step >= 20)
      BY <2>1, <2>3
    <3>6. QED  BY <2>3, <3>3, <3>4, <3>5
  <2>4. QED  BY <2>1, <2>2, <2>3
<1>8. CASE Cleared(f)
  <2>1. q.pc = "clearing" /\ q.step > 26 /\ UNCHANGED data /\ h.pc = "filling"
    BY <1>8, ClearedIs
  <2>2. q.step > 20
    <3>1. q.step \in 1 .. 27  BY <2>1 DEF Tidy
    <3>2. QED  BY <2>1, <3>1
  <2> HIDE DEF q, h
  <2>3. QED  BY <2>1, <2>2, <1>3, <1>4 DEF data
<1>9. CASE FillNext(f)
  <2>1. q.pc = "filling" /\ h.pc \in {"filling", "done", "failed"}  BY <1>9, FillNextIs
  <2>2. \A r \in rows' : r \in rows \/ r[1] # "audit"  BY <1>9, FillAdds
  <2> HIDE DEF q, h
  <2>3. QED  BY <2>1, <2>2, <1>3, <1>4
<1>10. CASE h.pc \in {"reading", "checked", "done", "failed"}  BY <1>10
<1>11. QED  BY <1>5, <1>6, <1>7, <1>8, <1>9, <1>10, OnlyResets

\* and of the other flows.
LEMMA StepsFresh ==
    ASSUME DataOK, ReqOK, RowsOK, NEW f \in Flow, Step(f), Watch(f), Took(req[f]), Tidy(f),
           NEW g \in Resets, Fresh(g),
           req[g].pc = "clearing" /\ g \notin disturbed => Covered(req[g])
    PROVE  Fresh(g)'
<1>1. g \in Flow  BY KindsApart
<1>2. CASE g = f  BY <1>1, <1>2, OwnFresh
<1>3. CASE g # f
  <2>1. SUFFICES ASSUME \A h \in Resets \ {g} : req'[h].pc = "idle" PROVE Fresh(g)'
    BY DEF Fresh
  <2>2. f \notin Resets
    <3>1. SUFFICES ASSUME f \in Resets PROVE FALSE
      OBVIOUS
    <3>2. req'[f].pc = "idle"  BY <3>1, <2>1, <1>3
    <3>3. f \notin Clones  BY <3>1, KindsApart
    <3>4. ~CloneRead(f)  BY <3>2, CloneReadIs
    <3>5. \A p : ~StartClone(f, p)  BY <3>3 DEF StartClone
    <3>6. QED  BY <3>2, <3>4, <3>5, StepsOf
  <2>3. \A h \in Resets \ {g} : req[h].pc = "idle"
    <3>1. \A h \in Resets \ {g} : h \in Flow /\ h # f  BY <2>2, KindsApart
    <3>2. QED  BY <2>1, <3>1, StepsOf
  <2>4. req'[g] = req[g]  BY <1>1, <1>3, StepsOf
  <2>5. ~ClearDelete(f)
    <3>1. ClearDelete(f) => req[f].pc = "clearing"  BY ClearDeleteIs
    <3>2. QED  BY <3>1, <2>2 DEF Tidy
  <2>6. rows \subseteq rows' /\ ref \subseteq ref' /\ \A r \in rows' \ rows : AddedOK(f, r)
    BY <2>5, StepsAdd DEF Adds
  <2>7. g \notin disturbed' /\ Running(g) => g \notin disturbed /\ data' = data
    BY <1>1, <1>3, <2>4 DEF Watch, Running
  <2>8. (\A r \in rows : r[1] = "audit" => <<r, Organisation>> \in ref) =>
           \A r \in rows' : r[1] = "audit" => <<r, Organisation>> \in ref'
    BY <2>6 DEF AddedOK
  <2>9. g \notin disturbed' /\ Running(g) => g \notin disturbed /\ rows' = rows
    BY <2>7 DEF data
  <2> DEFINE q == req[g]
  <2>10. /\ q.pc = "idle" \/ (q.pc = "clearing" /\ q.step <= 20) =>
               \A r \in rows : r[1] = "audit" => <<r, Organisation>> \in ref
         /\ q.pc = "idle" \/ (q.pc = "clearing" /\ q.step <= 2) => ProjectRow(Demo) \in rows
         /\ g \notin disturbed
            /\ (q.pc = "filling" \/ (q.pc = "clearing" /\ q.step > 20)) =>
               \A r \in rows : r[1] # "audit"
    BY <2>3 DEF Fresh
  <2>11. q.pc \in {"filling", "clearing"} => Running(g)  BY DEF Running
  <2>12. req'[g] = q  BY <2>4
  <2> HIDE DEF q
  <2>13. QED  BY <2>6, <2>8, <2>9, <2>10, <2>11, <2>12 DEF Fresh
<1>4. QED  BY <1>2, <1>3

\* What is inductive with CopyInv for the resets.
ResetInv ==
    /\ CountersOK
    /\ \A f \in Flow : Tidy(f)
    /\ \A f \in Resets : req[f].pc = "clearing" /\ f \notin disturbed => Covered(req[f])
    /\ \A f \in Resets : req[f].pc = "filling" /\ f \notin disturbed => FilledNow(f)
    /\ \A f \in Resets : Fresh(f)

\* The seed has it,
LEMMA InitReset == Init => ResetInv
<1> SUFFICES ASSUME Init PROVE ResetInv
  OBVIOUS
<1>1. rows = SeedRows(SeedEntries, Org) /\ req = [f \in Flow |-> Quiet]
  BY ScriptEntries DEF Init, Baseline
<1>2. ASSUME NEW r \in rows
      PROVE  /\ r[1] # "audit" /\ r[1] \notin Uncounted
             /\ r[1] = "counters" => r[3] = Org /\ r[2] \in Seeded
  <2>1. PICK x \in SeedEntries : r = SeedRow(x[1], x[2], Org)  BY <1>1 DEF SeedRows
  <2>2. r[1] = x[1] /\ r[2] = x[2]  BY <2>1, FlowWriters, SeedRowGood
  <2>3. x[1] # "audit" /\ x[1] \notin Uncounted  BY CountersLast
  <2>4. x[1] = "counters" => x[2] \in Seeded
    <3>1. "counters" \notin SeededForOrg  BY DEF SeededForOrg
    <3>2. QED  BY <3>1 DEF SeedEntries, Seeded
  <2>5. r[3] = Org  BY <2>1 DEF SeedRow
  <2>6. QED  BY <2>2, <2>3, <2>4, <2>5
<1>3. CountersOK  BY <1>2 DEF CountersOK
<1>4. Quiet.pc = "idle" /\ Quiet.ids = {}  BY DEF Quiet
<1>5. \A f \in Flow : req[f].pc = "idle" /\ req[f].ids = {}  BY <1>1, <1>4
<1>6. \A f \in Flow : Tidy(f)  BY <1>5 DEF Tidy
<1>7. \A f \in Resets : req[f].pc = "idle"  BY <1>5, KindsApart
<1>8. ProjectRow(Demo) \in rows
  <2>1. <<"projects", Demo>> \in SeedEntries  BY DEF SeedEntries, SeededForDemo
  <2>2. SeedRow("projects", Demo, Org) = ProjectRow(Demo)
    BY <2>1, SeedRowGood, FlowWriters
  <2>3. QED  BY <2>1, <2>2, <1>1 DEF SeedRows
<1>9. \A f \in Resets : Fresh(f)  BY <1>2, <1>7, <1>8 DEF Fresh
<1>10. QED  BY <1>3, <1>6, <1>7, <1>9 DEF ResetInv

\* and every step keeps it.
LEMMA ResetInvKept == Spec => []ResetInv
<1>1. CopyInv /\ ResetInv /\ [Next]_vars => ResetInv'
  <2> SUFFICES ASSUME CopyInv, ResetInv, [Next]_vars PROVE ResetInv'
    OBVIOUS
  <2>1. DataOK /\ ReqOK  BY Parts DEF CopyInv
  <2>2. /\ RowsOK /\ (\A g \in Flow : Took(req[g])) /\ (\A g \in Clones : Unborn(g))
        /\ CountersOK /\ (\A g \in Flow : Tidy(g))
        /\ (\A g \in Resets : req[g].pc = "clearing" /\ g \notin disturbed => Covered(req[g]))
        /\ (\A g \in Resets : req[g].pc = "filling" /\ g \notin disturbed => FilledNow(g))
        /\ (\A g \in Resets : Fresh(g))
    BY DEF CopyInv, ResetInv
  <2>3. CASE UNCHANGED vars
    <3>1. UNCHANGED <<rows, ref, named, slug, req, disturbed>>  BY <2>3 DEF vars
    <3>2. CountersOK'  BY <2>2, <3>1 DEF CountersOK
    <3>3. (\A g \in Flow : Tidy(g))'  BY <2>2, <3>1 DEF Tidy
    <3>4. (\A g \in Resets : req[g].pc = "clearing" /\ g \notin disturbed => Covered(req[g]))'
      BY <2>2, <3>1 DEF Covered
    <3>5. (\A g \in Resets : req[g].pc = "filling" /\ g \notin disturbed => FilledNow(g))'
      BY <2>2, <3>1 DEF FilledNow, Filled
    <3>6. (\A g \in Resets : Fresh(g))'  BY <2>2, <3>1 DEF Fresh
    <3>7. QED  BY <3>2, <3>3, <3>4, <3>5, <3>6 DEF ResetInv
  <2>4. CASE Next
    <3>1. PICK f \in Flow : Step(f) /\ Watch(f)  BY <2>4 DEF Next
    <3>2. CountersOK'  BY <2>1, <2>2, <3>1, StepsCounters
    <3>3. (\A g \in Flow : Tidy(g))'  BY <2>1, <2>2, <3>1, StepsTidy
    <3>4. ASSUME NEW g \in Resets, req'[g].pc = "clearing", g \notin disturbed'
          PROVE  Covered(req[g])'
      BY <2>1, <2>2, <3>1, <3>4, StepsCovered
    <3>5. ASSUME NEW g \in Resets, req'[g].pc = "filling", g \notin disturbed'
          PROVE  FilledNow(g)'
      <4>1. g \in Flow  BY KindsApart
      <4>2. QED  BY <2>1, <2>2, <3>1, <3>5, <4>1, StepsFilled
    <3>6. (\A g \in Resets : Fresh(g))'  BY <2>1, <2>2, <3>1, StepsFresh
    <3>7. QED  BY <3>2, <3>3, <3>4, <3>5, <3>6 DEF ResetInv
  <2>5. QED  BY <2>3, <2>4
<1>2. QED  BY <1>1, InitReset, CopyInvKept, PTL DEF Spec

\* A reset during which nobody wrote gets to its end, and leaves just the seed: but for
\* what another reset, if one has run, has left in the audit log without its
\* organisation.
THEOREM AloneRestoresSeed == Spec => AloneRestores
<1>1. CopyInv /\ ResetInv /\ [Next]_vars =>
        [ \A f \in Resets :
            Running(f) /\ ~Running(f)' /\ f \notin disturbed =>
              /\ req'[f].pc = "done"
              /\ { r \in rows' : r[1] # "audit" } = Baseline(f)
              /\ ref' = SeedRefs(Baseline(f)) /\ named' = SeedNames(f)
              /\ slug' = [p \in Seeded |-> SeedSlug(p)]
              /\ (\A g \in Resets \ {f} : req[g].pc = "idle") => rows' = Baseline(f)
        ]_vars
  <2> SUFFICES ASSUME CopyInv, ResetInv, Next, NEW f \in Resets,
                      Running(f), ~Running(f)', f \notin disturbed
               PROVE  /\ req'[f].pc = "done"
                      /\ { r \in rows' : r[1] # "audit" } = Baseline(f)
                      /\ ref' = SeedRefs(Baseline(f)) /\ named' = SeedNames(f)
                      /\ slug' = [p \in Seeded |-> SeedSlug(p)]
                      /\ (\A g \in Resets \ {f} : req[g].pc = "idle") =>
                            rows' = Baseline(f)
    OBVIOUS
  <2>1. DataOK /\ ReqOK /\ RowsOK  BY Parts DEF CopyInv
  <2>2. f \in Flow /\ f \notin Clones  BY KindsApart
  <2>3. PICK g \in Flow : Step(g)  BY DEF Next
  <2>4. g = f
    <3>1. g # f => req'[f] = req[f]  BY <2>1, <2>2, <2>3, StepsOf
    <3>2. QED  BY <3>1 DEF Running
  <2>5. FillNext(f)
    <3>1. ~StartReset(f)  BY <2>1, <2>2, StartResetIs DEF Running
    <3>2. ~ClearRead(f)  BY <2>1, <2>2, ClearReadIs DEF Running
    <3>3. ~ClearDelete(f)
      <4>1. SUFFICES ASSUME ClearDelete(f) PROVE FALSE
        OBVIOUS
      <4>2. req[f].pc = "clearing" /\ req[f].step \in 1 .. 26
            /\ ClearScript[req[f].step][1] = "delete"
        BY <4>1, <2>1, <2>2, ClearDeleteIs
      <4>3. Covered(req[f])  BY <4>2 DEF ResetInv
      <4>4. ~Refused(Cascaded(Target(req[f])))
        BY <4>2, <4>3, <2>1, AloneClears DEF ResetInv
      <4>5. req'[f].pc = "clearing"  BY <4>1, <4>4, <2>1, <2>2, ClearDeleteIs
      <4>6. QED  BY <4>5 DEF Running
    <3>4. ~Cleared(f)  BY <2>1, <2>2, ClearedIs DEF Running
    <3>5. \A p : ~StartClone(f, p)  BY <2>2 DEF StartClone
    <3>6. ~CloneRead(f) /\ ~CloneCommit(f)
      <4>1. req[f].pc # "reading"  BY <2>1, <2>2 DEF ReqOK, Stage
      <4>2. QED  BY <4>1 DEF CloneRead, CloneCommit
    <3>7. /\ \A s : ~StartCreate(f, s)
          /\ ~InsertProject(f)
          /\ \A p, T : ~Edit(f, p, T)
      <4>1. f \notin Others  BY FlowsAssumption
      <4>2. QED  BY <4>1 DEF StartCreate, InsertProject, Edit
    <3>8. QED  BY <3>1, <3>2, <3>3, <3>4, <3>5, <3>6, <3>7, <2>3, <2>4 DEF Step
  <2>6. req[f].pc = "filling" /\ req[f].step \in 1 .. 21  BY <2>1, <2>2, <2>5, FillNextIs
  <2>7. FilledNow(f) /\ CountersOK  BY <2>6 DEF ResetInv
  <2>8. PICK i \in 1 .. 21 : req[f].step = i  BY <2>6
  <2>9. i = 21
    <3>1. SUFFICES ASSUME i < 21 PROVE FALSE
      BY <2>8
    <3>2. Filled(f, i)  BY <2>7, <2>8 DEF FilledNow
    <3>3. req'[f].pc = "filling"  BY <2>1, <2>2, <2>5, <2>8, <3>1, <3>2, FillGoesOn
    <3>4. QED  BY <3>3 DEF Running
  <2>10. /\ req'[f].pc = "done"
         /\ { r \in rows' : r[1] # "audit" } = Baseline(f)
         /\ ref' = SeedRefs(Baseline(f)) /\ named' = SeedNames(f)
         /\ slug' = [p \in Seeded |-> SeedSlug(p)]
         /\ \A r \in rows' : r \in rows \/ r[1] # "audit"
    BY <2>1, <2>2, <2>5, <2>7, <2>8, <2>9, FillEnds DEF FilledNow
  <2>11. ASSUME \A h \in Resets \ {f} : req[h].pc = "idle" PROVE rows' = Baseline(f)
    <3>1. \A r \in rows : r[1] # "audit"  BY <2>6, <2>11 DEF ResetInv, Fresh
    <3>2. \A r \in rows' : r[1] # "audit"  BY <3>1, <2>10
    <3>3. QED  BY <3>2, <2>10
  <2>12. QED  BY <2>10, <2>11
<1>2. QED  BY <1>1, CopyInvKept, ResetInvKept, PTL DEF Spec, AloneRestores

-----------------------------------------------------------------------------
(* UserAdmin *)

\* A handler that has loaded its target has found it, and users stay.
Found ==
    \A r \in Handlers :
        handler[r].op = "update" /\ handler[r].pc # "load target" =>
            user[handler[r].target] # NoRow

\* No handler has written since this one's actor was checked: the admin it
\* counted is still there.
Alone ==
    \A r \in Handlers :
        handler[r].op = "update" =>
            /\ handler[r].since <= writes
            /\ /\ handler[r].pc = "write"
               /\ handler[r].since = writes
               /\ IsDemotingOrDeactivating(handler[r].patch)
               /\ IsGlobalAdmin(handler[r].target)
               => ActiveAdmins \ {handler[r].target} # {}

\* A handler about to write a project role acts for a user that has been able
\* to administer the project, as is everybody who now is.
Granting ==
    /\ Administrators \subseteq held
    /\ \A r \in Handlers :
          handler[r].op = "assign" /\ handler[r].pc = "write" => handler[r].actor \in held
    /\ GrantsTraceToAdmins

-----------------------------------------------------------------------------

\* A handler is of the kind its op says.
LEMMA HandlerType ==
    ASSUME AdminTypeOK, NEW r \in Handlers
    PROVE  /\ handler[r].op = "update" => handler[r] \in UpdateRequest
           /\ handler[r].op = "create" => handler[r] \in CreateRequest
           /\ handler[r].op = "assign" => handler[r] \in AssignRequest
  <1>1. handler[r] \in {Unsent, Settled} \cup UpdateRequest \cup CreateRequest
                         \cup AssignRequest
    BY DEF AdminTypeOK, AnyRequest
  <1>2. CASE handler[r] \in {Unsent, Settled}
    BY <1>2 DEF Unsent, Settled
  <1>3. CASE handler[r] \in UpdateRequest
    BY <1>3 DEF UpdateRequest
  <1>4. CASE handler[r] \in CreateRequest
    BY <1>4 DEF CreateRequest
  <1>5. CASE handler[r] \in AssignRequest
    BY <1>5 DEF AssignRequest
  <1> QED
    BY <1>1, <1>2, <1>3, <1>4, <1>5

\* Handlers of the three kinds, and requests settled, are requests.
LEMMA RequestStates ==
    /\ Settled \in AnyRequest
    /\ \A h \in UpdateRequest : h \in AnyRequest
    /\ \A h \in CreateRequest : h \in AnyRequest
    /\ \A h \in AssignRequest : h \in AnyRequest
  BY DEF AnyRequest

\* A patch makes a user row of a user row.
LEMMA PatchedType ==
    ASSUME NEW row \in UserRow, NEW p \in Patches
    PROVE  Patched(row, p) \in UserRow
  <1>1. p \in Patch
    BY AdminAssumption
  <1>2. p.role \in {Absent} \cup GlobalRoles /\ p.active \in {Absent} \cup BOOLEAN
    BY <1>1 DEF Patch
  <1>3. (IF p.role = Absent THEN row.role ELSE p.role) \in GlobalRoles
    BY <1>2 DEF UserRow
  <1>4. (IF p.active = Absent THEN row.active ELSE p.active) \in BOOLEAN
    BY <1>2 DEF UserRow
  <1> QED
    BY <1>3, <1>4 DEF Patched, UserRow

\* A step writes the request of one handler, which stays a request.
LEMMA RequestTyped ==
    ASSUME AdminTypeOK, NEW r \in Handlers, NEW h \in AnyRequest,
           handler' = [handler EXCEPT ![r] = h]
    PROVE  handler' \in [Handlers -> AnyRequest]
  BY DEF AdminTypeOK

\* Every step preserves the types.
LEMMA AdminTypeStep == AdminTypeOK /\ Found /\ [AdminNext]_adminVars => AdminTypeOK'
<1> SUFFICES ASSUME AdminTypeOK, Found, [AdminNext]_adminVars PROVE AdminTypeOK'
  OBVIOUS
<1>1. CASE UNCHANGED adminVars
  BY <1>1 DEF AdminTypeOK, adminVars
<1>2. CASE AdminNext
  <2> PICK r \in Handlers :
        \/ SubmitUpdate(r) \/ LoadTarget(r) \/ CountOtherActiveAdmins(r)
        \/ WriteUpdate(r) \/ SubmitCreate(r) \/ WriteCreate(r)
        \/ SubmitAssign(r) \/ LoadRole(r) \/ WriteAssign(r) \/ Fail(r)
    BY <1>2 DEF AdminNext
  <2>0. /\ user \in [Emails -> {NoRow} \cup UserRow]
        /\ grant \in [Emails -> {NoRow} \cup GrantRow]
        /\ writes \in Nat /\ held \in SUBSET Emails
    BY DEF AdminTypeOK
  <2>a. ASSUME Record PROVE writes' \in Nat /\ held' \in SUBSET Emails
    BY <2>0, <2>a DEF Record, Administrators
  <2>1. CASE SubmitUpdate(r)
    <3>1. PICK u, t \in Emails, p \in Patches :
            handler' = [handler EXCEPT ![r] =
                          IF u \in ActiveAdmins
                          THEN [op |-> "update", pc |-> "load target", actor |-> u,
                                target |-> t, patch |-> p, since |-> writes]
                          ELSE Settled]
      BY <2>1 DEF SubmitUpdate
    <3>2. [op |-> "update", pc |-> "load target", actor |-> u, target |-> t,
           patch |-> p, since |-> writes] \in AnyRequest
      BY <2>0, RequestStates DEF UpdateRequest
    <3>3. handler' \in [Handlers -> AnyRequest]
      BY <3>1, <3>2, RequestStates, RequestTyped
    <3> QED
      BY <2>0, <2>1, <3>3 DEF SubmitUpdate, AdminTypeOK
  <2>2. CASE LoadTarget(r)
    <3>1. handler[r] \in UpdateRequest
      BY <2>2, HandlerType DEF LoadTarget
    <3>2. /\ [handler[r] EXCEPT !.pc = "count admins"] \in AnyRequest
          /\ [handler[r] EXCEPT !.pc = "write"] \in AnyRequest
      BY <3>1, RequestStates DEF UpdateRequest
    <3>3. handler' \in [Handlers -> AnyRequest]
      BY <2>2, <3>2, RequestStates, RequestTyped DEF LoadTarget
    <3> QED
      BY <2>0, <2>2, <3>3 DEF LoadTarget, AdminTypeOK
  <2>3. CASE CountOtherActiveAdmins(r)
    <3>1. handler[r] \in UpdateRequest
      BY <2>3, HandlerType DEF CountOtherActiveAdmins
    <3>2. [handler[r] EXCEPT !.pc = "write"] \in AnyRequest
      BY <3>1, RequestStates DEF UpdateRequest
    <3>3. handler' \in [Handlers -> AnyRequest]
      BY <2>3, <3>2, RequestStates, RequestTyped DEF CountOtherActiveAdmins
    <3> QED
      BY <2>0, <2>3, <3>3 DEF CountOtherActiveAdmins, AdminTypeOK
  <2>4. CASE WriteUpdate(r)
    <3>1. handler' \in [Handlers -> AnyRequest]
      BY <2>4, RequestStates, RequestTyped DEF WriteUpdate
    <3>2. handler[r] \in UpdateRequest
      BY <2>4, HandlerType DEF WriteUpdate
    <3>3. handler[r].target \in Emails /\ handler[r].patch \in Patches
      BY <3>2 DEF UpdateRequest
    <3>4. user[handler[r].target] \in UserRow
      BY <2>0, <2>4, <3>3 DEF Found, WriteUpdate
    <3>5. user' \in [Emails -> {NoRow} \cup UserRow]
      BY <2>0, <2>4, <3>3, <3>4, PatchedType DEF WriteUpdate
    <3>6. writes' \in Nat /\ held' \in SUBSET Emails
      BY <2>0, <2>4, <2>a DEF WriteUpdate
    <3> QED
      BY <2>0, <2>4, <3>1, <3>5, <3>6 DEF WriteUpdate, AdminTypeOK
  <2>5. CASE SubmitCreate(r)
    <3>1. PICK u, t \in Emails, role \in GlobalRoles :
            handler' = [handler EXCEPT ![r] =
                          IF u \in ActiveAdmins
                          THEN [op |-> "create", pc |-> "write", actor |-> u,
                                target |-> t, role |-> role, since |-> writes]
                          ELSE Settled]
      BY <2>5 DEF SubmitCreate
    <3>2. [op |-> "create", pc |-> "write", actor |-> u, target |-> t,
           role |-> role, since |-> writes] \in AnyRequest
      BY <2>0, RequestStates DEF CreateRequest
    <3>3. handler' \in [Handlers -> AnyRequest]
      BY <3>1, <3>2, RequestStates, RequestTyped
    <3> QED
      BY <2>0, <2>5, <3>3 DEF SubmitCreate, AdminTypeOK
  <2>6. CASE WriteCreate(r)
    <3>1. handler' \in [Handlers -> AnyRequest]
      BY <2>6, RequestStates, RequestTyped DEF WriteCreate
    <3>2. handler[r] \in CreateRequest
      BY <2>6, HandlerType DEF WriteCreate
    <3>3. [role |-> handler[r].role, active |-> TRUE] \in UserRow
      BY <3>2 DEF CreateRequest, UserRow
    <3>4. user' \in [Emails -> {NoRow} \cup UserRow]
      BY <2>0, <2>6, <3>3 DEF WriteCreate
    <3>5. writes' \in Nat /\ held' \in SUBSET Emails
      BY <2>0, <2>6, <2>a DEF WriteCreate
    <3> QED
      BY <2>0, <2>6, <3>1, <3>4, <3>5 DEF WriteCreate, AdminTypeOK
  <2>7. CASE SubmitAssign(r)
    <3>1. PICK u, t \in Emails, role \in ProjectRoles :
            handler' = [handler EXCEPT ![r] =
                          IF IsActive(u)
                          THEN [op |-> "assign",
                                pc |-> IF IsGlobalAdmin(u) THEN "write" ELSE "load role",
                                actor |-> u, target |-> t, role |-> role,
                                since |-> writes]
                          ELSE Settled]
      BY <2>7 DEF SubmitAssign
    <3>2. [op |-> "assign",
           pc |-> IF IsGlobalAdmin(u) THEN "write" ELSE "load role",
           actor |-> u, target |-> t, role |-> role, since |-> writes]
             \in AnyRequest
      BY <2>0, RequestStates DEF AssignRequest
    <3>3. handler' \in [Handlers -> AnyRequest]
      BY <3>1, <3>2, RequestStates, RequestTyped
    <3> QED
      BY <2>0, <2>7, <3>3 DEF SubmitAssign, AdminTypeOK
  <2>8. CASE LoadRole(r)
    <3>1. handler[r] \in AssignRequest
      BY <2>8, HandlerType DEF LoadRole
    <3>2. [handler[r] EXCEPT !.pc = "write"] \in AnyRequest
      BY <3>1, RequestStates DEF AssignRequest
    <3>3. handler' \in [Handlers -> AnyRequest]
      BY <2>8, <3>2, RequestStates, RequestTyped DEF LoadRole
    <3> QED
      BY <2>0, <2>8, <3>3 DEF LoadRole, AdminTypeOK
  <2>9. CASE WriteAssign(r)
    <3>1. handler' \in [Handlers -> AnyRequest]
      BY <2>9, RequestStates, RequestTyped DEF WriteAssign
    <3>2. handler[r] \in AssignRequest
      BY <2>9, HandlerType DEF WriteAssign
    <3>3. [role |-> handler[r].role, by |-> handler[r].actor] \in GrantRow
      BY <3>2 DEF AssignRequest, GrantRow
    <3>4. grant' \in [Emails -> {NoRow} \cup GrantRow]
      BY <2>0, <2>9, <3>3 DEF WriteAssign
    <3>5. writes' \in Nat /\ held' \in SUBSET Emails
      BY <2>0, <2>9, <2>a DEF WriteAssign
    <3> QED
      BY <2>0, <2>9, <3>1, <3>4, <3>5 DEF WriteAssign, AdminTypeOK
  <2>10. CASE Fail(r)
    <3>1. handler' \in [Handlers -> AnyRequest]
      BY <2>10, RequestStates, RequestTyped DEF Fail
    <3> QED
      BY <2>0, <2>10, <3>1 DEF Fail, AdminTypeOK
  <2> QED
    BY <2>1, <2>2, <2>3, <2>4, <2>5, <2>6, <2>7, <2>8, <2>9, <2>10
<1> QED
  BY <1>1, <1>2 DEF adminVars

-----------------------------------------------------------------------------
(* What the steps do *)

\* A step moves one handler on, to a state that follows from where it was:
\* what is known of the others is about the rows alone.
LEMMA OneHandler ==
    ASSUME AdminTypeOK, NEW r \in Handlers,
           SubmitUpdate(r) \/ LoadTarget(r) \/ CountOtherActiveAdmins(r)
             \/ WriteUpdate(r) \/ SubmitCreate(r) \/ WriteCreate(r)
             \/ SubmitAssign(r) \/ LoadRole(r) \/ WriteAssign(r) \/ Fail(r)
    PROVE  \A s \in Handlers : s # r => handler'[s] = handler[s]
  BY DEF AdminTypeOK, SubmitUpdate, LoadTarget, CountOtherActiveAdmins, WriteUpdate,
         SubmitCreate, WriteCreate, SubmitAssign, LoadRole, WriteAssign, Fail

\* A handler of updateUser: what its next state may be.
LEMMA UpdateMoves ==
    ASSUME AdminTypeOK, NEW r \in Handlers, [AdminNext]_adminVars, handler'[r].op = "update"
    PROVE  \/ handler'[r] = handler[r] /\ handler[r].op = "update"
           \/ /\ SubmitUpdate(r)
              /\ handler'[r].pc = "load target" /\ handler'[r].since = writes
           \/ /\ LoadTarget(r) \/ CountOtherActiveAdmins(r)
              /\ handler[r].op = "update"
              /\ \E pc \in {"count admins", "write"} :
                    handler'[r] = [handler[r] EXCEPT !.pc = pc]
<1>1. CASE UNCHANGED adminVars
  BY <1>1 DEF adminVars
<1>2. CASE AdminNext
  <2> PICK s \in Handlers :
        \/ SubmitUpdate(s) \/ LoadTarget(s) \/ CountOtherActiveAdmins(s)
        \/ WriteUpdate(s) \/ SubmitCreate(s) \/ WriteCreate(s)
        \/ SubmitAssign(s) \/ LoadRole(s) \/ WriteAssign(s) \/ Fail(s)
    BY <1>2 DEF AdminNext
  <2>1. CASE s # r
    BY <2>1, OneHandler
  <2>2. CASE s = r
    <3>0. handler \in [Handlers -> AnyRequest]
      BY DEF AdminTypeOK
    <3>a. Settled.op # "update"
      BY DEF Settled
    <3>1. CASE SubmitUpdate(r)
      <4>1. PICK u, t \in Emails, p \in Patches :
              handler' = [handler EXCEPT ![r] =
                            IF u \in ActiveAdmins
                            THEN [op |-> "update", pc |-> "load target", actor |-> u,
                                  target |-> t, patch |-> p, since |-> writes]
                            ELSE Settled]
        BY <3>1 DEF SubmitUpdate
      <4> DEFINE h == [op |-> "update", pc |-> "load target", actor |-> u,
                       target |-> t, patch |-> p, since |-> writes]
      <4>2. handler'[r] = Settled \/ handler'[r] = h
        BY <3>0, <4>1
      <4>3. h.pc = "load target" /\ h.since = writes
        OBVIOUS
      <4>4. handler'[r] = h
        BY <3>a, <4>2
      <4> HIDE DEF h
      <4> QED
        BY <3>1, <4>3, <4>4
    <3>2. CASE LoadTarget(r)
      BY <3>0, <3>2 DEF LoadTarget, Settled
    <3>3. CASE CountOtherActiveAdmins(r)
      BY <3>0, <3>3 DEF CountOtherActiveAdmins, Settled
    <3>4. CASE WriteUpdate(r) \/ WriteCreate(r) \/ WriteAssign(r) \/ Fail(r)
      <4>1. handler'[r] = Settled
        BY <3>0, <3>4 DEF WriteUpdate, WriteCreate, WriteAssign, Fail
      <4> QED
        BY <3>a, <4>1
    <3>5. CASE SubmitCreate(r) \/ SubmitAssign(r)
      <4>1. ASSUME NEW h, handler' = [handler EXCEPT ![r] = h] PROVE handler'[r] = h
        BY <3>0, <4>1
      <4>2. CASE SubmitCreate(r)
        <5>1. PICK u, t \in Emails, role \in GlobalRoles :
                handler' = [handler EXCEPT ![r] =
                              IF u \in ActiveAdmins
                              THEN [op |-> "create", pc |-> "write", actor |-> u,
                                    target |-> t, role |-> role, since |-> writes]
                              ELSE Settled]
          BY <4>2 DEF SubmitCreate
        <5>2. handler'[r].op # "update"
          BY <3>a, <4>1, <5>1
        <5> QED
          BY <5>2
      <4>3. CASE SubmitAssign(r)
        <5>1. PICK u, t \in Emails, role \in ProjectRoles :
                handler' = [handler EXCEPT ![r] =
                              IF IsActive(u)
                              THEN [op |-> "assign",
                                    pc |-> IF IsGlobalAdmin(u) THEN "write"
                                           ELSE "load role",
                                    actor |-> u, target |-> t, role |-> role,
                                    since |-> writes]
                              ELSE Settled]
          BY <4>3 DEF SubmitAssign
        <5>2. handler'[r].op # "update"
          BY <3>a, <4>1, <5>1
        <5> QED
          BY <5>2
      <4> QED
        BY <3>5, <4>2, <4>3
    <3>6. CASE LoadRole(r)
      <4>1. handler[r].op = "assign" /\ handler[r] \in AssignRequest
        BY <3>6, HandlerType DEF LoadRole
      <4>2. handler'[r] = Settled \/ handler'[r] = [handler[r] EXCEPT !.pc = "write"]
        BY <3>0, <3>6 DEF LoadRole
      <4>3. [handler[r] EXCEPT !.pc = "write"].op = "assign"
        BY <4>1 DEF AssignRequest
      <4> QED
        BY <3>a, <4>2, <4>3
    <3> QED
      BY <2>2, <3>1, <3>2, <3>3, <3>4, <3>5, <3>6
  <2> QED
    BY <2>1, <2>2
<1> QED
  BY <1>1, <1>2

\* The rows change only with the history of writes.
LEMMA QuietSteps ==
    ASSUME AdminTypeOK, [AdminNext]_adminVars
    PROVE  \/ UNCHANGED <<user, grant, writes, held>>
           \/ /\ Record
              /\ \E r \in Handlers : WriteUpdate(r) \/ WriteCreate(r) \/ WriteAssign(r)
<1>1. CASE UNCHANGED adminVars
  BY <1>1 DEF adminVars
<1>2. CASE AdminNext
  BY <1>2 DEF AdminNext, SubmitUpdate, LoadTarget, CountOtherActiveAdmins, WriteUpdate,
              SubmitCreate, WriteCreate, SubmitAssign, LoadRole, WriteAssign, Fail
<1> QED
  BY <1>1, <1>2

\* writes never decreases, and counts.
LEMMA WritesGrow ==
    ASSUME AdminTypeOK, [AdminNext]_adminVars
    PROVE  writes <= writes' /\ (writes' = writes => UNCHANGED <<user, grant, held>>)
  BY QuietSteps DEF AdminTypeOK, Record

\* Users stay.
LEMMA UsersStay ==
    ASSUME AdminTypeOK, Found, [AdminNext]_adminVars, NEW u \in Emails, user[u] # NoRow
    PROVE  user'[u] # NoRow
<1>0. user \in [Emails -> {NoRow} \cup UserRow]
  BY DEF AdminTypeOK
<1>1. CASE UNCHANGED <<user, grant, writes, held>>
  BY <1>1
<1>2. ASSUME NEW r \in Handlers, WriteUpdate(r) PROVE user'[u] # NoRow
  <2>1. handler[r] \in UpdateRequest
    BY <1>2, HandlerType DEF WriteUpdate
  <2>2. handler[r].target \in Emails /\ handler[r].patch \in Patches
    BY <2>1 DEF UpdateRequest
  <2>3. user[handler[r].target] \in UserRow
    BY <1>0, <1>2, <2>2 DEF Found, WriteUpdate
  <2>4. Patched(user[handler[r].target], handler[r].patch) # NoRow
    BY <2>2, <2>3, PatchedType, AdminAssumption
  <2> QED
    BY <1>0, <1>2, <2>2, <2>4 DEF WriteUpdate
<1>3. ASSUME NEW r \in Handlers, WriteCreate(r) PROVE user'[u] # NoRow
  BY <1>0, <1>3 DEF WriteCreate
<1>4. ASSUME NEW r \in Handlers, WriteAssign(r) PROVE user'[u] # NoRow
  BY <1>4 DEF WriteAssign
<1> QED
  BY <1>1, <1>2, <1>3, <1>4, QuietSteps

\* Handlers find their targets, which stay.
LEMMA FoundStep == AdminTypeOK /\ Found /\ [AdminNext]_adminVars => Found'
<1> SUFFICES ASSUME AdminTypeOK, Found, [AdminNext]_adminVars,
                    NEW r \in Handlers, handler'[r].op = "update",
                    handler'[r].pc # "load target"
             PROVE  user'[handler'[r].target] # NoRow
  BY DEF Found
<1>1. CASE handler'[r] = handler[r] /\ handler[r].op = "update"
  <2>1. handler[r].target \in Emails
    BY <1>1, HandlerType DEF UpdateRequest
  <2>2. user[handler[r].target] # NoRow
    BY <1>1 DEF Found
  <2> QED
    BY <1>1, <2>1, <2>2, UsersStay
<1>2. CASE LoadTarget(r) \/ CountOtherActiveAdmins(r)
  <2>1. /\ handler[r].op = "update" /\ handler[r] \in UpdateRequest
        /\ handler \in [Handlers -> AnyRequest]
    BY <1>2, HandlerType DEF LoadTarget, CountOtherActiveAdmins, AdminTypeOK
  <2>2. user[handler[r].target] # NoRow
    <3>1. CASE LoadTarget(r)
      <4>1. user[handler[r].target] = NoRow => handler'[r] = Settled
        BY <2>1, <3>1 DEF LoadTarget
      <4>2. Settled.op # "update"
        BY DEF Settled
      <4> QED
        BY <4>1, <4>2
    <3>2. CASE CountOtherActiveAdmins(r)
      BY <3>2 DEF CountOtherActiveAdmins, Found
    <3> QED
      BY <1>2, <3>1, <3>2
  <2>3. handler'[r].target = handler[r].target
    BY <1>2, <2>1, UpdateMoves DEF UpdateRequest, LoadTarget,
       CountOtherActiveAdmins, SubmitUpdate, Unsent
  <2>4. user' = user
    BY <1>2 DEF LoadTarget, CountOtherActiveAdmins
  <2> QED
    BY <2>2, <2>3, <2>4
<1> QED
  BY <1>1, <1>2, UpdateMoves

\* A handler alone since its start may rely on the admin it has counted.
LEMMA AloneStep == AdminTypeOK /\ Alone /\ [AdminNext]_adminVars => Alone'
<1> SUFFICES ASSUME AdminTypeOK, Alone, [AdminNext]_adminVars,
                    NEW r \in Handlers, handler'[r].op = "update"
             PROVE  /\ handler'[r].since <= writes'
                    /\ /\ handler'[r].pc = "write"
                       /\ handler'[r].since = writes'
                       /\ IsDemotingOrDeactivating(handler'[r].patch)
                       /\ IsGlobalAdmin(handler[r].target)'
                       => (ActiveAdmins \ {handler[r].target})' # {}
  BY DEF Alone
<1>0. /\ writes \in Nat /\ writes' \in Nat /\ writes <= writes'
      /\ writes' = writes => user' = user
  BY WritesGrow, QuietSteps DEF AdminTypeOK, Record
<1>a. ASSUME user' = user PROVE ActiveAdmins' = ActiveAdmins
  BY <1>a DEF ActiveAdmins, IsActive, IsGlobalAdmin
<1>1. CASE handler'[r] = handler[r] /\ handler[r].op = "update"
  <2>1. handler[r].since \in Nat /\ handler[r].since <= writes
    BY <1>1, HandlerType DEF UpdateRequest, Alone
  <2>2. handler'[r].since <= writes'
    BY <1>0, <1>1, <2>1
  <2>3. ASSUME handler'[r].pc = "write", handler'[r].since = writes',
               IsDemotingOrDeactivating(handler'[r].patch),
               IsGlobalAdmin(handler[r].target)'
        PROVE  (ActiveAdmins \ {handler[r].target})' # {}
    <3>1. writes' = writes /\ user' = user
      BY <1>0, <1>1, <2>1, <2>3
    <3>2. IsGlobalAdmin(handler[r].target)
      BY <1>1, <2>3, <3>1 DEF IsGlobalAdmin
    <3>3. ActiveAdmins \ {handler[r].target} # {}
      BY <1>1, <2>3, <3>1, <3>2 DEF Alone
    <3> QED
      BY <1>1, <1>a, <3>1, <3>3
  <2> QED
    BY <2>2, <2>3
<1>2. CASE /\ SubmitUpdate(r)
           /\ handler'[r].pc = "load target" /\ handler'[r].since = writes
  BY <1>0, <1>2
<1>3. ASSUME LoadTarget(r) \/ CountOtherActiveAdmins(r), handler[r].op = "update",
             NEW pc \in {"count admins", "write"},
             handler'[r] = [handler[r] EXCEPT !.pc = pc]
      PROVE  /\ handler'[r].since <= writes'
             /\ /\ handler'[r].pc = "write"
                /\ handler'[r].since = writes'
                /\ IsDemotingOrDeactivating(handler'[r].patch)
                /\ IsGlobalAdmin(handler[r].target)'
                => (ActiveAdmins \ {handler[r].target})' # {}
  <2>1. handler[r] \in UpdateRequest /\ handler \in [Handlers -> AnyRequest]
    BY <1>3, HandlerType DEF AdminTypeOK
  <2>2. /\ handler'[r].target = handler[r].target
        /\ handler'[r].patch = handler[r].patch
        /\ handler'[r].since = handler[r].since
        /\ handler'[r].pc = pc
    BY <1>3, <2>1 DEF UpdateRequest
  <2>3. user' = user /\ writes' = writes
    BY <1>3 DEF LoadTarget, CountOtherActiveAdmins
  <2>4. handler[r].since <= writes
    BY <1>3 DEF Alone
  <2>5. ASSUME handler'[r].pc = "write",
               IsDemotingOrDeactivating(handler'[r].patch),
               IsGlobalAdmin(handler[r].target)'
        PROVE  (ActiveAdmins \ {handler[r].target})' # {}
    <3>1. IsGlobalAdmin(handler[r].target) /\ IsDemotingOrDeactivating(handler[r].patch)
      BY <2>2, <2>3, <2>5 DEF IsGlobalAdmin
    <3>2. CASE LoadTarget(r)
      <4>1. user[handler[r].target] # NoRow
        BY <3>1 DEF IsGlobalAdmin
      <4>2. handler'[r] = [handler[r] EXCEPT !.pc = "count admins"]
        BY <2>1, <3>1, <3>2, <4>1 DEF LoadTarget
      <4>3. handler'[r].pc = "count admins"
        BY <2>1, <4>2 DEF UpdateRequest
      <4> QED
        BY <2>5, <4>3
    <3>3. CASE CountOtherActiveAdmins(r)
      <4>1. ActiveAdmins \ {handler[r].target} # {}
        BY <1>3, <2>1, <2>2, <2>5, <3>3 DEF CountOtherActiveAdmins, Settled
      <4> QED
        BY <1>a, <2>2, <2>3, <4>1
    <3> QED
      BY <1>3, <3>2, <3>3
  <2> QED
    BY <2>2, <2>3, <2>4, <2>5
<1> QED
  BY <1>1, <1>2, <1>3, UpdateMoves

\* A handler of assignProjectRole: what its next state may be.
LEMMA AssignMoves ==
    ASSUME AdminTypeOK, NEW r \in Handlers, [AdminNext]_adminVars,
           handler'[r].op = "assign", handler'[r].pc = "write"
    PROVE  \/ handler'[r] = handler[r]
           \/ handler'[r].actor \in Administrators
<1>0. handler \in [Handlers -> AnyRequest] /\ Settled.op # "assign"
  BY DEF AdminTypeOK, Settled
<1>1. CASE UNCHANGED adminVars
  BY <1>1 DEF adminVars
<1>2. CASE AdminNext
  <2> PICK s \in Handlers :
        \/ SubmitUpdate(s) \/ LoadTarget(s) \/ CountOtherActiveAdmins(s)
        \/ WriteUpdate(s) \/ SubmitCreate(s) \/ WriteCreate(s)
        \/ SubmitAssign(s) \/ LoadRole(s) \/ WriteAssign(s) \/ Fail(s)
    BY <1>2 DEF AdminNext
  <2>1. CASE s # r
    BY <2>1, OneHandler
  <2>2. CASE s = r
    <3>1. CASE SubmitAssign(r)
      <4>1. PICK u, t \in Emails, role \in ProjectRoles :
              handler' = [handler EXCEPT ![r] =
                            IF IsActive(u)
                            THEN [op |-> "assign",
                                  pc |-> IF IsGlobalAdmin(u) THEN "write"
                                         ELSE "load role",
                                  actor |-> u, target |-> t, role |-> role,
                                  since |-> writes]
                            ELSE Settled]
        BY <3>1 DEF SubmitAssign
      <4> DEFINE h == [op |-> "assign",
                       pc |-> IF IsGlobalAdmin(u) THEN "write" ELSE "load role",
                       actor |-> u, target |-> t, role |-> role, since |-> writes]
      <4>2. handler'[r] = Settled \/ handler'[r] = h
        BY <1>0, <4>1
      <4>3. h.actor = u /\ (h.pc = "write" => IsGlobalAdmin(u))
        OBVIOUS
      <4>4. handler'[r] = h
        BY <1>0, <4>2
      <4>5. handler'[r].actor = u /\ IsGlobalAdmin(u)
        <5> HIDE DEF h
        <5> QED
          BY <4>3, <4>4
      <4> QED
        BY <4>5 DEF Administrators
    <3>2. CASE LoadRole(r)
      <4>1. handler[r].op = "assign" /\ handler[r] \in AssignRequest
        BY <3>2, HandlerType DEF LoadRole
      <4>2. ~HasAdminGrant(handler[r].actor) => handler'[r] = Settled
        BY <1>0, <3>2 DEF LoadRole
      <4>3. HasAdminGrant(handler[r].actor)
        BY <1>0, <4>2
      <4>4. handler'[r] = [handler[r] EXCEPT !.pc = "write"]
        BY <1>0, <3>2, <4>3 DEF LoadRole
      <4>5. handler'[r].actor = handler[r].actor /\ handler[r].actor \in Emails
        BY <4>1, <4>4 DEF AssignRequest
      <4> QED
        BY <4>3, <4>5 DEF Administrators, HasAdminGrant
    <3>3. CASE WriteUpdate(r) \/ WriteCreate(r) \/ WriteAssign(r) \/ Fail(r)
      <4>1. handler'[r] = Settled
        BY <1>0, <3>3 DEF WriteUpdate, WriteCreate, WriteAssign, Fail
      <4> QED
        BY <1>0, <4>1
    <3>4. CASE SubmitUpdate(r)
      <4>1. PICK u, t \in Emails, p \in Patches :
              handler' = [handler EXCEPT ![r] =
                            IF u \in ActiveAdmins
                            THEN [op |-> "update", pc |-> "load target", actor |-> u,
                                  target |-> t, patch |-> p, since |-> writes]
                            ELSE Settled]
        BY <3>4 DEF SubmitUpdate
      <4>2. handler'[r].op # "assign"
        BY <1>0, <4>1
      <4> QED
        BY <4>2
    <3>5. CASE SubmitCreate(r)
      <4>1. PICK u, t \in Emails, role \in GlobalRoles :
              handler' = [handler EXCEPT ![r] =
                            IF u \in ActiveAdmins
                            THEN [op |-> "create", pc |-> "write", actor |-> u,
                                  target |-> t, role |-> role, since |-> writes]
                            ELSE Settled]
        BY <3>5 DEF SubmitCreate
      <4>2. handler'[r].op # "assign"
        BY <1>0, <4>1
      <4> QED
        BY <4>2
    <3>6. CASE LoadTarget(r) \/ CountOtherActiveAdmins(r)
      <4>1. handler[r].op = "update" /\ handler[r] \in UpdateRequest
        BY <3>6, HandlerType DEF LoadTarget, CountOtherActiveAdmins
      <4>2. \/ handler'[r] = Settled
            \/ handler'[r] = [handler[r] EXCEPT !.pc = "count admins"]
            \/ handler'[r] = [handler[r] EXCEPT !.pc = "write"]
        BY <1>0, <3>6 DEF LoadTarget, CountOtherActiveAdmins
      <4>3. /\ [handler[r] EXCEPT !.pc = "count admins"].op = "update"
            /\ [handler[r] EXCEPT !.pc = "write"].op = "update"
        BY <4>1 DEF UpdateRequest
      <4>4. handler'[r].op # "assign"
        BY <1>0, <4>2, <4>3
      <4> QED
        BY <4>4
    <3> QED
      BY <2>2, <3>1, <3>2, <3>3, <3>4, <3>5, <3>6
  <2> QED
    BY <2>1, <2>2
<1> QED
  BY <1>1, <1>2

\* Whoever is about to grant a role has been able to.
LEMMA GrantingStep == AdminTypeOK /\ Granting /\ [AdminNext]_adminVars => Granting'
<1> SUFFICES ASSUME AdminTypeOK, Granting, [AdminNext]_adminVars PROVE Granting'
  OBVIOUS
<1>1. held \subseteq held' /\ Administrators' \subseteq held'
  <2>1. CASE UNCHANGED <<user, grant, writes, held>>
    BY <2>1 DEF Granting, Administrators, IsGlobalAdmin
  <2>2. CASE Record
    BY <2>2 DEF Record
  <2> QED
    BY <2>1, <2>2, QuietSteps
<1>2. ASSUME NEW r \in Handlers, handler'[r].op = "assign", handler'[r].pc = "write"
      PROVE  handler'[r].actor \in held'
  BY <1>1, <1>2, AssignMoves DEF Granting
<1>3. GrantsTraceToAdmins'
  <2>1. CASE grant' = grant
    BY <1>1, <2>1 DEF Granting, GrantsTraceToAdmins
  <2>2. ASSUME NEW r \in Handlers, WriteAssign(r) PROVE GrantsTraceToAdmins'
    <3>1. handler[r].op = "assign" /\ handler[r].pc = "write" /\ handler[r].actor \in held
      BY <2>2 DEF WriteAssign, Granting
    <3>2. grant \in [Emails -> {NoRow} \cup GrantRow]
      BY DEF AdminTypeOK
    <3>3. CASE grant' = grant
      BY <2>1, <3>3
    <3>4. CASE grant' = [grant EXCEPT ![handler[r].target] =
                           [role |-> handler[r].role, by |-> handler[r].actor]]
      <4> SUFFICES ASSUME NEW u \in Emails, grant'[u] # NoRow
                   PROVE  grant'[u].by \in held'
        BY DEF GrantsTraceToAdmins
      <4>1. CASE u = handler[r].target
        BY <1>1, <3>1, <3>2, <3>4, <4>1
      <4>2. CASE u # handler[r].target
        BY <1>1, <3>2, <3>4, <4>2 DEF Granting, GrantsTraceToAdmins
      <4> QED
        BY <4>1, <4>2
    <3> QED
      BY <2>2, <3>3, <3>4 DEF WriteAssign
  <2>3. CASE \E r \in Handlers : WriteUpdate(r) \/ WriteCreate(r)
    BY <2>1, <2>3 DEF WriteUpdate, WriteCreate
  <2> QED
    BY <2>1, <2>2, <2>3, QuietSteps
<1> QED
  BY <1>1, <1>2, <1>3 DEF Granting

\* A write of updateUser by a handler alone since its start, or of an admin
\* nobody demotes, leaves an active admin.
LEMMA LossIsRace ==
    ASSUME AdminTypeOK, Found, Alone, [AdminNext]_adminVars,
           ActiveAdmins # {}, ActiveAdmins' = {}
    PROVE  \E r \in Handlers :
              /\ handler[r].op = "update" /\ handler[r].pc = "write"
              /\ handler[r].since < writes
              /\ handler'[r] = Settled
<1>0. user \in [Emails -> {NoRow} \cup UserRow] /\ writes \in Nat
  BY DEF AdminTypeOK
<1>1. ASSUME user' = user PROVE FALSE
  BY <1>1 DEF ActiveAdmins, IsActive, IsGlobalAdmin
<1>2. ASSUME NEW r \in Handlers, WriteCreate(r) PROVE FALSE
  <2>1. PICK a \in ActiveAdmins : TRUE
    OBVIOUS
  <2>2. a \in Emails /\ user[a] # NoRow
    BY <2>1 DEF ActiveAdmins, IsActive
  <2>3. user'[a] = user[a]
    BY <1>0, <1>2, <2>2 DEF WriteCreate
  <2> QED
    BY <2>1, <2>2, <2>3 DEF ActiveAdmins, IsActive, IsGlobalAdmin
<1>3. ASSUME NEW r \in Handlers, WriteUpdate(r)
      PROVE  /\ handler[r].op = "update" /\ handler[r].pc = "write"
             /\ handler[r].since < writes
             /\ handler'[r] = Settled
  <2>1. handler[r].op = "update" /\ handler[r].pc = "write" /\ handler[r] \in UpdateRequest
    BY <1>3, HandlerType DEF WriteUpdate
  <2>2. /\ handler[r].target \in Emails /\ handler[r].patch \in Patches
        /\ handler[r].since \in Nat /\ handler[r].since <= writes
    BY <2>1 DEF UpdateRequest, Alone
  <2>3. handler'[r] = Settled
    BY <1>3 DEF WriteUpdate, AdminTypeOK
  <2>4. \A a \in ActiveAdmins : a = handler[r].target
    <3> SUFFICES ASSUME NEW a \in ActiveAdmins, a # handler[r].target PROVE FALSE
      OBVIOUS
    <3>1. a \in Emails /\ user'[a] = user[a]
      BY <1>0, <1>3 DEF WriteUpdate, ActiveAdmins
    <3> QED
      BY <3>1 DEF ActiveAdmins, IsActive, IsGlobalAdmin
  <2>5. handler[r].target \in ActiveAdmins
    BY <2>4
  <2>6. IsDemotingOrDeactivating(handler[r].patch)
    <3> SUFFICES ASSUME ~IsDemotingOrDeactivating(handler[r].patch) PROVE FALSE
      OBVIOUS
    <3> DEFINE t == handler[r].target
               p == handler[r].patch
    <3>1. user[t] # NoRow /\ user[t].active /\ user[t].role \in AdminRoles
      BY <2>5 DEF ActiveAdmins, IsActive, IsGlobalAdmin
    <3>2. user'[t] = Patched(user[t], p)
      BY <1>0, <1>3, <2>2 DEF WriteUpdate
    <3>3. p \in Patch
      BY <2>2, AdminAssumption
    <3>4. Patched(user[t], p).role \in AdminRoles
      BY <3>1 DEF Patched, IsDemotingOrDeactivating
    <3>5. Patched(user[t], p).active
      <4>1. p.active \in {Absent} \cup BOOLEAN /\ p.active # FALSE
        BY <3>3 DEF Patch, IsDemotingOrDeactivating
      <4>2. p.active = Absent \/ p.active = TRUE
        BY <4>1
      <4> QED
        BY <3>1, <4>2 DEF Patched
    <3>6. Patched(user[t], p) # NoRow
      BY <1>0, <2>2, <3>1, PatchedType, AdminAssumption
    <3>7. t \in ActiveAdmins'
      <4>1. user'[t].active /\ user'[t].role \in AdminRoles /\ user'[t] # NoRow
        BY <3>2, <3>4, <3>5, <3>6
      <4> QED
        BY <2>2, <4>1 DEF ActiveAdmins, IsActive, IsGlobalAdmin
    <3> QED
      BY <3>7
  <2>7. IsGlobalAdmin(handler[r].target)
    BY <2>5 DEF ActiveAdmins
  <2>8. ActiveAdmins \ {handler[r].target} = {}
    BY <2>4
  <2>9. handler[r].since # writes
    BY <2>1, <2>6, <2>7, <2>8 DEF Alone
  <2> QED
    BY <1>0, <2>1, <2>2, <2>3, <2>9
<1>4. ASSUME NEW r \in Handlers, WriteAssign(r) PROVE FALSE
  BY <1>1, <1>4 DEF WriteAssign
<1> QED
  BY <1>1, <1>2, <1>3, <1>4, QuietSteps

\* With no active admin no handler that could make one starts.
LEMMA LockedOutStep == AdminTypeOK /\ LockedOut /\ [AdminNext]_adminVars => LockedOut'
<1> SUFFICES ASSUME AdminTypeOK, LockedOut, [AdminNext]_adminVars PROVE LockedOut'
  OBVIOUS
<1>0. handler \in [Handlers -> AnyRequest]
  BY DEF AdminTypeOK
<1>1. CASE UNCHANGED adminVars
  BY <1>1 DEF adminVars, LockedOut, ActiveAdmins, IsActive, IsGlobalAdmin
<1>2. CASE AdminNext
  <2> PICK r \in Handlers :
        \/ SubmitUpdate(r) \/ LoadTarget(r) \/ CountOtherActiveAdmins(r)
        \/ WriteUpdate(r) \/ SubmitCreate(r) \/ WriteCreate(r)
        \/ SubmitAssign(r) \/ LoadRole(r) \/ WriteAssign(r) \/ Fail(r)
    BY <1>2 DEF AdminNext
  <2>1. user' = user
    BY DEF LockedOut, SubmitUpdate, LoadTarget, CountOtherActiveAdmins,
           WriteUpdate, SubmitCreate, WriteCreate, SubmitAssign, LoadRole,
           WriteAssign, Fail
  <2>2. ActiveAdmins' = {}
    BY <2>1 DEF LockedOut, ActiveAdmins, IsActive, IsGlobalAdmin
  <2>3. handler'[r].op \notin {"update", "create"}
    <3>1. CASE SubmitUpdate(r) \/ SubmitCreate(r)
      <4>1. handler'[r] = Settled
        BY <1>0, <3>1 DEF SubmitUpdate, SubmitCreate, LockedOut
      <4> QED
        BY <4>1 DEF Settled
    <3>2. CASE LoadTarget(r) \/ CountOtherActiveAdmins(r) \/ WriteUpdate(r)
                 \/ WriteCreate(r)
      BY <3>2 DEF LoadTarget, CountOtherActiveAdmins, WriteUpdate, WriteCreate,
                  LockedOut
    <3>3. CASE SubmitAssign(r)
      <4>1. PICK u, t \in Emails, role \in ProjectRoles :
              handler' = [handler EXCEPT ![r] =
                            IF IsActive(u)
                            THEN [op |-> "assign",
                                  pc |-> IF IsGlobalAdmin(u) THEN "write"
                                         ELSE "load role",
                                  actor |-> u, target |-> t, role |-> role,
                                  since |-> writes]
                            ELSE Settled]
        BY <3>3 DEF SubmitAssign
      <4> QED
        BY <1>0, <4>1 DEF Settled
    <3>4. CASE LoadRole(r)
      <4>1. handler[r] \in AssignRequest
        BY <3>4, HandlerType DEF LoadRole
      <4>2. [handler[r] EXCEPT !.pc = "write"].op = "assign"
        BY <4>1 DEF AssignRequest
      <4>3. handler'[r] = Settled \/ handler'[r] = [handler[r] EXCEPT !.pc = "write"]
        BY <1>0, <3>4 DEF LoadRole
      <4>4. Settled.op \notin {"update", "create"}
        BY DEF Settled
      <4> QED
        BY <4>2, <4>3, <4>4
    <3>5. CASE WriteAssign(r) \/ Fail(r)
      <4>1. handler'[r] = Settled
        BY <1>0, <3>5 DEF WriteAssign, Fail
      <4> QED
        BY <4>1 DEF Settled
    <3> QED
      BY <3>1, <3>2, <3>3, <3>4, <3>5
  <2> QED
    BY <2>2, <2>3, OneHandler DEF LockedOut
<1> QED
  BY <1>1, <1>2

-----------------------------------------------------------------------------
(* Theorems *)

AdminInv == AdminTypeOK /\ Found /\ Alone /\ Granting

\* The inductive invariant holds at first.
LEMMA InitAdminInv == AdminInit => AdminInv
<1> SUFFICES ASSUME AdminInit PROVE AdminInv
  OBVIOUS
<1>1. \A r \in Handlers : handler[r].op = "none"
  BY DEF AdminInit, Unsent
<1>2. AdminTypeOK
  BY RequestStates DEF AdminInit, AdminTypeOK, AnyRequest, Administrators
<1>3. Found /\ Alone
  BY <1>1 DEF Found, Alone
<1>4. Granting
  BY <1>1 DEF AdminInit, Granting, GrantsTraceToAdmins
<1> QED
  BY <1>2, <1>3, <1>4 DEF AdminInv

\* It holds throughout.
LEMMA AdminInductive == AdminSpec => []AdminInv
<1>1. AdminInv /\ [AdminNext]_adminVars => AdminInv'
  BY AdminTypeStep, FoundStep, AloneStep, GrantingStep DEF AdminInv
<1> QED
  BY InitAdminInv, <1>1, PTL DEF AdminSpec

\* Rows and handlers are well formed, for any users, patches and requests.
THEOREM UsersTyped == AdminSpec => []AdminTypeOK
  BY AdminInductive, PTL DEF AdminInv

\* Every project role was granted by somebody who had been able to
\* (assert-min-role.ts:44-66).
THEOREM GrantsTraced == AdminSpec => []GrantsTraceToAdmins
<1>1. AdminInv => GrantsTraceToAdmins
  BY DEF AdminInv, Granting
<1> QED
  BY <1>1, AdminInductive, PTL

\* updateUser loses the last active admin only to a race: its guard
\* (UserService.ts:182-195) is right for handlers that do not overlap.
THEOREM LossNeedsRace == AdminSpec => AdminsLostOnlyByRace
<1>1. AdminInv /\ [AdminNext]_adminVars =>
        [ActiveAdmins # {} /\ ActiveAdmins' = {} =>
           \E r \in Handlers :
              /\ handler[r].op = "update" /\ handler[r].pc = "write"
              /\ handler[r].since < writes
              /\ handler'[r] = Settled]_adminVars
  BY LossIsRace DEF AdminInv
<1> QED
  BY <1>1, AdminInductive, PTL DEF AdminSpec, AdminsLostOnlyByRace

\* Once the last active admin is gone, and the handlers of former ones with
\* it, no operation brings one back.
THEOREM LockoutIsFinal == AdminSpec => LockoutLasts
<1>1. AdminInv /\ [AdminNext]_adminVars => [LockedOut => LockedOut']_adminVars
  BY LockedOutStep DEF AdminInv
<1> QED
  BY <1>1, AdminInductive, PTL DEF AdminSpec, LockoutLasts
=============================================================================
