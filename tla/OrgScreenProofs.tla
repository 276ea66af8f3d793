-------------------------- MODULE OrgScreenProofs --------------------------
(***************************************************************************)
(* What the administration screens show, for any users, roles, keys,       *)
(* made-up rows and commands.                                              *)
(*                                                                         *)
(* The types are inductive with what names and ids are about (Inv): until  *)
(* a command is written the id it will have is nowhere (Unborn), the       *)
(* made-up id of a browser is shown by nothing else (TempFree), and        *)
(* wherever a user has an id of the server, the server has the user        *)
(* (Known).                                                                *)
(*                                                                         *)
(* ScreenAgrees is about rows that nothing is under way about.  AllTracked *)
(* is about every row the screen is sure of: while its list is loading no  *)
(* command is about it, and what was read is what the server has; once it  *)
(* is loaded at most one command is about it, and screen and server differ *)
(* by just what that command is about to tell; with none they agree.       *)
(*                                                                         *)
(* A list is compared row by row: it shows v of the row i (Shows), once    *)
(* (Lone), and a table holds v of it (Holds).  A step keeps the view of    *)
(* each row it is not about (SameView).                                    *)
(*                                                                         *)
(* Who acts is the row at one place (ActsAt) while that is clear; the one  *)
(* step that moves the id along the rows of a load is followed in order    *)
(* (ActorFollows), and every other keeps the row or is excused.            *)
(***************************************************************************)
EXTENDS OrgScreen, FiniteSetTheorems, SequenceTheorems, WellFoundedInduction, TLAPS

-----------------------------------------------------------------------------
(* Lists *)

\* The n-th position is that: each of the positions is one of the first
\* Cardinality(at), and no two are the same.
LEMMA NthPositions ==
    ASSUME NEW n \in Nat, NEW at \in SUBSET (1..n)
    PROVE  /\ Cardinality(at) \in Nat
           /\ \A m \in 1..Cardinality(at) : Nth(at, m) \in at
           /\ \A m, l \in 1..Cardinality(at) : Nth(at, m) = Nth(at, l) => m = l
           /\ \A k \in at : \E m \in 1..Cardinality(at) : Nth(at, m) = k
<1> DEFINE Upto(k) == {m \in at : m <= k}
           rank == [k \in at |-> Cardinality(Upto(k))]
<1>1. IsFiniteSet(at) /\ Cardinality(at) \in Nat
  <2>1. IsFiniteSet(1..n)  BY FS_Interval
  <2>2. QED  BY <2>1, FS_Subset, FS_CardinalityType
<1>2. \A k \in at : /\ IsFiniteSet(Upto(k)) /\ Cardinality(Upto(k)) \in Nat
                    /\ Cardinality(Upto(k)) <= Cardinality(at)
                    /\ Cardinality(Upto(k)) >= 1
  <2> TAKE k \in at
  <2>1. Upto(k) \in SUBSET at /\ k \in Upto(k)  OBVIOUS
  <2>2. IsFiniteSet(Upto(k)) /\ Cardinality(Upto(k)) <= Cardinality(at)
    BY <1>1, <2>1, FS_Subset
  <2>3. Cardinality(Upto(k)) \in Nat  BY <2>2, FS_CardinalityType
  <2>4. Cardinality(Upto(k)) # 0  BY <2>1, <2>2, FS_EmptySet
  <2>5. QED  BY <2>2, <2>3, <2>4
<1>3. \A k, h \in at : Cardinality(Upto(k)) = Cardinality(Upto(h)) => k = h
  <2>1. SUFFICES ASSUME NEW k \in at, NEW h \in at, k < h
                 PROVE  Cardinality(Upto(k)) # Cardinality(Upto(h))
    OBVIOUS
  <2>a. at \subseteq Int  OBVIOUS
  <2>b. \A m \in at : m <= k => m <= h  BY <2>1, <2>a
  <2>c. h \in Upto(h) /\ h \notin Upto(k)  BY <2>1, <2>a
  <2>2. Upto(k) \in SUBSET Upto(h) /\ h \in Upto(h) /\ h \notin Upto(k)
    BY <2>b, <2>c
  <2>3. Cardinality(Upto(k)) = Cardinality(Upto(h)) => Upto(h) = Upto(k)
    BY <1>2, <2>2, FS_Subset
  <2>4. QED  BY <2>2, <2>3
<1>4. rank \in [at -> 1..Cardinality(at)]  BY <1>1, <1>2
<1>5. \A k \in at : rank[k] = Cardinality(Upto(k))  OBVIOUS
<1> HIDE DEF rank, Upto
<1>a. \A k, h \in at : rank[k] = rank[h] => k = h  BY <1>3, <1>5
<1>b. DOMAIN rank = at  BY <1>4
<1>6. rank \in Injection(at, 1..Cardinality(at))
  BY <1>4, <1>a, <1>b DEF Injection, IsInjective
<1>7. IsFiniteSet(1..Cardinality(at)) /\ Cardinality(1..Cardinality(at)) = Cardinality(at)
  BY <1>1, FS_Interval
<1>8. rank \in Surjection(at, 1..Cardinality(at))
  BY <1>6, <1>7, FS_Injection
<1>9. \A m \in 1..Cardinality(at) : \E k \in at : Cardinality(Upto(k)) = m
  BY <1>8, <1>5 DEF Surjection
<1>10. \A m \in 1..Cardinality(at) : Nth(at, m) \in at /\ Cardinality(Upto(Nth(at, m))) = m
  BY <1>9 DEF Nth, Upto
<1>11. \A k \in at : \E m \in 1..Cardinality(at) : Nth(at, m) = k
  <2> TAKE k \in at
  <2>1. rank[k] \in 1..Cardinality(at)  BY <1>4
  <2>2. Nth(at, rank[k]) = k  BY <2>1, <1>10, <1>5, <1>3
  <2>3. QED  BY <2>1, <2>2
<1>12. QED  BY <1>1, <1>10, <1>11

\* What is kept of a list are elements of it, and a list.
LEMMA OnlyList ==
    ASSUME NEW S, NEW s \in Seq(S), NEW at \in SUBSET DOMAIN s
    PROVE  /\ Only(s, at) \in Seq(S)
           /\ \A m \in DOMAIN Only(s, at) :
                 Nth(at, m) \in at /\ Only(s, at)[m] = s[Nth(at, m)]
           /\ \A m, l \in DOMAIN Only(s, at) : Nth(at, m) = Nth(at, l) => m = l
           /\ \A k \in at : \E m \in DOMAIN Only(s, at) : Only(s, at)[m] = s[k]
<1>1. Len(s) \in Nat /\ DOMAIN s = 1..Len(s) /\ \A k \in DOMAIN s : s[k] \in S
  OBVIOUS
<1> DEFINE n == Cardinality(at)
<1>2. /\ n \in Nat
      /\ \A m \in 1..n : Nth(at, m) \in at
      /\ \A m, l \in 1..n : Nth(at, m) = Nth(at, l) => m = l
      /\ \A k \in at : \E m \in 1..n : Nth(at, m) = k
  BY <1>1, NthPositions
<1>3. Only(s, at) = [m \in 1..n |-> s[Nth(at, m)]]  BY DEF Only
<1> HIDE DEF n
<1>4. Only(s, at) \in [1..n -> S]  BY <1>1, <1>2, <1>3
<1>5. Only(s, at) \in Seq(S)  BY <1>4, <1>2
<1>6. DOMAIN Only(s, at) = 1..n  BY <1>3
<1>7. QED  BY <1>2, <1>3, <1>5, <1>6

\* A finite set put in some order.
LEMMA SetToSeqList ==
    ASSUME NEW S, NEW T \in SUBSET S, IsFiniteSet(T)
    PROVE  /\ SetToSeq(T) \in Seq(S)
           /\ \A m \in DOMAIN SetToSeq(T) : SetToSeq(T)[m] \in T
           /\ \A m, l \in DOMAIN SetToSeq(T) : SetToSeq(T)[m] = SetToSeq(T)[l] => m = l
           /\ \A x \in T : \E m \in DOMAIN SetToSeq(T) : SetToSeq(T)[m] = x
<1> DEFINE n == Cardinality(T)
<1>1. n \in Nat /\ ExistsBijection(1..n, T)  BY FS_CardinalityType
<1>2. \E f \in [1..n -> T] : IsInjective(f)
  BY <1>1 DEF ExistsBijection, Bijection, Injection
<1>3. SetToSeq(T) \in [1..n -> T] /\ IsInjective(SetToSeq(T))
  BY <1>2 DEF SetToSeq
<1>4. SetToSeq(T) \in Injection(1..n, T)  BY <1>3 DEF Injection
<1>5. Cardinality(1..n) = n  BY <1>1, FS_Interval
<1>6. SetToSeq(T) \in Surjection(1..n, T)  BY <1>4, <1>5, FS_Injection
<1> HIDE DEF n
<1>7. SetToSeq(T) \in [1..n -> S]  BY <1>3
<1>8. QED  BY <1>1, <1>3, <1>6, <1>7 DEF IsInjective, Surjection

\* Positions have a first and a last.
LEMMA Extremes ==
    ASSUME NEW n \in Nat, NEW I \in SUBSET (1..n), I # {}
    PROVE  Min(I) \in I /\ Max(I) \in I /\ \A k \in I : Min(I) <= k /\ k <= Max(I)
<1>1. \E x \in I : \A y \in I : x <= y
  <2>0. I \in SUBSET Nat  OBVIOUS
  <2>1. \E x \in I : \A y \in I : ~ (<<y, x>> \in OpToRel(<, Nat))
    BY <2>0, NatLessThanWellFounded, WFMin
  <2>2. \A y, x \in I : y < x => <<y, x>> \in OpToRel(<, Nat)  BY <2>0 DEF OpToRel
  <2>3. PICK x \in I : \A y \in I : ~ (y < x)  BY <2>1, <2>2
  <2>4. \A y \in I : x <= y  BY <2>3, <2>0
  <2>5. QED  BY <2>4
<1>2. \E x \in I : \A y \in I : x >= y
  <2> DEFINE J == {n - x : x \in I}
  <2>0. \A x \in I : n - x \in Nat  OBVIOUS
  <2>1. J \in SUBSET Nat /\ J # {}  BY <2>0
  <2>2. \E x \in J : \A y \in J : ~ (<<y, x>> \in OpToRel(<, Nat))
    BY <2>1, NatLessThanWellFounded, WFMin
  <2>3. \A y, x \in J : y < x => <<y, x>> \in OpToRel(<, Nat)  BY <2>1 DEF OpToRel
  <2>4. PICK x \in I : \A y \in J : ~ (y < n - x)  BY <2>2, <2>3
  <2>5. \A y \in I : ~ (n - y < n - x)  BY <2>4
  <2>6. \A y \in I : x >= y  BY <2>5
  <2>7. QED  BY <2>6
<1>3. QED  BY <1>1, <1>2 DEF Min, Max

\* The row with an id, where there is one.
LEMMA RowOfId ==
    ASSUME NEW S, NEW s \in Seq(S), NEW i, i \in IdsOf(s)
    PROVE  \E k \in DOMAIN s : s[k].id = i /\ RowOf(s, i) = s[k]
<1> DEFINE I == {k \in 1..Len(s) : s[k].id = i}
<1>1. I # {}  BY DEF IdsOf, Range
<1>a. Len(s) \in Nat /\ DOMAIN s = 1..Len(s) /\ I \in SUBSET (1..Len(s))  OBVIOUS
<1> HIDE DEF I
<1>2. Min(I) \in I  BY <1>1, <1>a, Extremes
<1>3. RowOf(s, i) = s[Min(I)]  BY <1>1 DEF RowOf, SelectInSeq, I
<1>4. Min(I) \in DOMAIN s /\ s[Min(I)].id = i  BY <1>2, <1>a DEF I
<1>5. QED  BY <1>3, <1>4

-----------------------------------------------------------------------------
(* What a list shows of a row *)

\* What has to agree (Agrees).
Seen(l, r) ==
    CASE l = "users" -> <<r.name, r.disabled>>
      [] l = "roles" -> <<r.name, r.builtIn>>
      [] l = "keys"  -> <<r.by>>

Lone(s, i) == \A j, k \in DOMAIN s : s[j].id = i /\ s[k].id = i => j = k
Shows(l, s, i, v) == \E k \in DOMAIN s : s[k].id = i /\ Seen(l, s[k]) = v
SameView(l, s, t, i) ==
    /\ \A v : Shows(l, t, i, v) <=> Shows(l, s, i, v)
    /\ Lone(s, i) => Lone(t, i)

\* A row at its place shows the same.
LEMMA ViewInPlace ==
    ASSUME NEW l, NEW i, NEW s, NEW t, DOMAIN t = DOMAIN s,
           \A k \in DOMAIN s : t[k].id = i <=> s[k].id = i,
           \A k \in DOMAIN s : s[k].id = i => Seen(l, t[k]) = Seen(l, s[k])
    PROVE  SameView(l, s, t, i)
BY DEF SameView, Shows, Lone

\* A row added is another.
LEMMA ViewAppended ==
    ASSUME NEW S, NEW l, NEW i, NEW s \in Seq(S), NEW r, r.id # i
    PROVE  SameView(l, s, Append(s, r), i)
<1> DEFINE t == Append(s, r)
<1>1. Len(s) \in Nat /\ DOMAIN s = 1..Len(s)  OBVIOUS
<1>2. /\ DOMAIN t = 1..(Len(s) + 1)
      /\ \A k \in DOMAIN s : t[k] = s[k]
      /\ t[Len(s) + 1] = r
  OBVIOUS
<1> HIDE DEF t
<1>3. \A k \in DOMAIN t : t[k].id = i => k \in DOMAIN s  BY <1>1, <1>2
<1>4. \A k \in DOMAIN s : k \in DOMAIN t  BY <1>1, <1>2
<1>5. SameView(l, s, t, i)  BY <1>2, <1>3, <1>4 DEF SameView, Shows, Lone
<1>6. QED  BY <1>5 DEF t

\* Rows kept, the one among them.
LEMMA ViewOfKept ==
    ASSUME NEW S, NEW l, NEW i, NEW s \in Seq(S), NEW at \in SUBSET DOMAIN s,
           \A k \in DOMAIN s : s[k].id = i => k \in at
    PROVE  SameView(l, s, Only(s, at), i)
<1> DEFINE t == Only(s, at)
<1>1. /\ \A m \in DOMAIN t : Nth(at, m) \in at /\ t[m] = s[Nth(at, m)]
      /\ \A m, h \in DOMAIN t : Nth(at, m) = Nth(at, h) => m = h
      /\ \A k \in at : \E m \in DOMAIN t : t[m] = s[k]
  BY OnlyList
<1> HIDE DEF t
<1>2. \A v : Shows(l, t, i, v) => Shows(l, s, i, v)  BY <1>1 DEF Shows
<1>3. \A v : Shows(l, s, i, v) => Shows(l, t, i, v)
  <2>1. SUFFICES ASSUME NEW v, NEW k \in DOMAIN s, s[k].id = i, Seen(l, s[k]) = v
                 PROVE  Shows(l, t, i, v)
    BY DEF Shows
  <2>2. PICK m \in DOMAIN t : t[m] = s[k]  BY <2>1, <1>1
  <2>3. QED  BY <2>1, <2>2 DEF Shows
<1>4. Lone(s, i) => Lone(t, i)
  <2>1. SUFFICES ASSUME Lone(s, i), NEW j \in DOMAIN t, NEW k \in DOMAIN t,
                        t[j].id = i, t[k].id = i
                 PROVE  j = k
    BY DEF Lone
  <2>2. Nth(at, j) \in DOMAIN s /\ Nth(at, k) \in DOMAIN s  BY <1>1
  <2>3. s[Nth(at, j)].id = i /\ s[Nth(at, k)].id = i  BY <1>1, <2>1
  <2>4. QED  BY <1>1, <2>1, <2>2, <2>3 DEF Lone
<1>5. QED  BY <1>2, <1>3, <1>4 DEF SameView, t

\* Rows put in front of, or behind, others.
LEMMA ViewOfJoined ==
    ASSUME NEW S, NEW l, NEW i, NEW s \in Seq(S), NEW r \in Seq(S),
           \A k \in DOMAIN r : r[k].id # i
    PROVE  SameView(l, s, r \o s, i) /\ SameView(l, s, s \o r, i)
<1>1. /\ Len(s) \in Nat /\ DOMAIN s = 1..Len(s)
      /\ Len(r) \in Nat /\ DOMAIN r = 1..Len(r)
  OBVIOUS
<1>2. SameView(l, s, r \o s, i)
  <2> DEFINE t == r \o s
  <2>1. /\ DOMAIN t = 1..(Len(r) + Len(s))
        /\ \A k \in DOMAIN t : t[k] = IF k <= Len(r) THEN r[k] ELSE s[k - Len(r)]
    OBVIOUS
  <2> HIDE DEF t
  <2>2. \A k \in DOMAIN t : t[k].id = i => k - Len(r) \in DOMAIN s /\ t[k] = s[k - Len(r)]
    BY <1>1, <2>1
  <2>3. \A k \in DOMAIN s : k + Len(r) \in DOMAIN t /\ t[k + Len(r)] = s[k]
    BY <1>1, <2>1
  <2>4. \A j, k \in DOMAIN t : j - Len(r) = k - Len(r) => j = k  BY <1>1, <2>1
  <2>5. SameView(l, s, t, i)  BY <2>2, <2>3, <2>4 DEF SameView, Shows, Lone
  <2>6. QED  BY <2>5 DEF t
<1>3. SameView(l, s, s \o r, i)
  <2> DEFINE t == s \o r
  <2>1. /\ DOMAIN t = 1..(Len(s) + Len(r))
        /\ \A k \in DOMAIN t : t[k] = IF k <= Len(s) THEN s[k] ELSE r[k - Len(s)]
    OBVIOUS
  <2> HIDE DEF t
  <2>2. \A k \in DOMAIN t : t[k].id = i => k \in DOMAIN s
    BY <1>1, <2>1
  <2>3. \A k \in DOMAIN s : k \in DOMAIN t /\ t[k] = s[k]  BY <1>1, <2>1
  <2>5. SameView(l, s, t, i)  BY <2>2, <2>3 DEF SameView, Shows, Lone
  <2>6. QED  BY <2>5 DEF t
<1>4. QED  BY <1>2, <1>3

-----------------------------------------------------------------------------
(* Types *)

Rows == [name : People \cup RoleNames \cup {None}, email : People \cup {None},
         role : Granular \cup {None}, by : RealIds \cup {None}]
AllOps == {"inviteUser", "updateUser", "disableUser", "reactivateUser",
           "createRole", "updateRole", "deleteRole", "createApiKey", "deleteApiKey"}
Pcs == {"idle", "typing", "sent", "checked", "written", "done", "refused", "ended"}
Going == {"sent", "checked", "written", "done", "refused"}
Creating == {"inviteUser", "createRole", "createApiKey"}

CallRow == [op : AllOps \cup {None}, id : Ids \cup {None}, row : Rows,
            pc : Pcs, ours : BOOLEAN]

\* What a command under way is about.
CallFine(f, c) ==
    /\ c.pc = "idle" => c.id = None
    /\ c.pc = "typing" => c.op \in {"updateUser", "updateRole"} /\ c.id \in Ids
    /\ c.pc \in Going =>
         /\ c.op \in AllOps /\ c.id \in RealIds
         /\ c.op \in {"inviteUser", "updateUser"} => c.row \in Typed
         /\ c.op \in {"createRole", "updateRole"} => c.row.name \in RoleNames
         /\ c.op \in Creating => c.id = f
    /\ c.pc = "written" => c.op \notin Ops["users"]
CallsOK == call \in [Calls -> CallRow] /\ \A f \in Calls : CallFine(f, call[f])

DbOK ==
    /\ db \in [users : SUBSET UserRow, roles : SUBSET RoleRow, keys : SUBSET KeyRow]
    /\ \A l \in Lists : IsFiniteSet(db[l])
    /\ \A u, v \in db.users : u.email = v.email \/ u.id = v.id => u = v
    /\ \A r, q \in db.roles : r.name = q.name \/ r.id = q.id => r = q
    /\ \A k, h \in db.keys : k.id = h.id => k = h

ScreenOK == screen \in [users : Seq(ShownUser), roles : Seq(ShownRole), keys : Seq(ShownKey)]
ActorOK == actor \in Ids

LoadOK ==
    /\ load \in [Lists -> [pc : {"due", "asked", "read", "failed", "done"},
                           rows : SUBSET (UserRow \cup RoleRow \cup KeyRow)]]
    /\ load["users"].rows \subseteq UserRow
    /\ load["roles"].rows \subseteq RoleRow
    /\ load["keys"].rows \subseteq KeyRow
    /\ \A l \in Lists : /\ IsFiniteSet(load[l].rows)
                        /\ \A r, q \in load[l].rows : r.id = q.id => r = q

UnsureOK == unsure \in [Lists -> SUBSET RealIds]
AuditOK == audit \subseteq {"created", "updated", "deleted"} \X RealIds

-----------------------------------------------------------------------------
(* The reducers *)

\* Each operation is of one of the lists.
LEMMA ListOfOps ==
    /\ \A op \in Ops["users"] : ListOf(op) = "users"
    /\ \A op \in Ops["roles"] : ListOf(op) = "roles"
    /\ \A op \in Ops["keys"] : ListOf(op) = "keys"
    /\ AllOps = Ops["users"] \cup Ops["roles"] \cup Ops["keys"]
    /\ \A op \in AllOps : ListOf(op) \in Lists
<1>1. \A op \in AllOps : \E l \in Lists : op \in Ops[l] /\ ListOf(op) = l
  <2>1. \A op \in AllOps : \E l \in Lists : op \in Ops[l]
    BY DEF AllOps, Lists, Ops
  <2>2. QED  BY <2>1 DEF ListOf
<1>2. AllOps = Ops["users"] \cup Ops["roles"] \cup Ops["keys"]
  BY DEF AllOps, Ops
<1>3. /\ Ops["users"] \cap Ops["roles"] = {}
      /\ Ops["users"] \cap Ops["keys"] = {}
      /\ Ops["roles"] \cap Ops["keys"] = {}
  BY DEF Ops
<1>4. QED  BY <1>1, <1>2, <1>3 DEF Lists

\* The roles keep all but their counts.
Counted ==
    /\ DOMAIN screen'.roles = DOMAIN screen.roles
    /\ \A k \in DOMAIN screen.roles :
         /\ screen'.roles[k].id = screen.roles[k].id
         /\ screen'.roles[k].name = screen.roles[k].name
         /\ screen'.roles[k].builtIn = screen.roles[k].builtIn

\* A role has some number of users.
LEMMA CountedAsNat ==
    ASSUME NEW users \in Seq(ShownUser), NEW name
    PROVE  CountedAs(users, name) \in Nat
<1>1. Len(users) \in Nat /\ DOMAIN users = 1..Len(users)  OBVIOUS
<1>2. IsFiniteSet(1..Len(users))  BY <1>1, FS_Interval
<1> DEFINE T == {k \in DOMAIN users : users[k].role = name /\ ~users[k].disabled}
<1>3. T \in SUBSET (1..Len(users))  BY <1>1
<1>4. Cardinality(T) \in Nat  BY <1>2, <1>3, FS_Subset, FS_CardinalityType
<1>5. QED  BY <1>4 DEF CountedAs

\* Counting the users of the roles changes nothing else of them.
LEMMA SyncedCounts ==
    ASSUME NEW users \in Seq(ShownUser), NEW roles \in Seq(ShownRole)
    PROVE  /\ SyncRoleUserCounts(users, roles) \in Seq(ShownRole)
           /\ DOMAIN SyncRoleUserCounts(users, roles) = DOMAIN roles
           /\ \A k \in DOMAIN roles :
                /\ SyncRoleUserCounts(users, roles)[k].id = roles[k].id
                /\ SyncRoleUserCounts(users, roles)[k].name = roles[k].name
                /\ SyncRoleUserCounts(users, roles)[k].builtIn = roles[k].builtIn
<1> DEFINE t == SyncRoleUserCounts(users, roles)
<1>1. /\ Len(roles) \in Nat /\ DOMAIN roles = 1..Len(roles)
      /\ \A k \in DOMAIN roles : roles[k] \in ShownRole
  OBVIOUS
<1>2. /\ DOMAIN t = DOMAIN roles
      /\ \A k \in DOMAIN roles :
           t[k] = [roles[k] EXCEPT !.users = CountedAs(users, roles[k].name)]
  BY DEF SyncRoleUserCounts
<1>3. t = [k \in 1..Len(roles) |-> t[k]]  BY <1>1 DEF SyncRoleUserCounts
<1> HIDE DEF t
<1>4. \A k \in DOMAIN roles : t[k] \in ShownRole /\ t[k].id = roles[k].id
        /\ t[k].name = roles[k].name /\ t[k].builtIn = roles[k].builtIn
  BY <1>1, <1>2, CountedAsNat DEF ShownRole
<1>5. t \in [1..Len(roles) -> ShownRole]  BY <1>1, <1>3, <1>4
<1>6. t \in Seq(ShownRole)  BY <1>1, <1>5
<1>7. QED  BY <1>2, <1>4, <1>6 DEF t

\* A change of the users shown changes the counts of the roles, and no key.
LEMMA WithUsersDoes ==
    ASSUME ScreenOK, NEW users \in Seq(ShownUser), WithUsers(users)
    PROVE  /\ ScreenOK' /\ Counted
           /\ screen'.users = users /\ screen'.keys = screen.keys
<1>1. screen.roles \in Seq(ShownRole)  BY DEF ScreenOK
<1> DEFINE t == SyncRoleUserCounts(users, screen.roles)
<1>2. screen' = [screen EXCEPT !.users = users, !.roles = t]  BY DEF WithUsers
<1>3. /\ t \in Seq(ShownRole)
      /\ DOMAIN t = DOMAIN screen.roles
      /\ \A k \in DOMAIN screen.roles :
                /\ t[k].id = screen.roles[k].id
                /\ t[k].name = screen.roles[k].name
                /\ t[k].builtIn = screen.roles[k].builtIn
  BY <1>1, SyncedCounts
<1> HIDE DEF t
<1>4. /\ screen'.users = users /\ screen'.roles = t /\ screen'.keys = screen.keys
      /\ ScreenOK'
  BY <1>2, <1>3 DEF ScreenOK
<1>5. QED  BY <1>3, <1>4 DEF Counted

\* What a change of the rows of one user leaves as it is.
InPlace(i) ==
    /\ ScreenOK'
    /\ Counted /\ screen'.keys = screen.keys
    /\ DOMAIN screen'.users = DOMAIN screen.users
    /\ \A k \in DOMAIN screen.users :
         /\ screen'.users[k].id = screen.users[k].id
         /\ screen.users[k].id # i => screen'.users[k] = screen.users[k]

\* So does what changes nothing.
LEMMA InPlaceUnchanged ==
    ASSUME ScreenOK, NEW i, UNCHANGED screen
    PROVE  InPlace(i)
BY DEF InPlace, ScreenOK, Counted

\* A user that is edited gets the name, and is disabled if it was.
LEMMA UpdatedUser ==
    ASSUME ScreenOK, ActorOK, NEW i, NEW row \in Typed, ShowUpdatedUser(i, row)
    PROVE  /\ InPlace(i) /\ actor' = actor
           /\ \A k \in DOMAIN screen.users : screen.users[k].id = i =>
                 /\ screen'.users[k].name = row.name
                 /\ screen'.users[k].disabled = screen.users[k].disabled
<1> DEFINE s == screen.users
           t == [k \in DOMAIN s |-> IF s[k].id = i
                   THEN [s[k] EXCEPT !.name = row.name, !.email = row.email, !.role = row.role]
                   ELSE s[k]]
<1>1. s \in Seq(ShownUser) /\ Len(s) \in Nat /\ DOMAIN s = 1..Len(s)
      /\ \A k \in DOMAIN s : s[k] \in ShownUser
  BY DEF ScreenOK
<1>2. row.name \in People /\ row.email \in People /\ row.role \in Granular
  BY TypedAssumption
<1>3. \A k \in DOMAIN s : t[k] \in ShownUser /\ t[k].id = s[k].id
        /\ (s[k].id # i => t[k] = s[k])
        /\ (s[k].id = i => t[k].name = row.name /\ t[k].disabled = s[k].disabled)
  BY <1>1, <1>2 DEF ShownUser
<1>4. DOMAIN t = DOMAIN s  OBVIOUS
<1>5. t = [k \in 1..Len(s) |-> t[k]]  BY <1>1
<1>6. (i \in IdsOf(s) /\ WithUsers(t)) \/ (i \notin IdsOf(s) /\ UNCHANGED screen)
  BY DEF ShowUpdatedUser, Changed
<1> HIDE DEF t
<1>a. t \in [1..Len(s) -> ShownUser]  BY <1>1, <1>3, <1>4, <1>5
<1>7. t \in Seq(ShownUser)  BY <1>1, <1>a
<1>8. CASE WithUsers(t)
  <2>1. ScreenOK' /\ Counted /\ screen'.users = t /\ screen'.keys = screen.keys
    BY <1>7, <1>8, WithUsersDoes
  <2>2. QED  BY <2>1, <1>3, <1>4 DEF InPlace, ShowUpdatedUser
<1>9. CASE i \notin IdsOf(s) /\ UNCHANGED screen
  <2>1. \A k \in DOMAIN s : s[k].id # i  BY <1>9, <1>1 DEF IdsOf, Range
  <2>2. QED  BY <1>9, <2>1, InPlaceUnchanged DEF ShowUpdatedUser
<1>10. QED  BY <1>6, <1>8, <1>9

\* Either the user is disabled, or was, or is the last administrator shown.
LEMMA DisabledUser ==
    ASSUME ScreenOK, ActorOK, NEW i, ShowDisabledUser(i)
    PROVE  /\ InPlace(i) /\ ActorOK'
           /\ actor' = actor \/ \E k \in DOMAIN screen.users : actor' = screen.users[k].id
           /\ \A k \in DOMAIN screen.users : screen.users[k].id = i =>
                 screen'.users[k].name = screen.users[k].name
           /\ ~ IsFinalEffectiveAdmin(i) /\ Lone(screen.users, i) =>
                 \A k \in DOMAIN screen.users : screen.users[k].id = i =>
                    screen'.users[k].disabled
<1> DEFINE s == screen.users
           t == [k \in DOMAIN s |-> IF s[k].id = i THEN [s[k] EXCEPT !.disabled = TRUE]
                                                   ELSE s[k]]
           F == {k \in 1..Len(t) : ~ t[k].disabled}
<1>1. s \in Seq(ShownUser) /\ Len(s) \in Nat /\ DOMAIN s = 1..Len(s)
      /\ \A k \in DOMAIN s : s[k] \in ShownUser
  BY DEF ScreenOK
<1>2. \A k \in DOMAIN s : t[k] \in ShownUser /\ t[k].id = s[k].id
        /\ t[k].name = s[k].name
        /\ (s[k].id # i => t[k] = s[k])
        /\ (s[k].id = i => t[k].disabled)
  BY <1>1 DEF ShownUser
<1>3. DOMAIN t = DOMAIN s  OBVIOUS
<1>4. t = [k \in 1..Len(s) |-> t[k]]  BY <1>1
<1>5. \/ /\ Disableable(i) /\ WithUsers(t)
         /\ actor' = IF actor = i /\ SelectInSeq(t, LAMBDA u : ~u.disabled) # 0
                     THEN t[SelectInSeq(t, LAMBDA u : ~u.disabled)].id ELSE actor
      \/ ~ Disableable(i) /\ UNCHANGED <<screen, actor>>
  BY DEF ShowDisabledUser, Changed
<1>6. SelectInSeq(t, LAMBDA u : ~u.disabled) = IF F # {} THEN Min(F) ELSE 0
  BY DEF SelectInSeq
<1> HIDE DEF t
<1>a. t \in [1..Len(s) -> ShownUser]  BY <1>1, <1>2, <1>3, <1>4
<1>7. t \in Seq(ShownUser) /\ Len(t) = Len(s)  BY <1>1, <1>a
<1>8. F # {} => Min(F) \in F  BY <1>1, <1>7, Extremes
<1> DEFINE first == SelectInSeq(t, LAMBDA u : ~u.disabled)
<1>9. first # 0 => first \in DOMAIN s  BY <1>1, <1>6, <1>7, <1>8
<1> HIDE DEF first, F
<1>10. CASE Disableable(i) /\ WithUsers(t)
  <2>1. ScreenOK' /\ Counted /\ screen'.users = t /\ screen'.keys = screen.keys
    BY <1>7, <1>10, WithUsersDoes
  <2>2. actor' = actor \/ \E k \in DOMAIN s : actor' = s[k].id
    BY <1>10, <1>5, <1>9, <1>2 DEF first
  <2>3. ActorOK'  BY <2>2, <1>1 DEF ActorOK, ShownUser
  <2>4. QED  BY <2>1, <2>2, <2>3, <1>2, <1>3 DEF InPlace
<1>11. CASE ~ Disableable(i) /\ UNCHANGED <<screen, actor>>
  <2>1. InPlace(i) /\ ActorOK'  BY <1>11, InPlaceUnchanged DEF ActorOK
  <2>2. ASSUME ~ IsFinalEffectiveAdmin(i), Lone(s, i), NEW k \in DOMAIN s, s[k].id = i
        PROVE  s[k].disabled
    <3>1. i \in IdsOf(s)  BY <2>2 DEF IdsOf, Range
    <3>2. RowOf(s, i).disabled  BY <1>11, <2>2, <3>1 DEF Disableable
    <3>3. PICK m \in DOMAIN s : s[m].id = i /\ RowOf(s, i) = s[m]
      BY <3>1, <1>1, RowOfId
    <3>4. m = k  BY <2>2, <3>3 DEF Lone
    <3>5. QED  BY <3>2, <3>3, <3>4
  <2>3. QED  BY <1>11, <2>1, <2>2
<1>12. QED  BY <1>5, <1>10, <1>11

\* A user that is reactivated is no longer disabled, and keeps its name.
LEMMA ReactivatedUser ==
    ASSUME ScreenOK, ActorOK, NEW i, ShowReactivatedUser(i)
    PROVE  /\ InPlace(i) /\ actor' = actor
           /\ \A k \in DOMAIN screen.users : screen.users[k].id = i =>
                 screen'.users[k].name = screen.users[k].name
           /\ Lone(screen.users, i) =>
                 \A k \in DOMAIN screen.users : screen.users[k].id = i =>
                    ~ screen'.users[k].disabled
<1> DEFINE s == screen.users
           t == [k \in DOMAIN s |-> IF s[k].id = i THEN [s[k] EXCEPT !.disabled = FALSE]
                                                   ELSE s[k]]
<1>1. s \in Seq(ShownUser) /\ Len(s) \in Nat /\ DOMAIN s = 1..Len(s)
      /\ \A k \in DOMAIN s : s[k] \in ShownUser
  BY DEF ScreenOK
<1>2. \A k \in DOMAIN s : t[k] \in ShownUser /\ t[k].id = s[k].id
        /\ t[k].name = s[k].name
        /\ (s[k].id # i => t[k] = s[k])
        /\ (s[k].id = i => ~ t[k].disabled)
  BY <1>1 DEF ShownUser
<1>3. DOMAIN t = DOMAIN s  OBVIOUS
<1>4. t = [k \in 1..Len(s) |-> t[k]]  BY <1>1
<1>5. \/ WithUsers(t)
      \/ ~ (i \in IdsOf(s) /\ RowOf(s, i).disabled) /\ UNCHANGED screen
  BY DEF ShowReactivatedUser, Changed
<1>6. actor' = actor  BY DEF ShowReactivatedUser
<1> HIDE DEF t
<1>a. t \in [1..Len(s) -> ShownUser]  BY <1>1, <1>2, <1>3, <1>4
<1>7. t \in Seq(ShownUser)  BY <1>1, <1>a
<1>10. CASE WithUsers(t)
  <2>1. ScreenOK' /\ Counted /\ screen'.users = t /\ screen'.keys = screen.keys
    BY <1>7, <1>10, WithUsersDoes
  <2>4. QED  BY <2>1, <1>2, <1>3, <1>6 DEF InPlace
<1>11. CASE ~ (i \in IdsOf(s) /\ RowOf(s, i).disabled) /\ UNCHANGED screen
  <2>1. InPlace(i)  BY <1>11, InPlaceUnchanged
  <2>2. ASSUME Lone(s, i), NEW k \in DOMAIN s, s[k].id = i
        PROVE  ~ s[k].disabled
    <3>1. i \in IdsOf(s)  BY <2>2 DEF IdsOf, Range
    <3>2. ~ RowOf(s, i).disabled  BY <1>11, <2>2, <3>1
    <3>3. PICK m \in DOMAIN s : s[m].id = i /\ RowOf(s, i) = s[m]
      BY <3>1, <1>1, RowOfId
    <3>4. m = k  BY <2>2, <3>3 DEF Lone
    <3>5. QED  BY <3>2, <3>3, <3>4
  <2>3. QED  BY <1>11, <2>1, <2>2, <1>6
<1>12. QED  BY <1>5, <1>10, <1>11

\* Ids of the server, and those a browser makes up, are apart.
LEMMA IdFacts ==
    /\ Calls \subseteq RealIds /\ RealIds \subseteq Ids
    /\ \A f \in Calls : Temp(f) \in Ids /\ Temp(f) \notin RealIds
    /\ \A f, g \in Calls : Temp(f) = Temp(g) => f = g
    /\ Demo \in Ids /\ Demo \notin RealIds
<1>1. Demo \in MadeIds
  <2>1. PICK k \in DOMAIN MadeUsers : MadeUsers[k].id = Demo  BY MadeAssumption
  <2>2. MadeUsers[k] \in Range(MadeUsers)  BY DEF Range
  <2>3. QED  BY <2>1, <2>2 DEF MadeIds
<1>2. QED  BY <1>1, IdsAssumption DEF RealIds, Ids, Temp

\* The row invited is added, and takes the id of the server unless another has the
\* e-mail, whose row does if it has none.
LEMMA InvitedUser ==
    ASSUME ScreenOK, ActorOK, NEW f \in Calls, NEW row \in Typed, ShowInvitedUser(f, row)
    PROVE  /\ ScreenOK' /\ ActorOK' /\ Counted /\ screen'.keys = screen.keys
           /\ actor' \in {actor, f}
           /\ \A k \in DOMAIN screen'.users :
                \/ screen'.users[k].id \in {Temp(f), f}
                \/ \E m \in DOMAIN screen.users : screen.users[m].id = screen'.users[k].id
           /\ \A i \in RealIds \ {f} : SameView("users", screen.users, screen'.users, i)
           /\ ~ (\E u \in Range(screen.users) : u.email = row.email \/ u.id \in {f, Temp(f)}) =>
                /\ Lone(screen'.users, f)
                /\ \A v : Shows("users", screen'.users, f, v) <=> v = <<row.name, FALSE>>
<1> DEFINE s == screen.users
           new == [id |-> Temp(f), name |-> row.name, email |-> row.email,
                   role |-> row.role, disabled |-> FALSE]
           a == Append(s, new)
           I == {k \in 1..Len(a) : a[k].email = row.email}
           h == Min(I)
           t == IF a[h].id \in RealIds THEN a
                ELSE [k \in DOMAIN a |-> IF a[k].id = a[h].id THEN [a[k] EXCEPT !.id = f]
                                                             ELSE a[k]]
<1>1. s \in Seq(ShownUser) /\ Len(s) \in Nat /\ DOMAIN s = 1..Len(s)
      /\ \A k \in DOMAIN s : s[k] \in ShownUser
  BY DEF ScreenOK
<1>2. new \in ShownUser /\ new.id = Temp(f) /\ new.email = row.email
      /\ Seen("users", new) = <<row.name, FALSE>>
  BY TypedAssumption, IdFacts DEF ShownUser, Seen
<1> HIDE DEF new
<1>3. /\ a \in Seq(ShownUser) /\ Len(a) = Len(s) + 1 /\ DOMAIN a = 1..Len(a)
      /\ \A k \in DOMAIN s : a[k] = s[k] /\ k \in DOMAIN a
      /\ a[Len(a)] = new
      /\ \A k \in DOMAIN a : k \in DOMAIN s \/ k = Len(a)
      /\ \A k \in DOMAIN a : a[k] \in ShownUser
  BY <1>1, <1>2
<1>4. Seen("users", a[Len(a)]) = <<row.name, FALSE>> /\ a[Len(a)].id = Temp(f)
      /\ a[Len(a)].email = row.email
  BY <1>2, <1>3
<1>5. \A i \in RealIds : SameView("users", s, a, i)
  BY <1>1, <1>2, ViewAppended, IdFacts
<1>6. SelectInSeq(a, LAMBDA u : u.email = row.email) = IF I # {} THEN Min(I) ELSE 0
  BY DEF SelectInSeq
<1> HIDE DEF a
<1>7. Len(a) \in I  BY <1>1, <1>3, <1>4
<1>b. Len(a) \in Nat /\ I \in SUBSET (1..Len(a)) /\ I # {}  BY <1>1, <1>3, <1>7
<1>c. Min(I) \in I /\ \A k \in I : Min(I) <= k  BY <1>b, Extremes
<1>8. h \in I /\ SelectInSeq(a, LAMBDA u : u.email = row.email) = h
  BY <1>c, <1>6
<1>9. h \in DOMAIN a /\ a[h].email = row.email  BY <1>3, <1>8
<1>10. WithUsers(Adopted(a, row.email, f)) /\ actor' = Adopting(a, row.email, f)
  BY DEF ShowInvitedUser, a, new
<1>11. Adopted(a, row.email, f) = t /\ actor' \in {actor, f}
  BY <1>8, <1>10 DEF Adopted, Adopting, Changed
<1> HIDE DEF I, h
<1>12. /\ DOMAIN t = DOMAIN a
       /\ \A k \in DOMAIN a : /\ t[k] \in ShownUser
                             /\ Seen("users", t[k]) = Seen("users", a[k])
                             /\ t[k].id = IF a[h].id \notin RealIds /\ a[k].id = a[h].id
                                         THEN f ELSE a[k].id
  BY <1>3, <1>9, IdFacts DEF Seen, ShownUser
<1>13. t = a \/ t = [k \in DOMAIN a |-> IF a[k].id = a[h].id THEN [a[k] EXCEPT !.id = f]
                                                             ELSE a[k]]
  OBVIOUS
<1>d. a \in [1..Len(a) -> ShownUser]  BY <1>3
<1> HIDE DEF t
<1>14. t \in [1..Len(a) -> ShownUser]
  <2>1. CASE t = a  BY <2>1, <1>d
  <2>2. CASE t # a
    <3>1. t = [k \in 1..Len(a) |-> t[k]]  BY <2>2, <1>13, <1>3
    <3>2. QED  BY <3>1, <1>3, <1>12
  <2>3. QED  BY <2>1, <2>2
<1>15. t \in Seq(ShownUser)  BY <1>1, <1>3, <1>14
<1>16. ScreenOK' /\ Counted /\ screen'.users = t /\ screen'.keys = screen.keys
  BY <1>10, <1>11, <1>15, WithUsersDoes
<1>17. ActorOK'  BY <1>11, IdFacts DEF ActorOK
<1>18. \A k \in DOMAIN t : \/ t[k].id \in {Temp(f), f}
                           \/ \E m \in DOMAIN s : s[m].id = t[k].id
  BY <1>3, <1>4, <1>12
<1>19. ASSUME NEW i \in RealIds, i # f
       PROVE  SameView("users", s, t, i)
  <2>1. \A k \in DOMAIN a : t[k].id = i <=> a[k].id = i  BY <1>12, <1>19
  <2>2. SameView("users", a, t, i)  BY <2>1, <1>12, ViewInPlace
  <2>3. QED  BY <2>2, <1>5 DEF SameView
<1>20. ASSUME ~ (\E u \in Range(s) : u.email = row.email \/ u.id \in {f, Temp(f)})
       PROVE  /\ Lone(t, f)
              /\ \A v : Shows("users", t, f, v) <=> v = <<row.name, FALSE>>
  <2>1. \A k \in DOMAIN s : s[k].email # row.email /\ s[k].id # f /\ s[k].id # Temp(f)
    BY <1>20 DEF Range
  <2>2. h = Len(a)  BY <2>1, <1>3, <1>9
  <2>3. \A k \in DOMAIN a : t[k].id = f <=> k = Len(a)
    BY <2>1, <2>2, <1>3, <1>4, <1>12, IdFacts
  <2>4. Len(a) \in DOMAIN a  BY <1>1, <1>3
  <2>5. Seen("users", t[Len(a)]) = <<row.name, FALSE>>  BY <2>4, <1>4, <1>12
  <2>6. Lone(t, f)  BY <2>3, <1>12 DEF Lone
  <2>7. QED  BY <2>3, <2>4, <2>5, <2>6, <1>12 DEF Shows
<1>21. QED  BY <1>11, <1>16, <1>17, <1>18, <1>19, <1>20

\* A role is added to the list, changed in it, or dropped from it.
LEMMA CreatedRole ==
    ASSUME ScreenOK, NEW i \in Ids, NEW row, row.name \in RoleNames, ShowCreatedRole(i, row)
    PROVE  /\ ScreenOK' /\ actor' = actor
           /\ screen'.users = screen.users /\ screen'.keys = screen.keys
           /\ \E r : /\ screen'.roles = Append(screen.roles, r) /\ r.id = i
                    /\ Seen("roles", r) = <<row.name, FALSE>>
<1> DEFINE r == [id |-> i, name |-> row.name, builtIn |-> FALSE, users |-> 0]
<1>1. r \in ShownRole /\ r.id = i /\ Seen("roles", r) = <<row.name, FALSE>>
  BY DEF ShownRole, Seen
<1>2. screen' = [screen EXCEPT !["roles"] = Append(screen.roles, r)] /\ actor' = actor
  BY DEF ShowCreatedRole, Show
<1> HIDE DEF r
<1>3. screen.roles \in Seq(ShownRole)  BY DEF ScreenOK
<1>4. Append(screen.roles, r) \in Seq(ShownRole)  BY <1>1, <1>3
<1>5. QED  BY <1>1, <1>2, <1>4 DEF ScreenOK

\* It is changed where it has that id and is not built in.
LEMMA UpdatedRole ==
    ASSUME ScreenOK, NEW i, NEW row, row.name \in RoleNames, ShowUpdatedRole(i, row)
    PROVE  /\ ScreenOK' /\ actor' = actor
           /\ screen'.users = screen.users /\ screen'.keys = screen.keys
           /\ DOMAIN screen'.roles = DOMAIN screen.roles
           /\ \A k \in DOMAIN screen.roles :
                /\ screen'.roles[k].id = screen.roles[k].id
                /\ screen.roles[k].id # i => screen'.roles[k] = screen.roles[k]
                /\ screen.roles[k].id = i /\ ~ screen.roles[k].builtIn =>
                      screen'.roles[k].name = row.name /\ ~ screen'.roles[k].builtIn
<1> DEFINE s == screen.roles
           t == [k \in DOMAIN s |-> IF s[k].id = i
                   THEN IF s[k].builtIn THEN s[k] ELSE [s[k] EXCEPT !.name = row.name]
                   ELSE s[k]]
<1>1. s \in Seq(ShownRole) /\ Len(s) \in Nat /\ DOMAIN s = 1..Len(s)
      /\ \A k \in DOMAIN s : s[k] \in ShownRole
  BY DEF ScreenOK
<1>2. \A k \in DOMAIN s : t[k] \in ShownRole /\ t[k].id = s[k].id
        /\ (s[k].id # i => t[k] = s[k])
        /\ (s[k].id = i /\ ~ s[k].builtIn => t[k].name = row.name /\ ~ t[k].builtIn)
  BY <1>1 DEF ShownRole
<1>3. DOMAIN t = DOMAIN s  OBVIOUS
<1>4. t = [k \in 1..Len(s) |-> t[k]]  BY <1>1
<1>5. screen' = [screen EXCEPT !["roles"] = t] /\ actor' = actor
  BY DEF ShowUpdatedRole, Show, Changed
<1> HIDE DEF t
<1>6. t \in [1..Len(s) -> ShownRole]  BY <1>1, <1>2, <1>3, <1>4
<1>7. t \in Seq(ShownRole)  BY <1>1, <1>6
<1>8. QED  BY <1>2, <1>3, <1>5, <1>7 DEF ScreenOK

\* It is dropped unless it is built in.
LEMMA DeletedRole ==
    ASSUME ScreenOK, NEW i, ShowDeletedRole(i)
    PROVE  /\ ScreenOK' /\ actor' = actor
           /\ screen'.users = screen.users /\ screen'.keys = screen.keys
           /\ screen'.roles = Only(screen.roles, {k \in DOMAIN screen.roles :
                                    screen.roles[k].id # i \/ screen.roles[k].builtIn})
<1> DEFINE t == Only(screen.roles, {k \in DOMAIN screen.roles :
                                    screen.roles[k].id # i \/ screen.roles[k].builtIn})
<1>1. screen' = [screen EXCEPT !["roles"] = t] /\ actor' = actor
  BY DEF ShowDeletedRole, Show
<1>2. t \in Seq(ShownRole)  BY OnlyList DEF ScreenOK
<1> HIDE DEF t
<1>3. QED  BY <1>1, <1>2 DEF ScreenOK, t

\* A key is put in front of the list, or dropped from it.
LEMMA CreatedKey ==
    ASSUME ScreenOK, NEW i \in Ids, NEW by \in Ids, ShowCreatedKey(i, by)
    PROVE  /\ ScreenOK' /\ actor' = actor
           /\ screen'.users = screen.users /\ screen'.roles = screen.roles
           /\ screen'.keys = <<[id |-> i, by |-> by]>> \o screen.keys
<1> DEFINE t == <<[id |-> i, by |-> by]>> \o screen.keys
<1>1. screen' = [screen EXCEPT !["keys"] = t] /\ actor' = actor
  BY DEF ShowCreatedKey, Show
<1>2. [id |-> i, by |-> by] \in ShownKey /\ screen.keys \in Seq(ShownKey)
  BY DEF ShownKey, ScreenOK
<1>3. t \in Seq(ShownKey)  BY <1>2
<1> HIDE DEF t
<1>4. QED  BY <1>1, <1>3 DEF ScreenOK, t

\* A key is dropped whatever it is.
LEMMA DeletedKey ==
    ASSUME ScreenOK, NEW i, ShowDeletedKey(i)
    PROVE  /\ ScreenOK' /\ actor' = actor
           /\ screen'.users = screen.users /\ screen'.roles = screen.roles
           /\ screen'.keys = Only(screen.keys, {k \in DOMAIN screen.keys :
                                                  screen.keys[k].id # i})
<1> DEFINE t == Only(screen.keys, {k \in DOMAIN screen.keys : screen.keys[k].id # i})
<1>1. screen' = [screen EXCEPT !["keys"] = t] /\ actor' = actor
  BY DEF ShowDeletedKey, Show, Without
<1>2. t \in Seq(ShownKey)  BY OnlyList DEF ScreenOK
<1> HIDE DEF t
<1>3. QED  BY <1>1, <1>2 DEF ScreenOK, t

\* Where the last row of a name is.
LEMMA LocalPlace ==
    ASSUME ScreenOK, NEW name
    PROVE  /\ LocalOf(name) # 0 => /\ LocalOf(name) \in DOMAIN screen.users
                                  /\ screen.users[LocalOf(name)].name = name
           /\ LocalOf(name) = 0 => \A k \in DOMAIN screen.users : screen.users[k].name # name
<1> DEFINE s == screen.users
           I == {k \in 1..Len(s) : s[k].name = name}
<1>1. Len(s) \in Nat /\ DOMAIN s = 1..Len(s)  BY DEF ScreenOK
<1>2. LocalOf(name) = IF I # {} THEN Max(I) ELSE 0  BY DEF LocalOf, SelectLastInSeq
<1>3. I \in SUBSET (1..Len(s)) /\ \A k \in I : k \in DOMAIN s /\ s[k].name = name
  BY <1>1
<1>4. I = {} => \A k \in DOMAIN s : s[k].name # name  BY <1>1
<1> HIDE DEF I
<1>5. I # {} => Max(I) \in I  BY <1>1, <1>3, Extremes
<1>6. I # {} => Max(I) # 0  BY <1>5, <1>3, <1>1
<1>7. QED  BY <1>2, <1>3, <1>4, <1>5, <1>6

\* Whoever acts after the rows have taken their ids: one step per row, in order.
LEMMA ActorSteps ==
    ASSUME NEW s, NEW N \in Nat, Len(s) = N
    PROVE  \E a : /\ DOMAIN a = 0..N /\ a[0] = actor /\ SyncedActor(s) = a[N]
                 /\ \A n \in 1..N :
                      a[n] = IF /\ LocalOf(s[n].name) # 0
                                /\ a[n - 1] = screen.users[LocalOf(s[n].name)].id
                             THEN s[n].id ELSE a[n - 1]
<1> DEFINE step(n, x) == IF LocalOf(s[n].name) # 0 /\ x = screen.users[LocalOf(s[n].name)].id
                         THEN s[n].id ELSE x
           Is(g, n) == g = [m \in 0..n |-> IF m = 0 THEN actor ELSE step(m, g[m - 1])]
           T == {n \in 0..N : ~ \E g : Is(g, n)}
<1> DEFINE after == CHOOSE g : Is(g, N)
<1>1. SyncedActor(s) = after[N]  BY DEF SyncedActor
<1> HIDE DEF step
<1>2. T = {}
  <2>1. SUFFICES ASSUME T # {} PROVE FALSE  OBVIOUS
  <2>2. T \in SUBSET Nat  OBVIOUS
  <2>3. \E x \in T : \A y \in T : ~ (<<y, x>> \in OpToRel(<, Nat))
    BY <2>1, <2>2, NatLessThanWellFounded, WFMin
  <2>4. \A y, x \in T : y < x => <<y, x>> \in OpToRel(<, Nat)  BY <2>2 DEF OpToRel
  <2>5. PICK n \in T : \A y \in T : ~ (y < n)  BY <2>3, <2>4
  <2>6. n \in 0..N /\ ~ \E g : Is(g, n)  OBVIOUS
  <2>7. n # 0
    <3> DEFINE g == [m \in 0..0 |-> actor]
    <3>1. Is(g, 0)  OBVIOUS
    <3>2. QED  BY <3>1, <2>6
  <2>8. n - 1 \in 0..N /\ n - 1 < n  BY <2>6, <2>7
  <2>9. n - 1 \notin T  BY <2>5, <2>8
  <2>10. PICK g : Is(g, n - 1)  BY <2>8, <2>9
  <2> DEFINE h == [m \in 0..n |-> IF m = n THEN step(n, g[n - 1]) ELSE g[m]]
  <2>11. \A m \in 0..n : m # n => m \in 0..(n - 1)  BY <2>6
  <2>12. \A m \in 0..n : m # 0 => m - 1 \in 0..n /\ m - 1 # n  BY <2>6
  <2>13. DOMAIN h = 0..n  OBVIOUS
  <2>14. \A m \in 0..(n - 1) : g[m] = IF m = 0 THEN actor ELSE step(m, g[m - 1])
    BY <2>10
  <2>15. \A m \in 0..n : m # 0 => h[m - 1] = g[m - 1]  BY <2>12
  <2>16. \A m \in 0..n : h[m] = IF m = 0 THEN actor ELSE step(m, h[m - 1])
    BY <2>7, <2>11, <2>14, <2>15
  <2>17. Is(h, n)  BY <2>16
  <2>18. QED  BY <2>17, <2>6
<1>3. Is(after, N)  BY <1>2
<1> HIDE DEF after
<1>4. DOMAIN after = 0..N  BY <1>3
<1>5. \A n \in 0..N : after[n] = IF n = 0 THEN actor ELSE step(n, after[n - 1])
  BY <1>3
<1>6. after[0] = actor  BY <1>5
<1>7. \A n \in 1..N : after[n] = step(n, after[n - 1])  BY <1>5
<1>8. QED  BY <1>1, <1>4, <1>6, <1>7 DEF step

\* It is who acted before, or one of the rows.
LEMMA ActorSynced ==
    ASSUME NEW s, Len(s) \in Nat
    PROVE  SyncedActor(s) = actor \/ \E m \in 1..Len(s) : SyncedActor(s) = s[m].id
<1> DEFINE N == Len(s)
           ids == {actor} \cup {s[m].id : m \in 1..N}
<1>1. N \in Nat  OBVIOUS
<1> HIDE DEF N
<1>a. N = Len(s)  BY DEF N
<1>2. PICK a : /\ DOMAIN a = 0..N /\ a[0] = actor /\ SyncedActor(s) = a[N]
               /\ \A n \in 1..N :
                      a[n] = IF /\ LocalOf(s[n].name) # 0
                                /\ a[n - 1] = screen.users[LocalOf(s[n].name)].id
                             THEN s[n].id ELSE a[n - 1]
  BY <1>1, <1>a, ActorSteps
<1>3. \A n \in 1..N : a[n] = s[n].id \/ a[n] = a[n - 1]  BY <1>2
<1> DEFINE T == {n \in 0..N : a[n] \notin ids}
<1>4. T = {}
  <2>1. SUFFICES ASSUME T # {} PROVE FALSE  OBVIOUS
  <2>2. T \in SUBSET Nat  OBVIOUS
  <2>3. \E x \in T : \A y \in T : ~ (<<y, x>> \in OpToRel(<, Nat))
    BY <2>1, <2>2, NatLessThanWellFounded, WFMin
  <2>4. \A y, x \in T : y < x => <<y, x>> \in OpToRel(<, Nat)  BY <2>2 DEF OpToRel
  <2>5. PICK n \in T : \A y \in T : ~ (y < n)  BY <2>3, <2>4
  <2>6. n \in 0..N /\ a[n] \notin ids  OBVIOUS
  <2>7. n # 0  BY <2>6, <1>2
  <2>8. n \in 1..N /\ n - 1 \in 0..N /\ n - 1 < n  BY <2>6, <2>7, <1>1
  <2>9. a[n - 1] \in ids  BY <2>5, <2>8
  <2>10. QED  BY <2>6, <2>8, <2>9, <1>3
<1>5. N \in 0..N  BY <1>1
<1>6. a[N] \in ids  BY <1>4, <1>5
<1>7. QED  BY <1>2, <1>6, <1>a

-----------------------------------------------------------------------------
(* Loads *)

\* What a list should show of a row of the server (Agrees).
Should(l, r) ==
    CASE l = "users" -> <<r.name, ~ r.active>>
      [] l = "roles" -> <<r.name, r.builtIn>>
      [] l = "keys"  -> <<IF r.by = None THEN Demo ELSE r.by>>
Holds(l, rows, i, v) == \E r \in rows : r.id = i /\ Should(l, r) = v
ShowsRows(l, s, rows, i) ==
    Lone(s, i) /\ \A v : Shows(l, s, i, v) <=> Holds(l, rows, i, v)

\* Rows of the server, each at one place, joined with others of other ids, are
\* shown as they are.
LEMMA MergedView ==
    ASSUME NEW S, NEW R, NEW l, NEW i, NEW rows \in SUBSET R, IsFiniteSet(rows),
           \A r, q \in rows : r.id = q.id => r = q,
           NEW kept \in Seq(S), \A k \in DOMAIN kept : kept[k].id # i,
           NEW m \in Seq(S), DOMAIN m = DOMAIN SetToSeq(rows),
           \A k \in DOMAIN m : /\ m[k].id = SetToSeq(rows)[k].id
                              /\ Seen(l, m[k]) = Should(l, SetToSeq(rows)[k])
    PROVE  ShowsRows(l, kept \o m, rows, i) /\ ShowsRows(l, m \o kept, rows, i)
<1> DEFINE s == SetToSeq(rows)
<1>1. /\ \A k \in DOMAIN s : s[k] \in rows
      /\ \A k, h \in DOMAIN s : s[k] = s[h] => k = h
      /\ \A r \in rows : \E k \in DOMAIN s : s[k] = r
  BY SetToSeqList
<1>a. /\ DOMAIN m = DOMAIN s
      /\ \A k \in DOMAIN m : m[k].id = s[k].id /\ Seen(l, m[k]) = Should(l, s[k])
  OBVIOUS
<1> HIDE DEF s
<1>2. Lone(m, i)
  <2>1. SUFFICES ASSUME NEW j \in DOMAIN m, NEW k \in DOMAIN m, m[j].id = i, m[k].id = i
                 PROVE  j = k
    BY DEF Lone
  <2>2. s[j] \in rows /\ s[k] \in rows /\ s[j].id = s[k].id  BY <2>1, <1>1, <1>a
  <2>3. s[j] = s[k]  BY <2>2
  <2>4. QED  BY <2>3, <1>1, <1>a
<1>3. \A v : Shows(l, m, i, v) <=> Holds(l, rows, i, v)
  BY <1>1, <1>a DEF Shows, Holds
<1>4. SameView(l, m, kept \o m, i) /\ SameView(l, m, m \o kept, i)
  BY ViewOfJoined
<1>5. QED  BY <1>2, <1>3, <1>4 DEF SameView, ShowsRows

\* A load of the users: every user of the server is shown once, as it is, and else
\* only rows without such an id.
LEMMA SyncedUsers ==
    ASSUME ScreenOK, ActorOK, NEW rows \in SUBSET UserRow, IsFiniteSet(rows),
           \A r, q \in rows : r.id = q.id => r = q,
           SyncUsers(rows)
    PROVE  /\ ScreenOK' /\ ActorOK'
           /\ screen'.roles = screen.roles /\ screen'.keys = screen.keys
           /\ actor' = actor \/ \E r \in rows : actor' = r.id
           /\ \A i \in RealIds : ShowsRows("users", screen'.users, rows, i)
           /\ \A k \in DOMAIN screen'.users :
                \/ \E r \in rows : screen'.users[k].id = r.id
                \/ \E m \in DOMAIN screen.users :
                     screen.users[m] = screen'.users[k] /\ screen.users[m].id \notin RealIds
<1> DEFINE s == SetToSeq(rows)
           m == [k \in DOMAIN s |-> SyncedUser(s[k])]
           at == {k \in DOMAIN screen.users :
                    screen.users[k].id \in ({Demo} \cup {Temp(f) : f \in Calls}) \ Matched(rows)}
           kept == Only(screen.users, at)
<1>1. screen.users \in Seq(ShownUser) /\ Len(screen.users) \in Nat
      /\ DOMAIN screen.users = 1..Len(screen.users)
      /\ \A k \in DOMAIN screen.users : screen.users[k] \in ShownUser
  BY DEF ScreenOK
<1>2. /\ s \in Seq(UserRow) /\ Len(s) \in Nat /\ DOMAIN s = 1..Len(s)
      /\ \A k \in DOMAIN s : s[k] \in rows /\ s[k] \in UserRow
  <2>1. s \in Seq(UserRow) /\ \A k \in DOMAIN s : s[k] \in rows  BY SetToSeqList
  <2> HIDE DEF s
  <2>2. QED  BY <2>1
<1>3. /\ screen' = [screen EXCEPT !.users = kept \o m]
      /\ actor' = SyncedActor(s)
  BY DEF SyncUsers, KeptUsers
<1>4. actor' = actor \/ \E r \in rows : actor' = r.id
  BY <1>2, <1>3, ActorSynced
<1> HIDE DEF s
<1>5. ASSUME NEW su \in UserRow
      PROVE  /\ SyncedUser(su) \in ShownUser /\ SyncedUser(su).id = su.id
             /\ Seen("users", SyncedUser(su)) = Should("users", su)
  <2>1. su.id \in RealIds /\ su.name \in People /\ su.email \in People /\ su.active \in BOOLEAN
        /\ su.id \in Ids /\ (~ su.active) \in BOOLEAN
    BY IdFacts DEF UserRow
  <2>2. CASE LocalOf(su.name) # 0
    <3>1. /\ LocalOf(su.name) \in DOMAIN screen.users
          /\ screen.users[LocalOf(su.name)].name = su.name
      BY <2>2, LocalPlace
    <3>2. PICK u \in ShownUser : u = screen.users[LocalOf(su.name)] /\ u.name = su.name
      BY <3>1, <1>1
    <3>3. SyncedUser(su) = [u EXCEPT !.id = su.id, !.email = su.email, !.disabled = ~su.active]
      BY <2>2, <3>2 DEF SyncedUser
    <3>4. QED  BY <2>1, <3>2, <3>3 DEF ShownUser, Seen, Should
  <2>3. CASE LocalOf(su.name) = 0
    <3>1. SyncedUser(su) =
            [id |-> su.id, name |-> su.name, email |-> su.email,
             role |-> GlobalToRole(su.global), disabled |-> ~su.active]
      BY <2>3 DEF SyncedUser
    <3>2. GlobalToRole(su.global) \in Granular  BY DEF GlobalToRole, Granular
    <3>3. QED  BY <2>1, <3>1, <3>2 DEF ShownUser, Seen, Should
  <2>4. QED  BY <2>2, <2>3
<1>6. /\ DOMAIN m = DOMAIN s
      /\ \A k \in DOMAIN m : m[k] \in ShownUser /\ m[k].id = s[k].id
                            /\ Seen("users", m[k]) = Should("users", s[k])
  BY <1>2, <1>5
<1>7. m \in [1..Len(s) -> ShownUser]  BY <1>2, <1>6
<1> HIDE DEF m
<1>8. m \in Seq(ShownUser)  BY <1>2, <1>7
<1>9. at \in SUBSET DOMAIN screen.users
      /\ \A k \in at : screen.users[k].id \notin RealIds
  BY IdFacts
<1> HIDE DEF at
<1>10. /\ kept \in Seq(ShownUser)
       /\ \A k \in DOMAIN kept : \E h \in at : kept[k] = screen.users[h]
  BY <1>1, <1>9, OnlyList
<1> HIDE DEF kept
<1>11. \A k \in DOMAIN kept : kept[k].id \notin RealIds  BY <1>9, <1>10
<1>12. kept \o m \in Seq(ShownUser)  BY <1>8, <1>10
<1>13. /\ screen'.users = kept \o m /\ screen'.roles = screen.roles
       /\ screen'.keys = screen.keys /\ ScreenOK'
  BY <1>3, <1>12 DEF ScreenOK
<1>14. ActorOK'  BY <1>4, IdFacts DEF ActorOK, UserRow
<1>15. ASSUME NEW i \in RealIds
       PROVE  ShowsRows("users", kept \o m, rows, i)
  BY <1>6, <1>8, <1>10, <1>11, MergedView DEF s
<1>16. ASSUME NEW k \in DOMAIN (kept \o m)
       PROVE  \/ \E r \in rows : (kept \o m)[k].id = r.id
              \/ \E h \in DOMAIN screen.users :
                   screen.users[h] = (kept \o m)[k] /\ screen.users[h].id \notin RealIds
  <2>1. (\E h \in DOMAIN kept : (kept \o m)[k] = kept[h]) \/
        (\E h \in DOMAIN m : (kept \o m)[k] = m[h])
    BY <1>8, <1>10
  <2>2. QED  BY <2>1, <1>2, <1>6, <1>9, <1>10
<1>17. QED  BY <1>4, <1>13, <1>14, <1>15, <1>16

\* A load of the roles.
LEMMA SyncedRoles ==
    ASSUME ScreenOK, NEW rows \in SUBSET RoleRow, IsFiniteSet(rows),
           \A r, q \in rows : r.id = q.id => r = q,
           SyncRoles(rows)
    PROVE  /\ ScreenOK' /\ actor' = actor
           /\ screen'.users = screen.users /\ screen'.keys = screen.keys
           /\ \A i \in RealIds : ShowsRows("roles", screen'.roles, rows, i)
           /\ \A k \in DOMAIN screen'.roles :
                \/ \E r \in rows : screen'.roles[k].id = r.id
                \/ \E m \in DOMAIN screen.roles : screen.roles[m].id = screen'.roles[k].id
<1> DEFINE s == SetToSeq(rows)
           m == [k \in DOMAIN s |-> RoleShown(s[k])]
           at == {k \in DOMAIN screen.roles :
                    /\ screen.roles[k].id \notin RealIds
                    /\ \A sr \in rows : sr.name # screen.roles[k].name}
           kept == Only(screen.roles, at)
           joined == m \o kept
           t == SyncRoleUserCounts(screen.users, joined)
<1>1. screen.users \in Seq(ShownUser) /\ screen.roles \in Seq(ShownRole)
  BY DEF ScreenOK
<1>2. /\ s \in Seq(RoleRow) /\ Len(s) \in Nat /\ DOMAIN s = 1..Len(s)
      /\ \A k \in DOMAIN s : s[k] \in rows /\ s[k] \in RoleRow
  <2>1. s \in Seq(RoleRow) /\ \A k \in DOMAIN s : s[k] \in rows  BY SetToSeqList
  <2> HIDE DEF s
  <2>2. QED  BY <2>1
<1>3. screen' = [screen EXCEPT !.roles = t] /\ actor' = actor
  BY DEF SyncRoles
<1> HIDE DEF s
<1>5. ASSUME NEW r \in RoleRow
      PROVE  /\ RoleShown(r) \in ShownRole /\ RoleShown(r).id = r.id
             /\ Seen("roles", RoleShown(r)) = Should("roles", r)
  BY IdFacts DEF RoleRow, RoleShown, ShownRole, Seen, Should
<1>6. /\ DOMAIN m = DOMAIN s
      /\ \A k \in DOMAIN m : m[k] \in ShownRole /\ m[k].id = s[k].id
                            /\ Seen("roles", m[k]) = Should("roles", s[k])
  BY <1>2, <1>5
<1>7. m \in [1..Len(s) -> ShownRole]  BY <1>2, <1>6
<1> HIDE DEF m
<1>8. m \in Seq(ShownRole)  BY <1>2, <1>7
<1>9. at \in SUBSET DOMAIN screen.roles
      /\ \A k \in at : screen.roles[k].id \notin RealIds
  OBVIOUS
<1> HIDE DEF at
<1>10. /\ kept \in Seq(ShownRole)
       /\ \A k \in DOMAIN kept : \E h \in at : kept[k] = screen.roles[h]
  BY <1>1, <1>9, OnlyList
<1> HIDE DEF kept
<1>11. \A k \in DOMAIN kept : kept[k].id \notin RealIds  BY <1>9, <1>10
<1>12. joined \in Seq(ShownRole)  BY <1>8, <1>10
<1>a. \A k \in DOMAIN joined : \/ \E h \in DOMAIN kept : joined[k] = kept[h]
                               \/ \E h \in DOMAIN m : joined[k] = m[h]
  BY <1>8, <1>10
<1>15. ASSUME NEW i \in RealIds
       PROVE  ShowsRows("roles", joined, rows, i)
  BY <1>6, <1>8, <1>10, <1>11, MergedView DEF s
<1> HIDE DEF joined
<1>13. /\ t \in Seq(ShownRole) /\ DOMAIN t = DOMAIN joined
       /\ \A k \in DOMAIN joined : /\ t[k].id = joined[k].id /\ t[k].name = joined[k].name
                                  /\ t[k].builtIn = joined[k].builtIn
  BY <1>1, <1>12, SyncedCounts
<1> HIDE DEF t
<1>14. /\ screen'.roles = t /\ screen'.users = screen.users
       /\ screen'.keys = screen.keys /\ ScreenOK'
  BY <1>3, <1>13 DEF ScreenOK
<1>16. ASSUME NEW i \in RealIds
       PROVE  ShowsRows("roles", t, rows, i)
  <2>1. \A k \in DOMAIN joined : Seen("roles", t[k]) = Seen("roles", joined[k])
    BY <1>13 DEF Seen
  <2>2. SameView("roles", joined, t, i)  BY <2>1, <1>13, ViewInPlace
  <2>3. QED  BY <2>2, <1>15 DEF SameView, ShowsRows
<1>17. ASSUME NEW k \in DOMAIN t
       PROVE  \/ \E r \in rows : t[k].id = r.id
              \/ \E h \in DOMAIN screen.roles : screen.roles[h].id = t[k].id
  <2>1. t[k].id = joined[k].id /\ k \in DOMAIN joined  BY <1>13
  <2>2. QED  BY <2>1, <1>a, <1>2, <1>6, <1>9, <1>10
<1>18. QED  BY <1>3, <1>14, <1>16, <1>17

\* A load of the keys.
LEMMA SyncedKeys ==
    ASSUME ScreenOK, NEW rows \in SUBSET KeyRow, IsFiniteSet(rows),
           \A r, q \in rows : r.id = q.id => r = q,
           SyncKeys(rows)
    PROVE  /\ ScreenOK' /\ actor' = actor
           /\ screen'.users = screen.users /\ screen'.roles = screen.roles
           /\ \A i \in RealIds : ShowsRows("keys", screen'.keys, rows, i)
           /\ \A k \in DOMAIN screen'.keys :
                \/ \E r \in rows : screen'.keys[k].id = r.id
                \/ \E m \in DOMAIN screen.keys : screen.keys[m].id = screen'.keys[k].id
<1> DEFINE s == SetToSeq(rows)
           m == [k \in DOMAIN s |-> KeyShown(s[k])]
           at == {k \in DOMAIN screen.keys :
                    screen.keys[k].id \notin RealIds \cup IdsOf(MadeKeys)}
           kept == Only(screen.keys, at)
           t == m \o kept
<1>1. screen.keys \in Seq(ShownKey)  BY DEF ScreenOK
<1>2. /\ s \in Seq(KeyRow) /\ Len(s) \in Nat /\ DOMAIN s = 1..Len(s)
      /\ \A k \in DOMAIN s : s[k] \in rows /\ s[k] \in KeyRow
  <2>1. s \in Seq(KeyRow) /\ \A k \in DOMAIN s : s[k] \in rows  BY SetToSeqList
  <2> HIDE DEF s
  <2>2. QED  BY <2>1
<1>3. screen' = [screen EXCEPT !["keys"] = t] /\ actor' = actor
  BY DEF SyncKeys, Show
<1> HIDE DEF s
<1>5. ASSUME NEW r \in KeyRow
      PROVE  /\ KeyShown(r) \in ShownKey /\ KeyShown(r).id = r.id
             /\ Seen("keys", KeyShown(r)) = Should("keys", r)
  BY IdFacts DEF KeyRow, KeyShown, ShownKey, Seen, Should
<1>6. /\ DOMAIN m = DOMAIN s
      /\ \A k \in DOMAIN m : m[k] \in ShownKey /\ m[k].id = s[k].id
                            /\ Seen("keys", m[k]) = Should("keys", s[k])
  BY <1>2, <1>5
<1>7. m \in [1..Len(s) -> ShownKey]  BY <1>2, <1>6
<1> HIDE DEF m
<1>8. m \in Seq(ShownKey)  BY <1>2, <1>7
<1>9. at \in SUBSET DOMAIN screen.keys
      /\ \A k \in at : screen.keys[k].id \notin RealIds
  OBVIOUS
<1> HIDE DEF at
<1>10. /\ kept \in Seq(ShownKey)
       /\ \A k \in DOMAIN kept : \E h \in at : kept[k] = screen.keys[h]
  BY <1>1, <1>9, OnlyList
<1> HIDE DEF kept
<1>11. \A k \in DOMAIN kept : kept[k].id \notin RealIds  BY <1>9, <1>10
<1>12. t \in Seq(ShownKey)  BY <1>8, <1>10
<1>13. \A k \in DOMAIN t : \/ \E h \in DOMAIN kept : t[k] = kept[h]
                           \/ \E h \in DOMAIN m : t[k] = m[h]
  BY <1>8, <1>10
<1>14. ASSUME NEW i \in RealIds
       PROVE  ShowsRows("keys", t, rows, i)
  BY <1>6, <1>8, <1>10, <1>11, MergedView DEF s
<1> HIDE DEF t
<1>15. /\ screen'.keys = t /\ screen'.users = screen.users
       /\ screen'.roles = screen.roles /\ ScreenOK'
  BY <1>3, <1>12 DEF ScreenOK
<1>16. ASSUME NEW k \in DOMAIN t
       PROVE  \/ \E r \in rows : t[k].id = r.id
              \/ \E h \in DOMAIN screen.keys : screen.keys[h].id = t[k].id
  BY <1>13, <1>2, <1>6, <1>9, <1>10
<1>17. QED  BY <1>3, <1>15, <1>14, <1>16

-----------------------------------------------------------------------------
(* Ids *)

OnScreen(x) == \E l \in Lists : \E k \in DOMAIN screen[l] : screen[l][k].id = x
InDb(x) == \E l \in Lists : \E r \in db[l] : r.id = x
InLoad(x) == \E l \in Lists : \E r \in load[l].rows : r.id = x

\* Until a command is written its id is nowhere.
EarlyPcs == {"idle", "typing", "sent", "checked"}
Unborn ==
    \A f \in Calls : call[f].pc \in EarlyPcs =>
        /\ ~ InDb(f) /\ ~ OnScreen(f) /\ ~ InLoad(f)
        /\ \A g \in Calls \ {f} : call[g].id # f
TempFree ==
    \A f \in Calls : call[f].pc # "ended" =>
        \A k \in DOMAIN screen.users : screen.users[k].id # Temp(f)

\* Wherever a user has an id of the server, the server has the user.
KnownUser(x) == x \in RealIds => Exists("users", x)
KnownCall(f, c) ==
    /\ c.pc \in Going /\ c.op = "createApiKey" => c.row.by = None \/ Exists("users", c.row.by)
    /\ c.pc = "done" /\ c.op = "inviteUser" => Exists("users", f)
Known ==
    /\ KnownUser(actor)
    /\ \A k \in DOMAIN screen.users : KnownUser(screen.users[k].id)
    /\ \A r \in load["users"].rows : KnownUser(r.id)
    /\ \A f \in Calls : KnownCall(f, call[f])

Inv == /\ CallsOK /\ DbOK /\ ScreenOK /\ ActorOK /\ LoadOK /\ UnsureOK /\ AuditOK
       /\ Unborn /\ TempFree /\ Known

\* A step of the browser: an id comes to the screen only with the end of its command.
LEMMA BrowserStep ==
    ASSUME Inv, NEW f \in Calls, NEW c \in CallRow,
           UNCHANGED <<db, audit, backend, load>>, ScreenOK', ActorOK', UnsureOK',
           call' = [call EXCEPT ![f] = c],
           CallFine(f, c), KnownCall(f, c),
           call[f].pc # "ended", c.pc \in EarlyPcs => call[f].pc \in EarlyPcs,
           c.id \in {None, f} \/ OnScreen(c.id) \/ c.id = call[f].id,
           \A l \in Lists : \A k \in DOMAIN screen'[l] :
              \/ c.pc = "ended" /\ screen'[l][k].id \in {f, Temp(f)}
              \/ \E m \in DOMAIN screen[l] : screen[l][m].id = screen'[l][k].id,
           \A k \in DOMAIN screen'.users : KnownUser(screen'.users[k].id),
           KnownUser(actor')
    PROVE  Inv'
<1>1. /\ call'[f] = c /\ \A g \in Calls \ {f} : call'[g] = call[g]
      /\ call' \in [Calls -> CallRow]
  BY DEF Inv, CallsOK
<1>2. CallsOK'  BY <1>1 DEF Inv, CallsOK
<1>3. DbOK' /\ LoadOK' /\ AuditOK'
  BY DEF Inv, DbOK, LoadOK, AuditOK
<1>4. Unborn'
  <2>1. SUFFICES ASSUME NEW g \in Calls, call'[g].pc \in EarlyPcs
                 PROVE  /\ ~ InDb(g)' /\ ~ OnScreen(g)' /\ ~ InLoad(g)'
                        /\ \A h \in Calls \ {g} : call'[h].id # g
    BY DEF Unborn
  <2>2. call[g].pc \in EarlyPcs  BY <2>1, <1>1
  <2>3. /\ ~ InDb(g) /\ ~ OnScreen(g) /\ ~ InLoad(g)
        /\ \A h \in Calls \ {g} : call[h].id # g
    BY <2>2 DEF Inv, Unborn
  <2>4. ~ InDb(g)' /\ ~ InLoad(g)'  BY <2>3 DEF InDb, InLoad
  <2>5. ~ OnScreen(g)'
    <3>1. SUFFICES ASSUME NEW l \in Lists, NEW k \in DOMAIN screen'[l], screen'[l][k].id = g
                   PROVE  FALSE
      BY DEF OnScreen
    <3>2. ~ \E m \in DOMAIN screen[l] : screen[l][m].id = g  BY <2>3 DEF OnScreen
    <3>3. g # Temp(f)  BY IdFacts
    <3>4. c.pc = "ended" /\ g = f  BY <3>1, <3>2, <3>3
    <3>5. QED  BY <3>4, <2>1, <1>1 DEF EarlyPcs
  <2>6. ASSUME NEW h \in Calls \ {g}
        PROVE  call'[h].id # g
    <3>1. CASE h # f  BY <3>1, <1>1, <2>3
    <3>2. CASE h = f
      <4>1. g \in RealIds /\ None \notin RealIds  BY IdFacts, IdsAssumption
      <4>2. QED  BY <4>1, <3>2, <1>1, <2>3, <2>6
    <3>3. QED  BY <3>1, <3>2
  <2>7. QED  BY <2>4, <2>5, <2>6
<1>5. TempFree'
  <2>1. SUFFICES ASSUME NEW g \in Calls, call'[g].pc # "ended",
                        NEW k \in DOMAIN screen'.users, screen'.users[k].id = Temp(g)
                 PROVE  FALSE
    BY DEF TempFree
  <2>2. call[g].pc # "ended"  BY <2>1, <1>1
  <2>3. \A m \in DOMAIN screen.users : screen.users[m].id # Temp(g)
    BY <2>2 DEF Inv, TempFree
  <2>4. c.pc = "ended" /\ Temp(g) \in {f, Temp(f)}  BY <2>1, <2>3 DEF Lists
  <2>5. g = f  BY <2>4, IdFacts
  <2>6. QED  BY <2>4, <2>5, <2>1, <1>1
<1>6. Known'
  <2>1. \A x : KnownUser(x)' <=> KnownUser(x)  BY DEF KnownUser, Exists
  <2>2. \A g \in Calls : KnownCall(g, call[g])  BY DEF Inv, Known
  <2>3. \A g \in Calls : KnownCall(g, call'[g])  BY <2>2, <1>1
  <2>4. \A g \in Calls : KnownCall(g, call[g])'  BY <2>3 DEF KnownCall, Exists
  <2>5. \A r \in load["users"].rows : KnownUser(r.id)  BY DEF Inv, Known
  <2>6. \A r \in load'["users"].rows : KnownUser(r.id)'
    BY <2>5 DEF KnownUser, Exists
  <2>7. KnownUser(actor)' /\ \A k \in DOMAIN screen'.users : KnownUser(screen.users[k].id)'
    BY DEF KnownUser, Exists
  <2>8. QED  BY <2>4, <2>6, <2>7 DEF Known
<1>7. QED  BY <1>2, <1>3, <1>4, <1>5, <1>6 DEF Inv

\* A step of the server: an id comes to its tables only with a write of its command.
LEMMA ServerStep ==
    ASSUME Inv, NEW f \in Calls, NEW c \in CallRow,
           UNCHANGED <<screen, actor, backend, load>>,
           DbOK', AuditOK', UnsureOK',
           call' = [call EXCEPT ![f] = c],
           CallFine(f, c),
           call[f].pc # "ended", c.pc \in EarlyPcs => call[f].pc \in EarlyPcs,
           c.id \in {None, call[f].id},
           \A l \in Lists : \A r \in db'[l] :
              \/ c.pc \notin EarlyPcs /\ r.id = f
              \/ \E q \in db[l] : q.id = r.id,
           \A u \in db.users : \E v \in db'.users : v.id = u.id,
           KnownCall(f, c)'
    PROVE  Inv'
<1>1. /\ call'[f] = c /\ \A g \in Calls \ {f} : call'[g] = call[g]
      /\ call' \in [Calls -> CallRow]
  BY DEF Inv, CallsOK
<1>2. CallsOK'  BY <1>1 DEF Inv, CallsOK
<1>3. ScreenOK' /\ ActorOK' /\ LoadOK'
  BY DEF Inv, ScreenOK, ActorOK, LoadOK
<1>4. Unborn'
  <2>1. SUFFICES ASSUME NEW g \in Calls, call'[g].pc \in EarlyPcs
                 PROVE  /\ ~ InDb(g)' /\ ~ OnScreen(g)' /\ ~ InLoad(g)'
                        /\ \A h \in Calls \ {g} : call'[h].id # g
    BY DEF Unborn
  <2>2. call[g].pc \in EarlyPcs  BY <2>1, <1>1
  <2>3. /\ ~ InDb(g) /\ ~ OnScreen(g) /\ ~ InLoad(g)
        /\ \A h \in Calls \ {g} : call[h].id # g
    BY <2>2 DEF Inv, Unborn
  <2>4. ~ OnScreen(g)' /\ ~ InLoad(g)'  BY <2>3 DEF OnScreen, InLoad
  <2>5. ~ InDb(g)'
    <3>1. SUFFICES ASSUME NEW l \in Lists, NEW r \in db'[l], r.id = g
                   PROVE  FALSE
      BY DEF InDb
    <3>2. ~ \E q \in db[l] : q.id = g  BY <2>3 DEF InDb
    <3>3. c.pc \notin EarlyPcs /\ g = f  BY <3>1, <3>2
    <3>4. QED  BY <3>3, <2>1, <1>1
  <2>6. ASSUME NEW h \in Calls \ {g}
        PROVE  call'[h].id # g
    <3>1. g # None  BY IdFacts, IdsAssumption
    <3>2. CASE h # f  BY <3>2, <1>1, <2>3
    <3>3. CASE h = f  BY <3>1, <3>3, <1>1, <2>3, <2>6
    <3>4. QED  BY <3>2, <3>3
  <2>7. QED  BY <2>4, <2>5, <2>6
<1>5. TempFree'
  <2>1. SUFFICES ASSUME NEW g \in Calls, call'[g].pc # "ended"
                 PROVE  \A k \in DOMAIN screen.users : screen.users[k].id # Temp(g)
    BY DEF TempFree
  <2>2. call[g].pc # "ended"  BY <2>1, <1>1
  <2>3. QED  BY <2>2 DEF Inv, TempFree
<1>6. Known'
  <2>1. \A x : Exists("users", x) => Exists("users", x)'  BY DEF Exists
  <2>2. \A x : KnownUser(x) => (x \in RealIds => Exists("users", x)')
    BY <2>1 DEF KnownUser
  <2>3. \A g \in Calls \ {f} : KnownCall(g, call[g])  BY DEF Inv, Known
  <2>4. \A g \in Calls \ {f} : KnownCall(g, call[g])'
    BY <2>3, <2>1, <1>1 DEF KnownCall
  <2>5. KnownCall(f, call[f])'  BY <1>1 DEF KnownCall
  <2>6. \A g \in Calls : KnownCall(g, call[g])'  BY <2>4, <2>5
  <2>7. /\ KnownUser(actor) /\ \A k \in DOMAIN screen.users : KnownUser(screen.users[k].id)
        /\ \A r \in load["users"].rows : KnownUser(r.id)
    BY DEF Inv, Known
  <2>8. KnownUser(actor)'  BY <2>2, <2>7 DEF KnownUser
  <2>9. \A k \in DOMAIN screen'.users : KnownUser(screen.users[k].id)'
    BY <2>2, <2>7 DEF KnownUser
  <2>10. \A r \in load'["users"].rows : KnownUser(r.id)'
    BY <2>2, <2>7 DEF KnownUser
  <2>11. QED  BY <2>6, <2>8, <2>9, <2>10 DEF Known
<1>7. QED  BY <1>2, <1>3, <1>4, <1>5, <1>6 DEF Inv

\* Being asked for, read or missed, a list shows nothing yet.
LEMMA LoadStep ==
    ASSUME Inv, UNCHANGED <<db, audit, screen, actor, call>>, LoadOK', UnsureOK',
           \A l \in Lists : \A r \in load'[l].rows :
              r \in load[l].rows \/ r \in db[l]
    PROVE  Inv'
<1>1. CallsOK' /\ DbOK' /\ ScreenOK' /\ ActorOK' /\ AuditOK' /\ TempFree'
  BY DEF Inv, CallsOK, DbOK, ScreenOK, ActorOK, AuditOK, TempFree
<1>2. Unborn'
  <2>1. SUFFICES ASSUME NEW g \in Calls, call[g].pc \in EarlyPcs
                 PROVE  /\ ~ InDb(g)' /\ ~ OnScreen(g)' /\ ~ InLoad(g)'
                        /\ \A h \in Calls \ {g} : call[h].id # g
    BY DEF Unborn
  <2>2. /\ ~ InDb(g) /\ ~ OnScreen(g) /\ ~ InLoad(g)
        /\ \A h \in Calls \ {g} : call[h].id # g
    BY <2>1 DEF Inv, Unborn
  <2>3. ~ InDb(g)' /\ ~ OnScreen(g)'  BY <2>2 DEF InDb, OnScreen
  <2>4. ~ InLoad(g)'  BY <2>2 DEF InLoad, InDb
  <2>5. QED  BY <2>2, <2>3, <2>4
<1>3. Known'
  <2>1. Known  BY DEF Inv
  <2>2. \A x : KnownUser(x)' <=> KnownUser(x)  BY DEF KnownUser, Exists
  <2>3. \A r \in db["users"] : Exists("users", r.id)  BY DEF Exists
  <2>4. \A r \in load'["users"].rows : KnownUser(r.id)
    BY <2>1, <2>3 DEF Known, KnownUser, Lists
  <2>5. \A r \in load'["users"].rows : KnownUser(r.id)'
    BY <2>4 DEF KnownUser, Exists
  <2>6. QED  BY <2>1, <2>5 DEF Known, KnownUser, KnownCall, Exists
<1>4. QED  BY <1>1, <1>2, <1>3 DEF Inv

-----------------------------------------------------------------------------
(* What the person at the browser does *)

\* Commands as they begin and end are well formed.
LEMMA CallFacts ==
    /\ Ended \in CallRow /\ Ended.pc = "ended" /\ Ended.id = None
    /\ Idle \in CallRow /\ Idle.pc = "idle" /\ Idle.id = None
    /\ NoRow \in Rows /\ Typed \subseteq Rows
    /\ \A f \in Calls : CallFine(f, Ended) /\ KnownCall(f, Ended)
    /\ \A f \in Calls : CallFine(f, Idle) /\ KnownCall(f, Idle)
    /\ \A op \in AllOps : \A i \in Ids : \A row \in Rows : \A pc \in Pcs :
          /\ Call(op, i, row, pc) \in CallRow
          /\ Call(op, i, row, pc).op = op /\ Call(op, i, row, pc).id = i
          /\ Call(op, i, row, pc).row = row /\ Call(op, i, row, pc).pc = pc
<1>1. NoRow \in Rows  BY DEF NoRow, Rows
<1>2. Typed \subseteq Rows  BY TypedAssumption DEF Rows
<1>3. \A f \in Calls : CallFine(f, Ended) /\ KnownCall(f, Ended)
  BY DEF Ended, Call, CallFine, KnownCall, Going
<1>4. \A f \in Calls : CallFine(f, Idle) /\ KnownCall(f, Idle)
  BY DEF Idle, Call, CallFine, KnownCall, Going
<1>5. /\ Ended \in CallRow /\ Ended.pc = "ended" /\ Ended.id = None
      /\ Idle \in CallRow /\ Idle.pc = "idle" /\ Idle.id = None
  BY <1>1 DEF Ended, Idle, Call, CallRow, Pcs
<1>6. \A op \in AllOps : \A i \in Ids : \A row \in Rows : \A pc \in Pcs :
          /\ Call(op, i, row, pc) \in CallRow
          /\ Call(op, i, row, pc).op = op /\ Call(op, i, row, pc).id = i
          /\ Call(op, i, row, pc).row = row /\ Call(op, i, row, pc).pc = pc
  BY DEF Call, CallRow
<1>7. QED  BY <1>1, <1>2, <1>3, <1>4, <1>5, <1>6

\* Rows keep their ids.
KeepsIds ==
    \A l \in Lists : \A k \in DOMAIN screen'[l] :
        \E m \in DOMAIN screen[l] : screen[l][m].id = screen'[l][k].id

\* A change of a row at its place keeps the ids.
LEMMA InPlaceKeepsIds ==
    ASSUME Inv, NEW i, InPlace(i)
    PROVE  KeepsIds
BY DEF InPlace, Counted, KeepsIds, Lists

\* So the users that are shown stay known.
LEMMA KnownIds ==
    ASSUME Inv, KeepsIds
    PROVE  \A k \in DOMAIN screen'.users : KnownUser(screen'.users[k].id)
BY DEF Inv, Known, KeepsIds, Lists

\* Nothing happens to the rows.
LEMMA QuietStep ==
    ASSUME Inv, NEW f \in Calls, NEW c \in CallRow,
           UNCHANGED <<db, audit, backend, load, screen>>, ActorOK', KnownUser(actor'), UnsureOK',
           call' = [call EXCEPT ![f] = c],
           CallFine(f, c), KnownCall(f, c),
           call[f].pc # "ended", c.pc \in EarlyPcs => call[f].pc \in EarlyPcs,
           c.id \in {None, f} \/ OnScreen(c.id) \/ c.id = call[f].id
    PROVE  Inv'
<1>1. ScreenOK' /\ KeepsIds  BY DEF Inv, ScreenOK, KeepsIds
<1>2. \A k \in DOMAIN screen'.users : KnownUser(screen'.users[k].id)
  BY <1>1, KnownIds
<1>3. QED  BY <1>1, <1>2, BrowserStep DEF KeepsIds

\* A command done here ends.
LEMMA HereStep ==
    ASSUME Inv, NEW f \in Calls, call[f].pc # "ended", Done(f), UNCHANGED Outside,
           ScreenOK', ActorOK', KnownUser(actor'),
           \A l \in Lists : \A k \in DOMAIN screen'[l] :
              \/ screen'[l][k].id \in {f, Temp(f)}
              \/ \E m \in DOMAIN screen[l] : screen[l][m].id = screen'[l][k].id,
           \A k \in DOMAIN screen'.users : KnownUser(screen'.users[k].id)
    PROVE  Inv'
<1>1. UNCHANGED <<db, audit, backend, load>> /\ UnsureOK'
      /\ call' = [call EXCEPT ![f] = Ended]
  BY DEF Outside, Done, Inv, UnsureOK
<1>2. "ended" \notin EarlyPcs  BY DEF EarlyPcs
<1>3. /\ Ended \in CallRow /\ Ended.pc = "ended" /\ Ended.id = None
      /\ CallFine(f, Ended) /\ KnownCall(f, Ended)
  BY CallFacts
<1> DEFINE c == Ended
<1>4. c = Ended  OBVIOUS
<1> HIDE DEF c
<1>5. /\ c \in CallRow /\ c.pc = "ended" /\ c.id = None
      /\ CallFine(f, c) /\ KnownCall(f, c) /\ call' = [call EXCEPT ![f] = c]
      /\ (c.pc \in EarlyPcs => call[f].pc \in EarlyPcs)
  BY <1>1, <1>2, <1>3, <1>4
<1>6. \A l \in Lists : \A k \in DOMAIN screen'[l] :
              \/ c.pc = "ended" /\ screen'[l][k].id \in {f, Temp(f)}
              \/ \E m \in DOMAIN screen[l] : screen[l][m].id = screen'[l][k].id
  BY <1>5
<1>7. QED  BY <1>1, <1>5, <1>6, BrowserStep

\* A command done here, that brings no new id, keeps the invariant.
LEMMA HereInPlace ==
    ASSUME Inv, NEW f \in Calls, call[f].pc # "ended", Done(f), UNCHANGED Outside,
           ScreenOK', ActorOK', KnownUser(actor'), KeepsIds
    PROVE  Inv'
<1>1. \A k \in DOMAIN screen'.users : KnownUser(screen'.users[k].id)
  BY KnownIds
<1>2. QED  BY <1>1, HereStep DEF KeepsIds

\* A command is sent, about a row that is shown or that it creates.
LEMMA SendStep ==
    ASSUME Inv, NEW f \in Calls, call[f].pc \in {"idle", "typing"},
           NEW op \in AllOps, NEW i \in RealIds, NEW row \in Rows, Send(f, op, i, row),
           UNCHANGED Outside,
           i = f \/ OnScreen(i) \/ i = call[f].id,
           op \in {"inviteUser", "updateUser"} => row \in Typed,
           op \in {"createRole", "updateRole"} => row.name \in RoleNames,
           op \in Creating => i = f,
           op = "createApiKey" => row.by = None \/ Exists("users", row.by)
    PROVE  Inv'
<1> DEFINE c == Call(op, i, row, "sent")
<1>1. /\ UNCHANGED <<db, audit, backend, load, screen>> /\ actor' = actor
      /\ call' = [call EXCEPT ![f] = c]
      /\ \E ids \in SUBSET {i} : unsure' = [unsure EXCEPT ![ListOf(op)] = @ \cup ids]
  BY DEF Send, Outside, Unsure
<1>2. ActorOK' /\ KnownUser(actor')  BY <1>1 DEF Inv, ActorOK, Known
<1>3. UnsureOK'
  <2>1. PICK ids \in SUBSET {i} : unsure' = [unsure EXCEPT ![ListOf(op)] = @ \cup ids]
    BY <1>1
  <2>2. ids \subseteq RealIds /\ unsure \in [Lists -> SUBSET RealIds]
    BY DEF Inv, UnsureOK
  <2>3. \A l \in Lists : unsure[l] \cup ids \in SUBSET RealIds  BY <2>2
  <2>4. QED  BY <2>1, <2>2, <2>3 DEF UnsureOK
<1>4. /\ c \in CallRow /\ c.op = op /\ c.id = i /\ c.row = row /\ c.pc = "sent"
  BY CallFacts, IdFacts DEF Pcs
<1> HIDE DEF c
<1>5. CallFine(f, c) /\ KnownCall(f, c)  BY <1>4 DEF CallFine, KnownCall, Going
<1>6. call[f].pc # "ended" /\ call[f].pc \in EarlyPcs  BY DEF EarlyPcs
<1>7. QED  BY <1>1, <1>2, <1>3, <1>4, <1>5, <1>6, QuietStep

\* What the screen offers to change is shown.
LEMMA OfferedOnScreen ==
    /\ \A i \in UsersOffered : OnScreen(i)
    /\ \A i \in RolesOffered : OnScreen(i)
    /\ \A i \in KeysOffered : OnScreen(i)
    /\ DisableOffered \subseteq UsersOffered /\ ReactivateOffered \subseteq UsersOffered
BY DEF UsersOffered, RolesOffered, KeysOffered, DisableOffered, ReactivateOffered,
       OnScreen, IdsOf, Range, Lists

\* What is shown has an id.
LEMMA OnScreenIds ==
    ASSUME ScreenOK, NEW i, OnScreen(i)
    PROVE  i \in Ids
<1>1. /\ \A k \in DOMAIN screen.users : screen.users[k] \in ShownUser
      /\ \A k \in DOMAIN screen.roles : screen.roles[k] \in ShownRole
      /\ \A k \in DOMAIN screen.keys : screen.keys[k] \in ShownKey
  BY DEF ScreenOK
<1>2. \A l \in Lists : \A k \in DOMAIN screen[l] : screen[l][k].id \in Ids
  BY <1>1 DEF Lists, ShownUser, ShownRole, ShownKey
<1>3. QED  BY <1>2 DEF OnScreen

\* Another person is chosen among those shown.
LEMMA SwitchActorInv ==
    ASSUME Inv, NEW f \in Calls, SwitchActor(f)
    PROVE  Inv'
<1>1. call[f].pc = "idle" /\ Done(f) /\ UNCHANGED <<screen, Outside>>
  BY DEF SwitchActor, Free
<1>2. PICK k \in DOMAIN screen.users : actor' = screen.users[k].id
  BY DEF SwitchActor, ActorsOffered, Range
<1>3. KnownUser(actor')  BY <1>2 DEF Inv, Known
<1>4. OnScreen(actor')  BY <1>2 DEF OnScreen, Lists
<1>5. ActorOK'  BY <1>4, OnScreenIds DEF ActorOK, Inv
<1>6. ScreenOK' /\ KeepsIds  BY <1>1 DEF Inv, ScreenOK, KeepsIds
<1>7. UNCHANGED Outside  BY <1>1
<1>8. QED  BY <1>1, <1>3, <1>5, <1>6, <1>7, HereInPlace

\* A key is created here, or asked for.
LEMMA CreateApiKeyInv ==
    ASSUME Inv, NEW f \in Calls, CreateApiKey(f)
    PROVE  Inv'
<1>1. call[f].pc = "idle" /\ UNCHANGED Outside  BY DEF CreateApiKey, Free
<1>2. KnownUser(actor) /\ actor \in Ids  BY DEF Inv, Known, ActorOK
<1>3. CASE backend
  <2> DEFINE row == [NoRow EXCEPT !.by = IF actor \in RealIds THEN actor ELSE None]
  <2>1. Send(f, "createApiKey", f, row)  BY <1>3 DEF CreateApiKey
  <2>2. row \in Rows /\ (row.by = None \/ Exists("users", row.by))
    BY <1>2 DEF Rows, NoRow, KnownUser
  <2>3. "createApiKey" \in AllOps /\ f \in RealIds  BY IdFacts DEF AllOps
  <2> HIDE DEF row
  <2>4. QED  BY <1>1, <2>1, <2>2, <2>3, SendStep
<1>4. CASE ~ backend
  <2>1. Done(f) /\ ShowCreatedKey(Temp(f), actor)  BY <1>4 DEF CreateApiKey
  <2>2. /\ ScreenOK' /\ actor' = actor
        /\ screen'.users = screen.users /\ screen'.roles = screen.roles
        /\ screen'.keys = <<[id |-> Temp(f), by |-> actor]>> \o screen.keys
    BY <1>2, <2>1, IdFacts, CreatedKey DEF Inv
  <2>3. screen.keys \in Seq(ShownKey)  BY DEF Inv, ScreenOK
  <2>4. \A k \in DOMAIN screen'.keys : \/ screen'.keys[k].id = Temp(f)
                                      \/ \E m \in DOMAIN screen.keys :
                                           screen.keys[m] = screen'.keys[k]
    <3> DEFINE r == [id |-> Temp(f), by |-> actor]
    <3>1. r.id = Temp(f)  OBVIOUS
    <3> HIDE DEF r
    <3>2. screen'.keys = <<r>> \o screen.keys  BY <2>2 DEF r
    <3>3. QED  BY <2>3, <3>1, <3>2
  <2>5. \A l \in Lists : \A k \in DOMAIN screen'[l] :
              \/ screen'[l][k].id \in {f, Temp(f)}
              \/ \E m \in DOMAIN screen[l] : screen[l][m].id = screen'[l][k].id
    BY <2>2, <2>4 DEF Lists
  <2>6. \A k \in DOMAIN screen'.users : KnownUser(screen'.users[k].id)
    BY <2>2 DEF Inv, Known
  <2>7. ActorOK' /\ KnownUser(actor')  BY <2>2, <1>2 DEF ActorOK
  <2>8. QED  BY <1>1, <2>1, <2>2, <2>5, <2>6, <2>7, HereStep
<1>5. QED  BY <1>3, <1>4

\* What is left of a list, or joins one, keeps the ids.
LEMMA OnlyKeepsIds ==
    ASSUME NEW S, NEW s \in Seq(S), NEW at \in SUBSET DOMAIN s
    PROVE  \A k \in DOMAIN Only(s, at) : \E m \in DOMAIN s : s[m].id = Only(s, at)[k].id
BY OnlyList

\* A key is deleted here, or that is asked for.
LEMMA DeleteApiKeyInv ==
    ASSUME Inv, NEW f \in Calls, DeleteApiKey(f)
    PROVE  Inv'
<1>1. call[f].pc = "idle" /\ UNCHANGED Outside  BY DEF DeleteApiKey, Free
<1>2. PICK i \in KeysOffered :
         \/ i \in RealIds /\ Send(f, "deleteApiKey", i, NoRow)
         \/ Done(f) /\ ShowDeletedKey(i)
  BY DEF DeleteApiKey, Sends
<1>3. OnScreen(i)  BY OfferedOnScreen
<1>4. CASE i \in RealIds /\ Send(f, "deleteApiKey", i, NoRow)
  <2>1. "deleteApiKey" \in AllOps /\ "deleteApiKey" \notin Creating  BY DEF AllOps, Creating
  <2>2. NoRow \in Rows  BY CallFacts
  <2>3. QED  BY <1>1, <1>3, <1>4, <2>1, <2>2, SendStep
<1>5. CASE Done(f) /\ ShowDeletedKey(i)
  <2> DEFINE at == {k \in DOMAIN screen.keys : screen.keys[k].id # i}
  <2>1. /\ ScreenOK' /\ actor' = actor
        /\ screen'.users = screen.users /\ screen'.roles = screen.roles
        /\ screen'.keys = Only(screen.keys, at)
    BY <1>5, DeletedKey DEF Inv
  <2>2. at \in SUBSET DOMAIN screen.keys  OBVIOUS
  <2> HIDE DEF at
  <2>a. screen.keys \in Seq(ShownKey)  BY DEF Inv, ScreenOK
  <2>3. \A k \in DOMAIN screen'.keys : \E m \in DOMAIN screen.keys :
           screen.keys[m].id = screen'.keys[k].id
    BY <2>1, <2>2, <2>a, OnlyKeepsIds
  <2>4. KeepsIds  BY <2>1, <2>3 DEF KeepsIds, Lists
  <2>5. ActorOK' /\ KnownUser(actor')  BY <2>1 DEF Inv, ActorOK, Known
  <2>6. QED  BY <1>1, <1>5, <2>1, <2>4, <2>5, HereInPlace
<1>6. QED  BY <1>2, <1>4, <1>5

\* A user is invited here, or that is asked for.
LEMMA InviteUserInv ==
    ASSUME Inv, NEW f \in Calls, InviteUser(f)
    PROVE  Inv'
<1>1. call[f].pc = "idle" /\ UNCHANGED Outside  BY DEF InviteUser, Free
<1>2. PICK row \in Typed : Send(f, "inviteUser", f, row)  BY DEF InviteUser
<1>3. "inviteUser" \in AllOps /\ row \in Rows /\ f \in RealIds
  BY CallFacts, IdFacts DEF AllOps
<1>4. QED  BY <1>1, <1>2, <1>3, SendStep

\* A form is opened on a row that is shown.
LEMMA OpenInv ==
    ASSUME Inv, NEW f \in Calls, OpenEdit(f) \/ OpenRoleEdit(f)
    PROVE  Inv'
<1>1. /\ call[f].pc = "idle" /\ UNCHANGED <<screen, actor, unsure, Outside>>
      /\ \E i, op : /\ OnScreen(i) /\ op \in {"updateUser", "updateRole"}
                   /\ call' = [call EXCEPT ![f] = Call(op, i, NoRow, "typing")]
  BY OfferedOnScreen DEF OpenEdit, OpenRoleEdit, Free
<1>2. PICK i, op : /\ OnScreen(i) /\ op \in {"updateUser", "updateRole"}
                   /\ call' = [call EXCEPT ![f] = Call(op, i, NoRow, "typing")]
  BY <1>1
<1> DEFINE c == Call(op, i, NoRow, "typing")
<1>3. i \in Ids /\ op \in AllOps /\ "typing" \in Pcs
  BY <1>2, OnScreenIds DEF AllOps, Pcs, Inv
<1>4. /\ c \in CallRow /\ c.op = op /\ c.id = i /\ c.pc = "typing"
  BY <1>3, CallFacts
<1>5. call' = [call EXCEPT ![f] = c]  BY <1>2
<1> HIDE DEF c
<1>6. CallFine(f, c) /\ KnownCall(f, c)
  BY <1>2, <1>3, <1>4 DEF CallFine, KnownCall, Going
<1>7. /\ ActorOK' /\ KnownUser(actor') /\ UnsureOK'
      /\ UNCHANGED <<db, audit, backend, load, screen>>
  BY <1>1 DEF Inv, ActorOK, Known, UnsureOK, Outside
<1>8. call[f].pc # "ended" /\ call[f].pc \in EarlyPcs  BY <1>1 DEF EarlyPcs
<1>9. QED  BY <1>2, <1>4, <1>5, <1>6, <1>7, <1>8, QuietStep

\* One about a user that is shown.
LEMMA AboutUserInv ==
    ASSUME Inv, NEW f \in Calls, call[f].pc \in {"idle", "typing"}, UNCHANGED Outside,
           NEW i, OnScreen(i) \/ i = call[f].id, NEW row \in Rows,
           \/ /\ row \in Typed
              /\ Sends(f, "updateUser", i, row, ShowUpdatedUser(i, row))
           \/ Sends(f, "disableUser", i, row, ShowDisabledUser(i))
           \/ Sends(f, "reactivateUser", i, row, ShowReactivatedUser(i))
    PROVE  Inv'
<1>1. CASE /\ i \in RealIds
           /\ \E op \in {"updateUser", "disableUser", "reactivateUser"} :
                Send(f, op, i, row) /\ (op = "updateUser" => row \in Typed)
  <2>1. PICK op \in {"updateUser", "disableUser", "reactivateUser"} :
                Send(f, op, i, row) /\ (op = "updateUser" => row \in Typed)
    BY <1>1
  <2>2. op \in AllOps /\ op \notin Creating /\ op \notin {"createRole", "updateRole"}
        /\ op # "inviteUser" /\ op # "createApiKey"
    BY DEF AllOps, Creating
  <2>3. QED  BY <1>1, <2>1, <2>2, SendStep
<1>2. CASE /\ Done(f)
           /\ \/ row \in Typed /\ ShowUpdatedUser(i, row)
              \/ ShowDisabledUser(i)
              \/ ShowReactivatedUser(i)
  <2>1. ScreenOK /\ ActorOK  BY DEF Inv
  <2>2. /\ InPlace(i)
        /\ actor' = actor \/ \E k \in DOMAIN screen.users : actor' = screen.users[k].id
    BY <1>2, <2>1, UpdatedUser, DisabledUser, ReactivatedUser
  <2>3. KnownUser(actor')  BY <2>2 DEF Inv, Known
  <2>4. actor' = actor \/ OnScreen(actor')  BY <2>2 DEF OnScreen, Lists
  <2>5. ActorOK'  BY <2>4, <2>1, OnScreenIds DEF ActorOK
  <2>6. KeepsIds /\ ScreenOK'  BY <2>2, InPlaceKeepsIds DEF InPlace
  <2>7. call[f].pc # "ended"  OBVIOUS
  <2>8. QED  BY <1>2, <2>3, <2>5, <2>6, <2>7, HereInPlace
<1>3. QED  BY <1>1, <1>2 DEF Sends

\* The three commands about a user that is shown keep the invariant.
LEMMA UserActionsInv ==
    ASSUME Inv, NEW f \in Calls, UpdateUser(f) \/ DisableUser(f) \/ ReactivateUser(f)
    PROVE  Inv'
<1>1. CASE UpdateUser(f)
  <2>1. call[f].pc = "typing" /\ UNCHANGED Outside  BY <1>1 DEF UpdateUser
  <2>2. PICK row \in Typed :
          Sends(f, "updateUser", call[f].id, row, ShowUpdatedUser(call[f].id, row))
    BY <1>1 DEF UpdateUser
  <2>3. row \in Rows  BY CallFacts
  <2>4. QED  BY <2>1, <2>2, <2>3, AboutUserInv
<1>2. CASE DisableUser(f)
  <2>1. call[f].pc = "idle" /\ UNCHANGED Outside  BY <1>2 DEF DisableUser, Free
  <2>2. PICK i \in DisableOffered : Sends(f, "disableUser", i, NoRow, ShowDisabledUser(i))
    BY <1>2 DEF DisableUser
  <2>3. OnScreen(i) /\ NoRow \in Rows  BY OfferedOnScreen, CallFacts
  <2>4. QED  BY <2>1, <2>2, <2>3, AboutUserInv
<1>3. CASE ReactivateUser(f)
  <2>1. call[f].pc = "idle" /\ UNCHANGED Outside  BY <1>3 DEF ReactivateUser, Free
  <2>2. PICK i \in ReactivateOffered :
          Sends(f, "reactivateUser", i, NoRow, ShowReactivatedUser(i))
    BY <1>3 DEF ReactivateUser
  <2>3. OnScreen(i) /\ NoRow \in Rows  BY OfferedOnScreen, CallFacts
  <2>4. QED  BY <2>1, <2>2, <2>3, AboutUserInv
<1>4. QED  BY <1>1, <1>2, <1>3

\* The name of a role makes a row.
LEMMA RoleRows ==
    \A name \in TypedNames : /\ [NoRow EXCEPT !.name = name] \in Rows
                            /\ [NoRow EXCEPT !.name = name].name \in RoleNames
BY TypedAssumption DEF NoRow, Rows

\* A role is created here, or asked for.
LEMMA CreateRoleInv ==
    ASSUME Inv, NEW f \in Calls, CreateRole(f)
    PROVE  Inv'
<1>1. call[f].pc = "idle" /\ UNCHANGED Outside  BY DEF CreateRole, Free
<1>2. PICK row : /\ row \in Rows /\ row.name \in RoleNames
                 /\ \/ Send(f, "createRole", f, row)
                    \/ Done(f) /\ ShowCreatedRole(Temp(f), row)
  <2>1. PICK name \in TypedNames :
          LET row == [NoRow EXCEPT !.name = name] IN
          \/ Send(f, "createRole", f, row)
          \/ Done(f) /\ ShowCreatedRole(Temp(f), row)
    BY DEF CreateRole
  <2>2. QED  BY <2>1, RoleRows
<1>3. CASE Send(f, "createRole", f, row)
  <2>1. "createRole" \in AllOps /\ f \in RealIds  BY IdFacts DEF AllOps
  <2>2. QED  BY <1>1, <1>2, <1>3, <2>1, SendStep
<1>4. CASE Done(f) /\ ShowCreatedRole(Temp(f), row)
  <2>1. /\ ScreenOK' /\ actor' = actor
        /\ screen'.users = screen.users /\ screen'.keys = screen.keys
        /\ \E r : screen'.roles = Append(screen.roles, r) /\ r.id = Temp(f)
    BY <1>2, <1>4, IdFacts, CreatedRole DEF Inv
  <2>2. PICK r : screen'.roles = Append(screen.roles, r) /\ r.id = Temp(f)  BY <2>1
  <2>3. screen.roles \in Seq(ShownRole)  BY DEF Inv, ScreenOK
  <2>4. \A k \in DOMAIN screen'.roles : \/ screen'.roles[k].id = Temp(f)
                                       \/ \E m \in DOMAIN screen.roles :
                                            screen.roles[m] = screen'.roles[k]
    BY <2>2, <2>3
  <2>5. \A l \in Lists : \A k \in DOMAIN screen'[l] :
              \/ screen'[l][k].id \in {f, Temp(f)}
              \/ \E m \in DOMAIN screen[l] : screen[l][m].id = screen'[l][k].id
    BY <2>1, <2>4 DEF Lists
  <2>6. \A k \in DOMAIN screen'.users : KnownUser(screen'.users[k].id)
    BY <2>1 DEF Inv, Known
  <2>7. ActorOK' /\ KnownUser(actor')  BY <2>1 DEF Inv, Known, ActorOK
  <2>8. QED  BY <1>1, <1>4, <2>1, <2>5, <2>6, <2>7, HereStep
<1>5. QED  BY <1>2, <1>3, <1>4

\* A role is renamed here, or that is asked for.
LEMMA UpdateRoleInv ==
    ASSUME Inv, NEW f \in Calls, UpdateRole(f)
    PROVE  Inv'
<1>1. call[f].pc = "typing" /\ UNCHANGED Outside  BY DEF UpdateRole
<1> DEFINE i == call[f].id
<1>2. PICK row : /\ row \in Rows /\ row.name \in RoleNames
                 /\ \/ i \in RealIds /\ Send(f, "updateRole", i, row)
                    \/ Done(f) /\ ShowUpdatedRole(i, row)
  <2>1. PICK name \in TypedNames :
          LET row == [NoRow EXCEPT !.name = name] IN
          \/ i \in RealIds /\ Send(f, "updateRole", i, row)
          \/ Done(f) /\ ShowUpdatedRole(i, row)
    BY DEF UpdateRole, Sends
  <2>2. QED  BY <2>1, RoleRows
<1>3. CASE i \in RealIds /\ Send(f, "updateRole", i, row)
  <2>1. "updateRole" \in AllOps /\ "updateRole" \notin Creating  BY DEF AllOps, Creating
  <2>2. QED  BY <1>1, <1>2, <1>3, <2>1, SendStep
<1>4. CASE Done(f) /\ ShowUpdatedRole(i, row)
  <2>1. /\ ScreenOK' /\ actor' = actor
        /\ screen'.users = screen.users /\ screen'.keys = screen.keys
        /\ DOMAIN screen'.roles = DOMAIN screen.roles
        /\ \A k \in DOMAIN screen.roles : screen'.roles[k].id = screen.roles[k].id
    BY <1>2, <1>4, UpdatedRole DEF Inv
  <2>2. KeepsIds  BY <2>1 DEF KeepsIds, Lists
  <2>3. ActorOK' /\ KnownUser(actor')  BY <2>1 DEF Inv, Known, ActorOK
  <2>4. QED  BY <1>1, <1>4, <2>1, <2>2, <2>3, HereInPlace
<1>5. QED  BY <1>2, <1>3, <1>4

\* A role is deleted here, or that is asked for.
LEMMA DeleteRoleInv ==
    ASSUME Inv, NEW f \in Calls, DeleteRole(f)
    PROVE  Inv'
<1>1. call[f].pc = "idle" /\ UNCHANGED Outside  BY DEF DeleteRole, Free
<1>2. PICK i \in RolesOffered :
         \/ i \in RealIds /\ Send(f, "deleteRole", i, NoRow)
         \/ Done(f) /\ ShowDeletedRole(i)
  BY DEF DeleteRole, Sends
<1>3. OnScreen(i)  BY OfferedOnScreen
<1>4. CASE i \in RealIds /\ Send(f, "deleteRole", i, NoRow)
  <2>1. "deleteRole" \in AllOps /\ "deleteRole" \notin Creating  BY DEF AllOps, Creating
  <2>2. NoRow \in Rows  BY CallFacts
  <2>3. QED  BY <1>1, <1>3, <1>4, <2>1, <2>2, SendStep
<1>5. CASE Done(f) /\ ShowDeletedRole(i)
  <2> DEFINE at == {k \in DOMAIN screen.roles :
                      screen.roles[k].id # i \/ screen.roles[k].builtIn}
  <2>1. /\ ScreenOK' /\ actor' = actor
        /\ screen'.users = screen.users /\ screen'.keys = screen.keys
        /\ screen'.roles = Only(screen.roles, at)
    BY <1>5, DeletedRole DEF Inv
  <2>2. at \in SUBSET DOMAIN screen.roles  OBVIOUS
  <2> HIDE DEF at
  <2>a. screen.roles \in Seq(ShownRole)  BY DEF Inv, ScreenOK
  <2>3. \A k \in DOMAIN screen'.roles : \E m \in DOMAIN screen.roles :
           screen.roles[m].id = screen'.roles[k].id
    BY <2>1, <2>2, <2>a, OnlyKeepsIds
  <2>4. KeepsIds  BY <2>1, <2>3 DEF KeepsIds, Lists
  <2>5. ActorOK' /\ KnownUser(actor')  BY <2>1 DEF Inv, ActorOK, Known
  <2>6. QED  BY <1>1, <1>5, <2>1, <2>4, <2>5, HereInPlace
<1>6. QED  BY <1>2, <1>4, <1>5

-----------------------------------------------------------------------------
(* The server *)

\* What a finite set is mapped onto is finite.
LEMMA ImageFinite ==
    ASSUME NEW T, IsFiniteSet(T), NEW U, NEW g, DOMAIN g = T, g \in [T -> U],
           \A y \in U : \E x \in T : g[x] = y
    PROVE  IsFiniteSet(U)
<1>1. g \in Surjection(T, U)  BY DEF Surjection
<1>2. QED  BY <1>1, FS_Surjection

\* One row of the users changes, and its id and e-mail stay.
LEMMA UsersEdited ==
    ASSUME DbOK, NEW g \in [db.users -> UserRow],
           \A u \in db.users : g[u].id = u.id /\ g[u].email = u.email,
           db' = [db EXCEPT !["users"] = {g[u] : u \in db.users}]
    PROVE  /\ DbOK'
           /\ \A u \in db.users : \E v \in db'.users : v.id = u.id
           /\ \A v \in db'.users : \E u \in db.users : u.id = v.id
<1> DEFINE T == {g[u] : u \in db.users}
<1>1. /\ IsFiniteSet(db.users) /\ IsFiniteSet(db.roles) /\ IsFiniteSet(db.keys)
      /\ db \in [users : SUBSET UserRow, roles : SUBSET RoleRow, keys : SUBSET KeyRow]
  BY DEF DbOK, Lists
<1>3. T \in SUBSET UserRow  OBVIOUS
<1>4. \A v \in T : \E u \in db.users : v = g[u]  OBVIOUS
<1>5. \A u \in db.users : g[u] \in T  OBVIOUS
<1> HIDE DEF T
<1>a. DOMAIN g = db.users /\ g \in [db.users -> T]  BY <1>5
<1>2. IsFiniteSet(T)  BY <1>1, <1>4, <1>a, ImageFinite
<1>6. db'.users = T /\ db'.roles = db.roles /\ db'.keys = db.keys
      /\ db' \in [users : SUBSET UserRow, roles : SUBSET RoleRow, keys : SUBSET KeyRow]
  BY <1>1, <1>3 DEF T
<1>7. \A l \in Lists : IsFiniteSet(db'[l])  BY <1>1, <1>2, <1>6 DEF Lists
<1>8. \A u, v \in db.users : u.email = v.email \/ u.id = v.id => u = v  BY DEF DbOK
<1>9. \A u, v \in T : u.email = v.email \/ u.id = v.id => u = v  BY <1>4, <1>8
<1>10. DbOK'  BY <1>6, <1>7, <1>9 DEF DbOK
<1>11. QED  BY <1>4, <1>5, <1>6, <1>10

\* A user is added, with an e-mail nobody has.
LEMMA UserInvited ==
    ASSUME DbOK, NEW i \in RealIds, NEW row \in Typed,
           ~ EmailTaken(row.email), ~ Exists("users", i),
           db' = [db EXCEPT !["users"] = db.users \cup {Invited(i, row)}]
    PROVE  /\ DbOK'
           /\ db'.users = db.users \cup {Invited(i, row)}
           /\ db'.roles = db.roles /\ db'.keys = db.keys
<1> DEFINE u == Invited(i, row)
<1>1. /\ IsFiniteSet(db.users) /\ IsFiniteSet(db.roles) /\ IsFiniteSet(db.keys)
      /\ db \in [users : SUBSET UserRow, roles : SUBSET RoleRow, keys : SUBSET KeyRow]
  BY DEF DbOK, Lists
<1>2. RoleToGlobal(row.role) \in Global  BY DEF RoleToGlobal, Global
<1>3. u \in UserRow /\ u.id = i /\ u.email = row.email
  BY <1>2, TypedAssumption DEF Invited, UserRow
<1> HIDE DEF u
<1>4. IsFiniteSet(db.users \cup {u})  BY <1>1, FS_AddElement
<1>5. /\ db'.users = db.users \cup {u} /\ db'.roles = db.roles /\ db'.keys = db.keys
      /\ db' \in [users : SUBSET UserRow, roles : SUBSET RoleRow, keys : SUBSET KeyRow]
  BY <1>1, <1>3 DEF u
<1>6. \A l \in Lists : IsFiniteSet(db'[l])  BY <1>1, <1>4, <1>5 DEF Lists
<1>7. \A v \in db.users : v.email # u.email /\ v.id # u.id
  BY <1>3 DEF EmailTaken, Exists
<1>8. \A v, w \in db'.users : v.email = w.email \/ v.id = w.id => v = w
  BY <1>5, <1>7 DEF DbOK
<1>9. DbOK'  BY <1>5, <1>6, <1>8 DEF DbOK
<1>10. QED  BY <1>5, <1>9 DEF u

\* The users with one edited.
PatchedUsers(i, op, row) == Edited(db.users, i, LAMBDA u : Patched(op, row, u))

\* A user is edited, and keeps the id and the e-mail.
LEMMA UserPatched ==
    ASSUME DbOK, NEW i, NEW op \in {"updateUser", "disableUser", "reactivateUser"}, NEW row,
           op = "updateUser" => row \in Typed,
           db' = [db EXCEPT !["users"] = PatchedUsers(i, op, row)]
    PROVE  /\ DbOK'
           /\ \A u \in db.users : \E v \in db'.users : v.id = u.id
           /\ \A v \in db'.users : \E u \in db.users : u.id = v.id
<1> DEFINE g == [u \in db.users |-> IF u.id = i THEN Patched(op, row, u) ELSE u]
<1>1. \A u \in db.users : u \in UserRow  BY DEF DbOK
<1>2. RoleToGlobal(row.role) \in Global  BY DEF RoleToGlobal, Global
<1>3. \A u \in db.users : /\ Patched(op, row, u) \in UserRow
                          /\ Patched(op, row, u).id = u.id
                          /\ Patched(op, row, u).email = u.email
  BY <1>1, <1>2, TypedAssumption DEF Patched, UserRow
<1>4. g \in [db.users -> UserRow]  BY <1>1, <1>3
<1>5. \A u \in db.users : g[u].id = u.id /\ g[u].email = u.email  BY <1>3
<1>6. PatchedUsers(i, op, row) = {g[u] : u \in db.users}
  BY DEF PatchedUsers, Edited
<1> HIDE DEF g
<1>7. QED  BY <1>4, <1>5, <1>6, UsersEdited

\* What is written of a role, or of a key, leaves names and ids unique.
LEMMA RolesWritten ==
    ASSUME DbOK, NEW T \in SUBSET RoleRow, IsFiniteSet(T),
           \A r, q \in T : r.name = q.name \/ r.id = q.id => r = q,
           db' = [db EXCEPT !["roles"] = T]
    PROVE  DbOK' /\ db'.users = db.users /\ db'.roles = T /\ db'.keys = db.keys
<1>1. /\ IsFiniteSet(db.users) /\ IsFiniteSet(db.roles) /\ IsFiniteSet(db.keys)
      /\ db \in [users : SUBSET UserRow, roles : SUBSET RoleRow, keys : SUBSET KeyRow]
  BY DEF DbOK, Lists
<1>2. /\ db'.users = db.users /\ db'.roles = T /\ db'.keys = db.keys
      /\ db' \in [users : SUBSET UserRow, roles : SUBSET RoleRow, keys : SUBSET KeyRow]
  BY <1>1
<1>3. \A l \in Lists : IsFiniteSet(db'[l])  BY <1>1, <1>2 DEF Lists
<1>4. QED  BY <1>2, <1>3 DEF DbOK

\* So does what is written of a key.
LEMMA KeysWritten ==
    ASSUME DbOK, NEW T \in SUBSET KeyRow, IsFiniteSet(T),
           \A k, h \in T : k.id = h.id => k = h,
           db' = [db EXCEPT !["keys"] = T]
    PROVE  DbOK' /\ db'.users = db.users /\ db'.roles = db.roles /\ db'.keys = T
<1>1. /\ IsFiniteSet(db.users) /\ IsFiniteSet(db.roles) /\ IsFiniteSet(db.keys)
      /\ db \in [users : SUBSET UserRow, roles : SUBSET RoleRow, keys : SUBSET KeyRow]
  BY DEF DbOK, Lists
<1>2. /\ db'.users = db.users /\ db'.roles = db.roles /\ db'.keys = T
      /\ db' \in [users : SUBSET UserRow, roles : SUBSET RoleRow, keys : SUBSET KeyRow]
  BY <1>1
<1>3. \A l \in Lists : IsFiniteSet(db'[l])  BY <1>1, <1>2 DEF Lists
<1>4. QED  BY <1>2, <1>3 DEF DbOK

\* A handler takes a step.
LEMMA MovedStep ==
    ASSUME Inv, NEW f \in Calls, call[f].pc \in {"sent", "checked", "written"},
           NEW pc \in {"checked", "written", "done", "refused"}, Moved(f, pc),
           UNCHANGED Kept, DbOK', AuditOK', UnsureOK',
           pc = "checked" => call[f].pc = "sent",
           pc = "written" => call[f].op \notin Ops["users"],
           \A l \in Lists : \A r \in db'[l] :
              \/ pc # "checked" /\ r.id = f
              \/ \E q \in db[l] : q.id = r.id,
           \A u \in db.users : \E v \in db'.users : v.id = u.id,
           pc = "done" /\ call[f].op = "inviteUser" => \E v \in db'.users : v.id = f
    PROVE  Inv'
<1> PICK c : c = IF pc \in {"done", "refused"} /\ ~call[f].ours THEN Ended
                 ELSE [call[f] EXCEPT !.pc = pc]
  OBVIOUS
<1>1. call[f] \in CallRow /\ CallFine(f, call[f]) /\ KnownCall(f, call[f])
  BY DEF Inv, CallsOK, Known
<1>2. call' = [call EXCEPT ![f] = c]  BY DEF Moved
<1>3. c = Ended \/ (/\ c.pc = pc /\ c.op = call[f].op /\ c.id = call[f].id
                    /\ c.row = call[f].row /\ c.ours = call[f].ours)
  BY <1>1 DEF CallRow
<1>4. c \in CallRow  BY <1>1, CallFacts DEF CallRow, Pcs
<1>5. pc # "checked" => c.pc \notin EarlyPcs
  BY <1>3, CallFacts DEF EarlyPcs
<1>6. CallFine(f, c)
  <2>1. CASE c = Ended  BY <2>1, CallFacts
  <2>2. CASE c # Ended
    <3>1. call[f].pc \in Going  BY DEF Going
    <3>2. QED  BY <2>2, <3>1, <1>1, <1>3 DEF CallFine, Going
  <2>3. QED  BY <2>1, <2>2
<1>7. KnownCall(f, c)'
  <2>1. c = Ended => ~ (c.pc \in Going)  BY CallFacts DEF Going
  <2>2. call[f].pc \in Going  BY DEF Going
  <2>3. \A x : Exists("users", x) => Exists("users", x)'  BY DEF Exists
  <2>4. CASE c = Ended
    <3>1. c.pc \notin Going /\ "done" \in Going  BY <2>1, <2>4 DEF Going
    <3>2. QED  BY <3>1 DEF KnownCall
  <2>5. CASE c # Ended
    <3>1. call[f].op = "createApiKey" => c.row.by = None \/ Exists("users", c.row.by)
      BY <2>2, <2>5, <1>1, <1>3 DEF KnownCall
    <3>2. c.pc = "done" /\ c.op = "inviteUser" => Exists("users", f)'
      BY <2>5, <1>3 DEF Exists
    <3>3. QED  BY <3>1, <3>2, <2>3, <2>5, <1>3 DEF KnownCall
  <2>6. QED  BY <2>4, <2>5
<1>8. UNCHANGED <<screen, actor, backend, load>>  BY DEF Kept
<1>9. call[f].pc # "ended" /\ (c.pc \in EarlyPcs => call[f].pc \in EarlyPcs)
  BY <1>5 DEF EarlyPcs
<1>10. c.id \in {None, call[f].id}  BY <1>3, CallFacts
<1>11. \A l \in Lists : \A r \in db'[l] :
              \/ c.pc \notin EarlyPcs /\ r.id = f
              \/ \E q \in db[l] : q.id = r.id
  BY <1>5
<1>12. QED  BY <1>2, <1>4, <1>6, <1>7, <1>8, <1>9, <1>10, <1>11, ServerStep

\* A command about a user is written, or a second user of an e-mail refused.
LEMMA WriteUserInv ==
    ASSUME Inv, NEW f \in Calls, WriteUser(f)
    PROVE  Inv'
<1> DEFINE op == call[f].op
           i == call[f].id
           row == call[f].row
<1>1. /\ call[f].pc = "checked" /\ op \in Ops["users"]
      /\ UNCHANGED <<audit, unsure>> /\ UNCHANGED Kept
  BY DEF WriteUser
<1>2. CallFine(f, call[f]) /\ call[f].pc \in Going /\ f \in RealIds
  BY <1>1, IdFacts DEF Inv, CallsOK, Going
<1>3. AuditOK' /\ UnsureOK' /\ DbOK  BY <1>1 DEF Inv, AuditOK, UnsureOK
<1>4. CASE op = "inviteUser" /\ EmailTaken(row.email)
  <2>1. Moved(f, "refused") /\ db' = db  BY <1>4 DEF WriteUser
  <2>2. DbOK'  BY <1>3, <2>1 DEF DbOK
  <2> QED  BY <1>1, <1>3, <2>1, <2>2, MovedStep
<1>5. CASE op = "inviteUser" /\ ~ EmailTaken(row.email)
  <2>1. i = f /\ row \in Typed  BY <1>2, <1>5 DEF CallFine, Creating
  <2>2. /\ Moved(f, "done")
        /\ db' = [db EXCEPT !["users"] = db.users \cup {Invited(f, row)}]
    BY <1>5, <2>1 DEF WriteUser, Put
  <2>3. ~ EmailTaken(row.email)  BY <1>5
  <2>4. ~ Exists("users", f)
    BY <1>1 DEF Inv, Unborn, EarlyPcs, InDb, Lists, Exists
  <2> HIDE DEF i, op, row
  <2>5. /\ DbOK' /\ db'.users = db.users \cup {Invited(f, row)}
        /\ db'.roles = db.roles /\ db'.keys = db.keys
    BY <1>2, <1>3, <2>1, <2>2, <2>3, <2>4, UserInvited
  <2>6. Invited(f, row).id = f  BY DEF Invited
  <2>7. \A l \in Lists : \A r \in db'[l] : r.id = f \/ \E q \in db[l] : q.id = r.id
    BY <2>5, <2>6 DEF Lists
  <2>8. \A u \in db.users : \E v \in db'.users : v.id = u.id  BY <2>5
  <2>9. \E v \in db'.users : v.id = f  BY <2>5, <2>6
  <2> QED  BY <1>1, <1>3, <2>2, <2>5, <2>7, <2>8, <2>9, MovedStep DEF op
<1>6. CASE op # "inviteUser"
  <2>1. op \in {"updateUser", "disableUser", "reactivateUser"}
    BY <1>1, <1>6 DEF Ops
  <2>2. op = "updateUser" => row \in Typed  BY <1>2 DEF CallFine
  <2>3. /\ Moved(f, "done")
        /\ db' = [db EXCEPT !["users"] = PatchedUsers(i, op, row)]
    BY <1>6 DEF WriteUser, Put, PatchedUsers
  <2>4. /\ DbOK' /\ \A u \in db.users : \E v \in db'.users : v.id = u.id
        /\ \A v \in db'.users : \E u \in db.users : u.id = v.id
    BY <1>3, <1>6, <2>1, <2>2, <2>3, UserPatched
  <2>5. db'.roles = db.roles /\ db'.keys = db.keys  BY <2>3, <1>3 DEF DbOK
  <2>6. \A l \in Lists : \A r \in db'[l] : \E q \in db[l] : q.id = r.id
    BY <2>4, <2>5 DEF Lists
  <2>7. Moved(f, "done")  BY <2>3
  <2>8. call[f].op # "inviteUser"  BY <1>6
  <2> HIDE DEF i, op, row
  <2> QED  BY <1>1, <1>3, <2>4, <2>6, <2>7, <2>8, MovedStep
<1>7. QED  BY <1>4, <1>5, <1>6

\* What is about a role or a key is one of its commands.
LEMMA NotAboutUsers ==
    ASSUME Inv, NEW f \in Calls, call[f].pc \in Going
    PROVE  /\ call[f].op \in AllOps /\ ListOf(call[f].op) \in Lists
           /\ call[f].id \in RealIds
           /\ ListOf(call[f].op) = "users" <=> call[f].op \in Ops["users"]
           /\ ListOf(call[f].op) = "roles" <=> call[f].op \in Ops["roles"]
           /\ ListOf(call[f].op) = "keys" <=> call[f].op \in Ops["keys"]
<1>1. call[f].op \in AllOps /\ call[f].id \in RealIds  BY DEF Inv, CallsOK, CallFine
<1>2. QED  BY <1>1, ListOfOps

\* A command passes its checks or is refused.
LEMMA CheckInv ==
    ASSUME Inv, NEW f \in Calls, Check(f)
    PROVE  Inv'
<1>1. /\ call[f].pc = "sent"
      /\ UNCHANGED <<db, audit, unsure>> /\ UNCHANGED Kept
      /\ Moved(f, "checked") \/ Moved(f, "refused")
  BY DEF Check
<1>2. AuditOK' /\ UnsureOK' /\ DbOK'
  BY <1>1 DEF Inv, AuditOK, UnsureOK, DbOK
<1>3. PICK pc \in {"checked", "refused"} : Moved(f, pc)  BY <1>1
<1>4. /\ \A l \in Lists : \A r \in db'[l] : \E q \in db[l] : q.id = r.id
      /\ \A u \in db.users : \E v \in db'.users : v.id = u.id
  BY <1>1
<1>5. QED  BY <1>1, <1>2, <1>3, <1>4, MovedStep

\* A role is written, unless another has the name (AdminSettingsService).
LEMMA WriteRoleInv ==
    ASSUME Inv, NEW f \in Calls, WriteRole(f)
    PROVE  Inv'
<1> DEFINE op == call[f].op
           i == call[f].id
           name == call[f].row.name
<1>1. /\ call[f].pc = "checked" /\ ListOf(op) = "roles"
      /\ UNCHANGED <<audit, unsure>> /\ UNCHANGED Kept
  BY DEF WriteRole
<1>2. CallFine(f, call[f]) /\ call[f].pc \in Going /\ f \in RealIds
  BY <1>1, IdFacts DEF Inv, CallsOK, Going
<1>3. op \in Ops["roles"] /\ op \notin Ops["users"] /\ i \in RealIds
  BY <1>1, <1>2, NotAboutUsers
<1>4. AuditOK' /\ UnsureOK' /\ DbOK  BY <1>1 DEF Inv, AuditOK, UnsureOK
<1>5. /\ db.roles \in SUBSET RoleRow /\ IsFiniteSet(db.roles)
      /\ \A r, q \in db.roles : r.name = q.name \/ r.id = q.id => r = q
  BY <1>4 DEF DbOK, Lists
<1>6. ASSUME NEW T \in SUBSET RoleRow, IsFiniteSet(T),
             \A r, q \in T : r.name = q.name \/ r.id = q.id => r = q,
             \A r \in T : r.id = f \/ \E q \in db.roles : q.id = r.id,
             db' = [db EXCEPT !["roles"] = T], Moved(f, "written")
      PROVE  Inv'
  <2>1. DbOK' /\ db'.users = db.users /\ db'.roles = T /\ db'.keys = db.keys
    BY <1>4, <1>6, RolesWritten
  <2>2. \A l \in Lists : \A r \in db'[l] : r.id = f \/ \E q \in db[l] : q.id = r.id
    BY <1>6, <2>1 DEF Lists
  <2>3. \A u \in db.users : \E v \in db'.users : v.id = u.id  BY <2>1
  <2> QED  BY <1>1, <1>3, <1>4, <1>6, <2>1, <2>2, <2>3, MovedStep
<1>7. CASE Moved(f, "refused") /\ db' = db
  <2>1. DbOK'  BY <1>4, <1>7 DEF DbOK
  <2> QED  BY <1>1, <1>4, <1>7, <2>1, MovedStep
<1>8. CASE /\ op = "createRole" /\ ~ NameTaken(name, i) /\ Moved(f, "written")
           /\ db' = [db EXCEPT !["roles"] = db.roles \cup {[id |-> i, name |-> name, builtIn |-> FALSE]}]
  <2> DEFINE r == [id |-> i, name |-> name, builtIn |-> FALSE]
  <2>1. i = f /\ name \in RoleNames  BY <1>2, <1>8 DEF CallFine, Creating
  <2>2. r \in RoleRow /\ r.id = f /\ r.name = name  BY <1>3, <2>1 DEF RoleRow
  <2>3. ~ InDb(f)  BY <1>1 DEF Inv, Unborn, EarlyPcs
  <2>4. \A q \in db.roles : q.id # f  BY <2>3 DEF InDb, Lists
  <2>5. \A q \in db.roles : q.name # name  BY <1>8, <2>1, <2>4 DEF NameTaken
  <2> HIDE DEF name, i
  <2>6. db' = [db EXCEPT !["roles"] = db.roles \cup {r}]  BY <1>8
  <2> HIDE DEF r
  <2>7. IsFiniteSet(db.roles \cup {r})  BY <1>5, FS_AddElement
  <2>8. \A p, q \in db.roles \cup {r} : p.name = q.name \/ p.id = q.id => p = q
    BY <1>5, <2>2, <2>4, <2>5
  <2>9. \A q \in db.roles \cup {r} : q.id = f \/ \E p \in db.roles : p.id = q.id
    BY <2>2
  <2>10. Moved(f, "written")  BY <1>8
  <2> QED  BY <1>5, <1>6, <2>2, <2>6, <2>7, <2>8, <2>9, <2>10
<1>9. CASE /\ op = "updateRole" /\ (NameTaken(name, i) => ~ Exists("roles", i))
           /\ Moved(f, "written")
           /\ db' = [db EXCEPT !["roles"] =
                       Edited(db.roles, i, LAMBDA r : [r EXCEPT !.name = name])]
  <2>1. name \in RoleNames  BY <1>2, <1>9 DEF CallFine
  <2> HIDE DEF name, i
  <2> DEFINE g == [r \in db.roles |-> IF r.id = i THEN [r EXCEPT !.name = name] ELSE r]
             T == {g[r] : r \in db.roles}
  <2>2. /\ \A r \in db.roles : /\ g[r] \in RoleRow /\ g[r].id = r.id
                               /\ g[r].name = IF r.id = i THEN name ELSE r.name
        /\ DOMAIN g = db.roles /\ g \in [db.roles -> T]
    BY <1>5, <2>1 DEF RoleRow
  <2>3. db' = [db EXCEPT !["roles"] = T]  BY <1>9 DEF Edited
  <2> HIDE DEF g
  <2>4. T \in SUBSET RoleRow /\ \A y \in T : \E x \in db.roles : g[x] = y  BY <2>2
  <2> HIDE DEF T
  <2>5. IsFiniteSet(T)  BY <1>5, <2>2, <2>4, ImageFinite
  <2>6. \A x, y \in db.roles : g[x].name = g[y].name \/ g[x].id = g[y].id => x = y
    <3>1. SUFFICES ASSUME NEW x \in db.roles, NEW y \in db.roles,
                          g[x].name = g[y].name \/ g[x].id = g[y].id
                   PROVE  x = y
      OBVIOUS
    <3>2. CASE x.id = y.id  BY <1>5, <3>2
    <3>3. CASE x.id # y.id
      <4>1. g[x].name = g[y].name  BY <2>2, <3>1, <3>3
      <4>2. CASE x.id = i
        <5>1. y.name = name /\ y.id # i  BY <2>2, <4>1, <4>2, <3>3
        <5>2. FALSE  BY <1>9, <5>1, <4>2 DEF NameTaken, Exists
        <5> QED  BY <5>2
      <4>3. CASE y.id = i
        <5>1. x.name = name /\ x.id # i  BY <2>2, <4>1, <4>3, <3>3
        <5>2. FALSE  BY <1>9, <5>1, <4>3 DEF NameTaken, Exists
        <5> QED  BY <5>2
      <4>4. CASE x.id # i /\ y.id # i  BY <1>5, <2>2, <4>1, <4>4
      <4> QED  BY <4>2, <4>3, <4>4
    <3> QED  BY <3>2, <3>3
  <2>7. \A p, q \in T : p.name = q.name \/ p.id = q.id => p = q  BY <2>4, <2>6
  <2>8. \A q \in T : q.id = f \/ \E p \in db.roles : p.id = q.id  BY <2>2, <2>4
  <2>9. Moved(f, "written")  BY <1>9
  <2> QED  BY <1>6, <2>3, <2>4, <2>5, <2>7, <2>8, <2>9
<1>10. CASE /\ Moved(f, "written")
            /\ db' = [db EXCEPT !["roles"] = {r \in db.roles : r.id # i}]
  <2> DEFINE T == {r \in db.roles : r.id # i}
  <2>1. T \in SUBSET db.roles /\ db' = [db EXCEPT !["roles"] = T]  BY <1>10
  <2> HIDE DEF T
  <2>2. IsFiniteSet(T)  BY <1>5, <2>1, FS_Subset
  <2>3. T \in SUBSET RoleRow /\ \A r, q \in T : r.name = q.name \/ r.id = q.id => r = q
    BY <1>5, <2>1
  <2>4. \A r \in T : r.id = f \/ \E q \in db.roles : q.id = r.id  BY <2>1
  <2>5. Moved(f, "written")  BY <1>10
  <2> QED  BY <1>6, <2>1, <2>2, <2>3, <2>4, <2>5
<1>11. \/ Moved(f, "refused") /\ db' = db
       \/ /\ op = "createRole" /\ ~ NameTaken(name, i) /\ Moved(f, "written")
          /\ db' = [db EXCEPT !["roles"] = db.roles \cup {[id |-> i, name |-> name, builtIn |-> FALSE]}]
       \/ /\ op = "updateRole" /\ (NameTaken(name, i) => ~ Exists("roles", i))
          /\ Moved(f, "written")
          /\ db' = [db EXCEPT !["roles"] =
                       Edited(db.roles, i, LAMBDA r : [r EXCEPT !.name = name])]
       \/ /\ Moved(f, "written")
          /\ db' = [db EXCEPT !["roles"] = {r \in db.roles : r.id # i}]
  <2>1. op \in {"createRole", "updateRole", "deleteRole"}  BY <1>3 DEF Ops
  <2>2. CASE op = "createRole"  BY <2>2 DEF WriteRole, Put
  <2>3. CASE op = "updateRole"  BY <2>3 DEF WriteRole, Put
  <2>4. CASE op = "deleteRole"  BY <2>4 DEF WriteRole, Put
  <2> QED  BY <2>1, <2>2, <2>3, <2>4
<1>12. QED  BY <1>7, <1>8, <1>9, <1>10, <1>11

\* A key is written, its creator being a user or none.
LEMMA WriteKeyInv ==
    ASSUME Inv, NEW f \in Calls, WriteKey(f)
    PROVE  Inv'
<1> DEFINE op == call[f].op
           i == call[f].id
           by == IF Exists("users", call[f].row.by) THEN call[f].row.by ELSE None
<1>1. /\ call[f].pc = "checked" /\ ListOf(op) = "keys" /\ Moved(f, "written")
      /\ UNCHANGED <<audit, unsure>> /\ UNCHANGED Kept
  BY DEF WriteKey
<1>2. CallFine(f, call[f]) /\ call[f].pc \in Going /\ f \in RealIds /\ call[f].row \in Rows
  BY <1>1, IdFacts DEF Inv, CallsOK, Going, CallRow
<1>3. op \in Ops["keys"] /\ op \notin Ops["users"] /\ i \in RealIds
  BY <1>1, <1>2, NotAboutUsers
<1>4. AuditOK' /\ UnsureOK' /\ DbOK  BY <1>1 DEF Inv, AuditOK, UnsureOK
<1>5. /\ db.keys \in SUBSET KeyRow /\ IsFiniteSet(db.keys)
      /\ \A k, h \in db.keys : k.id = h.id => k = h
  BY <1>4 DEF DbOK, Lists
<1>6. ASSUME NEW T \in SUBSET KeyRow, IsFiniteSet(T),
             \A k, h \in T : k.id = h.id => k = h,
             \A r \in T : r.id = f \/ \E q \in db.keys : q.id = r.id,
             db' = [db EXCEPT !["keys"] = T]
      PROVE  Inv'
  <2>1. DbOK' /\ db'.users = db.users /\ db'.roles = db.roles /\ db'.keys = T
    BY <1>4, <1>6, KeysWritten
  <2>2. \A l \in Lists : \A r \in db'[l] : r.id = f \/ \E q \in db[l] : q.id = r.id
    BY <1>6, <2>1 DEF Lists
  <2>3. \A u \in db.users : \E v \in db'.users : v.id = u.id  BY <2>1
  <2> QED  BY <1>1, <1>3, <1>4, <2>1, <2>2, <2>3, MovedStep
<1>7. CASE op = "createApiKey"
  <2> DEFINE k == [id |-> i, by |-> by]
  <2>1. i = f  BY <1>2, <1>7 DEF CallFine, Creating
  <2>2. by \in RealIds \cup {None}  BY <1>2 DEF Rows
  <2>3. db' = [db EXCEPT !["keys"] = db.keys \cup {k}]  BY <1>7 DEF WriteKey, Put
  <2>4. ~ InDb(f)  BY <1>1 DEF Inv, Unborn, EarlyPcs
  <2>5. \A h \in db.keys : h.id # f  BY <2>4 DEF InDb, Lists
  <2> HIDE DEF i, by
  <2>6. k \in KeyRow /\ k.id = f  BY <1>3, <2>1, <2>2 DEF KeyRow
  <2> HIDE DEF k
  <2>7. IsFiniteSet(db.keys \cup {k})  BY <1>5, FS_AddElement
  <2>8. \A h, g \in db.keys \cup {k} : h.id = g.id => h = g  BY <1>5, <2>5, <2>6
  <2>9. \A h \in db.keys \cup {k} : h.id = f \/ \E g \in db.keys : g.id = h.id  BY <2>6
  <2> DEFINE T == db.keys \cup {k}
  <2>10. T \in SUBSET KeyRow /\ db' = [db EXCEPT !["keys"] = T]  BY <1>5, <2>3, <2>6
  <2> HIDE DEF T
  <2>11. IsFiniteSet(T) /\ \A h, g \in T : h.id = g.id => h = g
    BY <2>7, <2>8 DEF T
  <2>12. \A h \in T : h.id = f \/ \E g \in db.keys : g.id = h.id  BY <2>9 DEF T
  <2> QED  BY <1>6, <2>10, <2>11, <2>12
<1>8. CASE op # "createApiKey"
  <2> DEFINE T == {k \in db.keys : k.id # i}
  <2>1. T \in SUBSET db.keys /\ db' = [db EXCEPT !["keys"] = T]
    BY <1>8 DEF WriteKey, Put
  <2> HIDE DEF T
  <2>2. IsFiniteSet(T)  BY <1>5, <2>1, FS_Subset
  <2>3. T \in SUBSET KeyRow /\ \A k, h \in T : k.id = h.id => k = h  BY <1>5, <2>1
  <2>4. \A r \in T : r.id = f \/ \E q \in db.keys : q.id = r.id  BY <2>1
  <2> QED  BY <1>6, <2>1, <2>2, <2>3, <2>4
<1>9. QED  BY <1>7, <1>8

\* The write is logged, and the row read back.
LEMMA RecordInv ==
    ASSUME Inv, NEW f \in Calls, Record(f)
    PROVE  Inv'
<1>1. /\ call[f].pc = "written" /\ UNCHANGED <<db, unsure>> /\ UNCHANGED Kept
      /\ audit' = audit \cup {<<Logged(call[f].op), call[f].id>>}
      /\ Moved(f, "refused") \/ Moved(f, "done")
  BY DEF Record
<1>2. call[f].op \notin Ops["users"] /\ call[f].id \in RealIds
  BY <1>1, NotAboutUsers DEF Going, Inv, CallsOK, CallFine
<1>3. call[f].op # "inviteUser"  BY <1>2 DEF Ops
<1>4. Logged(call[f].op) \in {"created", "updated", "deleted"}  BY DEF Logged
<1>5. AuditOK'  BY <1>1, <1>2, <1>4 DEF Inv, AuditOK
<1>6. UnsureOK' /\ DbOK'  BY <1>1 DEF Inv, UnsureOK, DbOK
<1>7. PICK pc \in {"refused", "done"} : Moved(f, pc)  BY <1>1
<1>8. /\ \A l \in Lists : \A r \in db'[l] : \E q \in db[l] : q.id = r.id
      /\ \A u \in db.users : \E v \in db'.users : v.id = u.id
  BY <1>1
<1>9. QED  BY <1>1, <1>2, <1>3, <1>5, <1>6, <1>7, <1>8, MovedStep

\* More rows the screen may be wrong about.
LEMMA UnsureMore ==
    ASSUME UnsureOK, NEW l \in Lists, NEW ids \in SUBSET RealIds, Unsure(l, ids)
    PROVE  UnsureOK' /\ \A m \in Lists : unsure'[m] = IF m = l THEN unsure[m] \cup ids ELSE unsure[m]
<1>1. unsure \in [Lists -> SUBSET RealIds] /\ unsure' = [unsure EXCEPT ![l] = @ \cup ids]
  BY DEF UnsureOK, Unsure
<1>2. unsure[l] \cup ids \in SUBSET RealIds  BY <1>1
<1>3. QED  BY <1>1, <1>2 DEF UnsureOK

\* A handler stops between two statements.
LEMMA StopInv ==
    ASSUME Inv, NEW f \in Calls, Stop(f)
    PROVE  Inv'
<1>1. /\ call[f].pc \in {"checked", "written"} /\ Moved(f, "refused")
      /\ Unsure(ListOf(call[f].op), {call[f].id}) /\ UNCHANGED <<db, audit>> /\ UNCHANGED Kept
  BY DEF Stop
<1>2. /\ call[f].id \in RealIds /\ ListOf(call[f].op) \in Lists
  BY <1>1, NotAboutUsers DEF Going
<1>3. UnsureOK'  BY <1>1, <1>2, UnsureMore DEF Inv
<1>4. DbOK' /\ AuditOK'  BY <1>1 DEF Inv, DbOK, AuditOK
<1>5. /\ \A l \in Lists : \A r \in db'[l] : \E q \in db[l] : q.id = r.id
      /\ \A u \in db.users : \E v \in db'.users : v.id = u.id
  BY <1>1
<1>6. QED  BY <1>1, <1>3, <1>4, <1>5, MovedStep

\* Another administrator changes one row.
LEMMA OtherInv ==
    ASSUME Inv, NEW f \in Calls, Other(f)
    PROVE  Inv'
<1>1. /\ call[f].pc = "idle" /\ call' = [call EXCEPT ![f] = Ended]
      /\ UNCHANGED <<screen, actor, backend, load>>
  BY DEF Other
<1>2. PICK c : c = Ended  OBVIOUS
<1>3. /\ c \in CallRow /\ c.pc = "ended" /\ c.id = None /\ CallFine(f, c)
      /\ call' = [call EXCEPT ![f] = c] /\ c.pc \notin EarlyPcs
  BY <1>1, <1>2, CallFacts DEF EarlyPcs
<1>4. KnownCall(f, c)'  BY <1>3 DEF KnownCall, Going
<1>5. DbOK /\ UnsureOK /\ AuditOK /\ f \in RealIds  BY IdFacts DEF Inv
<1>6. /\ db.users \in SUBSET UserRow /\ IsFiniteSet(db.users)
      /\ db.roles \in SUBSET RoleRow /\ IsFiniteSet(db.roles)
      /\ db.keys \in SUBSET KeyRow /\ IsFiniteSet(db.keys)
      /\ \A r, q \in db.roles : r.name = q.name \/ r.id = q.id => r = q
      /\ \A k, h \in db.keys : k.id = h.id => k = h
  BY <1>5 DEF DbOK, Lists
<1>7. ASSUME DbOK', AuditOK', UnsureOK',
             \A l \in Lists : \A r \in db'[l] : r.id = f \/ \E q \in db[l] : q.id = r.id,
             \A u \in db.users : \E v \in db'.users : v.id = u.id
      PROVE  Inv'
  BY <1>1, <1>3, <1>4, <1>7, ServerStep
<1>8. CASE \E u \in db.users :
            /\ ~UserRefused("disableUser", u.id, NoRow)
            /\ Put("users", Edited(db.users, u.id, LAMBDA v : [v EXCEPT !.active = ~@]))
            /\ Unsure("users", {u.id})
            /\ UNCHANGED audit
  <2>1. PICK u \in db.users :
            /\ ~UserRefused("disableUser", u.id, NoRow)
            /\ Put("users", Edited(db.users, u.id, LAMBDA v : [v EXCEPT !.active = ~@]))
            /\ Unsure("users", {u.id})
            /\ UNCHANGED audit
    BY <1>8
  <2>2. u.id \in RealIds  BY <1>6 DEF UserRow
  <2>3. UnsureOK' /\ AuditOK'
    <3>1. "users" \in Lists  BY DEF Lists
    <3> QED  BY <1>5, <2>1, <2>2, <3>1, UnsureMore DEF AuditOK
  <2> DEFINE g == [v \in db.users |-> IF v.id = u.id THEN [v EXCEPT !.active = ~@] ELSE v]
  <2>4. /\ g \in [db.users -> UserRow]
        /\ \A v \in db.users : g[v].id = v.id /\ g[v].email = v.email
        /\ \A v \in db.users : v.id # u.id => g[v] = v
    <3>1. ASSUME NEW v \in UserRow, NEW b \in BOOLEAN
          PROVE  /\ [v EXCEPT !.active = b] \in UserRow
                 /\ [v EXCEPT !.active = b].id = v.id
                 /\ [v EXCEPT !.active = b].email = v.email
      BY DEF UserRow
    <3>2. \A v \in db.users : v \in UserRow /\ (~v.active) \in BOOLEAN  BY <1>6
    <3>3. \A v \in db.users : /\ g[v] \in UserRow /\ g[v].id = v.id /\ g[v].email = v.email
                              /\ v.id # u.id => g[v] = v
      BY <3>1, <3>2
    <3> QED  BY <3>3
  <2>5. db' = [db EXCEPT !["users"] = {g[v] : v \in db.users}]
    BY <2>1 DEF Put, Edited
  <2> HIDE DEF g
  <2>7. /\ DbOK' /\ \A v \in db.users : \E w \in db'.users : w.id = v.id
        /\ \A w \in db'.users : \E v \in db.users : v.id = w.id
    BY <1>5, <2>4, <2>5, UsersEdited
  <2>8. db'.roles = db.roles /\ db'.keys = db.keys  BY <2>5, <1>5 DEF DbOK
  <2>9. \A l \in Lists : \A r \in db'[l] : r.id = f \/ \E q \in db[l] : q.id = r.id
    BY <2>7, <2>8 DEF Lists
  <2> QED  BY <1>7, <2>3, <2>7, <2>9
<1>9. CASE \E row \in Typed :
            /\ ~EmailTaken(row.email)
            /\ Put("users", db.users \cup {Invited(f, row)})
            /\ Unsure("users", {f})
            /\ UNCHANGED audit
  <2>1. PICK row \in Typed :
            /\ ~EmailTaken(row.email)
            /\ Put("users", db.users \cup {Invited(f, row)})
            /\ Unsure("users", {f})
            /\ UNCHANGED audit
    BY <1>9
  <2>2. UnsureOK' /\ AuditOK'
    <3>1. "users" \in Lists  BY DEF Lists
    <3> QED  BY <1>5, <2>1, <3>1, UnsureMore DEF AuditOK
  <2>3. ~ Exists("users", f)
    BY <1>1 DEF Inv, Unborn, EarlyPcs, InDb, Lists, Exists
  <2>4. db' = [db EXCEPT !["users"] = db.users \cup {Invited(f, row)}]  BY <2>1 DEF Put
  <2>5. /\ DbOK' /\ db'.users = db.users \cup {Invited(f, row)}
        /\ db'.roles = db.roles /\ db'.keys = db.keys
    BY <1>5, <2>1, <2>3, <2>4, UserInvited
  <2>6. Invited(f, row).id = f  BY DEF Invited
  <2>7. \A l \in Lists : \A r \in db'[l] : r.id = f \/ \E q \in db[l] : q.id = r.id
    BY <2>5, <2>6 DEF Lists
  <2>8. \A u \in db.users : \E v \in db'.users : v.id = u.id  BY <2>5
  <2> QED  BY <1>7, <2>2, <2>5, <2>7, <2>8
<1>10. CASE \E l \in {"roles", "keys"} : \E r \in db[l] :
            /\ l = "roles" => ~r.builtIn
            /\ Put(l, db[l] \ {r})
            /\ audit' = audit \cup {<<"deleted", r.id>>}
            /\ Unsure(l, {r.id})
  <2>1. PICK l \in {"roles", "keys"} : \E r \in db[l] :
            /\ Put(l, db[l] \ {r})
            /\ audit' = audit \cup {<<"deleted", r.id>>}
            /\ Unsure(l, {r.id})
    BY <1>10
  <2>2. PICK r \in db[l] :
            /\ Put(l, db[l] \ {r})
            /\ audit' = audit \cup {<<"deleted", r.id>>}
            /\ Unsure(l, {r.id})
    BY <2>1
  <2>3. r.id \in RealIds  BY <1>6 DEF RoleRow, KeyRow
  <2>4. UnsureOK' /\ AuditOK'
    <3>1. l \in Lists  BY DEF Lists
    <3> QED  BY <1>5, <2>2, <2>3, <3>1, UnsureMore DEF AuditOK
  <2> DEFINE T == db[l] \ {r}
  <2>5. T \in SUBSET db[l] /\ db' = [db EXCEPT ![l] = T]  BY <2>2 DEF Put
  <2> HIDE DEF T
  <2>6. IsFiniteSet(T)  BY <1>6, <2>5, FS_Subset
  <2>7. CASE l = "roles"
    <3>1. T \in SUBSET RoleRow /\ \A p, q \in T : p.name = q.name \/ p.id = q.id => p = q
      BY <1>6, <2>5, <2>7
    <3>2. DbOK' /\ db'.users = db.users /\ db'.roles = T /\ db'.keys = db.keys
      BY <1>5, <2>5, <2>6, <2>7, <3>1, RolesWritten
    <3>3. \A m \in Lists : \A p \in db'[m] : p.id = f \/ \E q \in db[m] : q.id = p.id
      BY <3>2, <2>5, <2>7 DEF Lists
    <3>4. \A u \in db.users : \E v \in db'.users : v.id = u.id  BY <3>2
    <3> QED  BY <1>7, <2>4, <3>2, <3>3, <3>4
  <2>8. CASE l = "keys"
    <3>1. T \in SUBSET KeyRow /\ \A p, q \in T : p.id = q.id => p = q
      BY <1>6, <2>5, <2>8
    <3>2. DbOK' /\ db'.users = db.users /\ db'.roles = db.roles /\ db'.keys = T
      BY <1>5, <2>5, <2>6, <2>8, <3>1, KeysWritten
    <3>3. \A m \in Lists : \A p \in db'[m] : p.id = f \/ \E q \in db[m] : q.id = p.id
      BY <3>2, <2>5, <2>8 DEF Lists
    <3>4. \A u \in db.users : \E v \in db'.users : v.id = u.id  BY <3>2
    <3> QED  BY <1>7, <2>4, <3>2, <3>3, <3>4
  <2> QED  BY <2>7, <2>8
<1>11. QED  BY <1>8, <1>9, <1>10 DEF Other

-----------------------------------------------------------------------------
(* Answers and loads *)

\* A command ends, and no id comes to the screen but its own.
LEMMA EndedStep ==
    ASSUME Inv, NEW f \in Calls, call[f].pc # "ended",
           UNCHANGED Outside, call' = [call EXCEPT ![f] = Ended],
           ScreenOK', ActorOK', UnsureOK', KnownUser(actor'),
           \A l \in Lists : \A k \in DOMAIN screen'[l] :
              \/ screen'[l][k].id \in {f, Temp(f)}
              \/ \E m \in DOMAIN screen[l] : screen[l][m].id = screen'[l][k].id,
           \A k \in DOMAIN screen'.users : KnownUser(screen'.users[k].id)
    PROVE  Inv'
<1>1. PICK c : c = Ended  OBVIOUS
<1>2. /\ c \in CallRow /\ c.pc = "ended" /\ c.id = None /\ CallFine(f, c) /\ KnownCall(f, c)
      /\ call' = [call EXCEPT ![f] = c] /\ c.pc \notin EarlyPcs
  BY <1>1, CallFacts DEF EarlyPcs
<1>3. UNCHANGED <<db, audit, backend, load>>  BY DEF Outside
<1>4. \A l \in Lists : \A k \in DOMAIN screen'[l] :
              \/ c.pc = "ended" /\ screen'[l][k].id \in {f, Temp(f)}
              \/ \E m \in DOMAIN screen[l] : screen[l][m].id = screen'[l][k].id
  BY <1>2
<1>5. QED  BY <1>2, <1>3, <1>4, BrowserStep

\* A refusal ends it and no more.
LEMMA RefuseInv ==
    ASSUME Inv, NEW f \in Calls, Refuse(f)
    PROVE  Inv'
<1>1. /\ call[f].pc = "refused" /\ call' = [call EXCEPT ![f] = Ended]
      /\ UNCHANGED <<screen, actor, unsure>> /\ UNCHANGED Outside
  BY DEF Refuse
<1>2. ScreenOK' /\ ActorOK' /\ UnsureOK' /\ KnownUser(actor') /\ KeepsIds
  BY <1>1 DEF Inv, ScreenOK, ActorOK, UnsureOK, Known, KeepsIds
<1>3. \A k \in DOMAIN screen'.users : KnownUser(screen'.users[k].id)  BY <1>2, KnownIds
<1>4. QED  BY <1>1, <1>2, <1>3, EndedStep DEF KeepsIds

\* A request is lost, or its answer.
LEMMA LoseInv ==
    ASSUME Inv, NEW f \in Calls, Lose(f)
    PROVE  Inv'
<1>1. /\ call[f].pc \in UnderWay
      /\ \/ call' = [call EXCEPT ![f] = Ended]
         \/ call' = [call EXCEPT ![f].ours = FALSE]
      /\ Unsure(ListOf(call[f].op), {call[f].id})
      /\ UNCHANGED <<screen, actor>> /\ UNCHANGED Outside
  BY DEF Lose
<1>2. call[f].pc \in Going  BY <1>1 DEF UnderWay, Going
<1>3. /\ call[f].id \in RealIds /\ ListOf(call[f].op) \in Lists
  BY <1>2, NotAboutUsers
<1>4. UnsureOK'  BY <1>1, <1>3, UnsureMore DEF Inv
<1>5. /\ ScreenOK' /\ ActorOK' /\ KnownUser(actor')
  BY <1>1 DEF Inv, ScreenOK, ActorOK, Known
<1>6. KeepsIds  BY <1>1 DEF KeepsIds
<1>7. \A k \in DOMAIN screen'.users : KnownUser(screen'.users[k].id)  BY <1>6, KnownIds
<1>8. call[f].pc # "ended"  BY <1>1 DEF UnderWay
<1>9. CASE call' = [call EXCEPT ![f] = Ended]
  BY <1>1, <1>4, <1>5, <1>6, <1>7, <1>8, <1>9, EndedStep DEF KeepsIds
<1>10. CASE call' = [call EXCEPT ![f].ours = FALSE]
  <2>1. PICK c : c = [call[f] EXCEPT !.ours = FALSE]  OBVIOUS
  <2>2. call[f] \in CallRow /\ CallFine(f, call[f]) /\ KnownCall(f, call[f])
    BY DEF Inv, CallsOK, Known
  <2>3. /\ c \in CallRow /\ c.pc = call[f].pc /\ c.op = call[f].op /\ c.id = call[f].id
        /\ c.row = call[f].row
    BY <2>1, <2>2 DEF CallRow
  <2>4. CallFine(f, c) /\ KnownCall(f, c)  BY <2>2, <2>3 DEF CallFine, KnownCall
  <2>5. call' = [call EXCEPT ![f] = c]  BY <1>10, <2>1
  <2>6. UNCHANGED <<db, audit, backend, load, screen>>  BY <1>1 DEF Outside
  <2> QED  BY <1>4, <1>5, <1>8, <2>3, <2>4, <2>5, <2>6, QuietStep
<1>11. QED  BY <1>1, <1>9, <1>10

\* What was answered is shown, or the screen keeps what it has.
Answered(f, c) ==
    CASE c.op = "inviteUser"     -> ShowInvitedUser(f, c.row)
      [] c.op = "updateUser"     -> ShowUpdatedUser(c.id, c.row)
      [] c.op = "disableUser"    -> ShowDisabledUser(c.id)
      [] c.op = "reactivateUser" -> ShowReactivatedUser(c.id)
      [] c.op = "createRole"     -> ShowCreatedRole(c.id, c.row)
      [] c.op = "updateRole"     -> ShowUpdatedRole(c.id, c.row)
      [] c.op = "deleteRole"     -> ShowDeletedRole(c.id)
      [] c.op = "createApiKey"   ->
           ShowCreatedKey(c.id, IF c.row.by = None THEN Demo ELSE c.row.by)
      [] c.op = "deleteApiKey"   -> ShowDeletedKey(c.id)

\* An answer ends the command, is shown, and is noted when the screen ignores it.
LEMMA AnswerDoes ==
    ASSUME Inv, NEW f \in Calls, Answer(f)
    PROVE  /\ call[f].pc = "done" /\ call' = [call EXCEPT ![f] = Ended]
           /\ UNCHANGED Outside /\ Answered(f, call[f])
           /\ UnsureOK'
           /\ unsure[ListOf(call[f].op)] \subseteq unsure'[ListOf(call[f].op)]
           /\ AnsweredInVain(call[f]) => call[f].id \in unsure'[ListOf(call[f].op)]
           /\ \A l \in Lists : unsure[l] \subseteq unsure'[l]
<1> DEFINE ids == IF AnsweredInVain(call[f]) THEN {call[f].id} ELSE {}
<1>1. /\ call[f].pc = "done" /\ call' = [call EXCEPT ![f] = Ended]
      /\ UNCHANGED Outside /\ Unsure(ListOf(call[f].op), ids)
  BY DEF Answer
<1>2. Answered(f, call[f])  BY DEF Answer, Answered
<1>3. call[f].id \in RealIds /\ ListOf(call[f].op) \in Lists
  BY <1>1, NotAboutUsers DEF Going
<1>4. ids \in SUBSET RealIds  BY <1>3
<1>5. AnsweredInVain(call[f]) => call[f].id \in ids  OBVIOUS
<1> HIDE DEF ids
<1>6. UnsureOK' /\ \A m \in Lists : unsure'[m] = IF m = ListOf(call[f].op) THEN unsure[m] \cup ids
                                                ELSE unsure[m]
  BY <1>1, <1>3, <1>4, UnsureMore DEF Inv
<1>7. QED  BY <1>1, <1>2, <1>3, <1>5, <1>6

\* An answer keeps the invariant, whatever it answers.
LEMMA AnswerInv ==
    ASSUME Inv, NEW f \in Calls, Answer(f)
    PROVE  Inv'
<1> DEFINE op == call[f].op
           i == call[f].id
           row == call[f].row
<1>1. /\ call[f].pc = "done" /\ call' = [call EXCEPT ![f] = Ended]
      /\ UNCHANGED Outside /\ Answered(f, call[f]) /\ UnsureOK'
  BY AnswerDoes
<1>2. /\ CallFine(f, call[f]) /\ call[f].pc \in Going /\ KnownCall(f, call[f])
      /\ call[f] \in CallRow
  BY <1>1 DEF Inv, CallsOK, Known, Going
<1>3. op \in AllOps /\ i \in RealIds /\ i \in Ids  BY <1>2, NotAboutUsers, IdFacts
<1>4. ScreenOK /\ ActorOK /\ KnownUser(actor) /\ \A k \in DOMAIN screen.users : KnownUser(screen.users[k].id)
  BY DEF Inv, Known
<1>5. ASSUME ScreenOK', ActorOK', KnownUser(actor'), KeepsIds
      PROVE  Inv'
  <2>1. \A k \in DOMAIN screen'.users : KnownUser(screen'.users[k].id)  BY <1>5, KnownIds
  <2> QED  BY <1>1, <1>5, <2>1, EndedStep DEF KeepsIds
<1>6. ASSUME InPlace(i), actor' = actor \/ \E k \in DOMAIN screen.users : actor' = screen.users[k].id
      PROVE  Inv'
  <2>1. KnownUser(actor')  BY <1>4, <1>6
  <2>2. actor' = actor \/ OnScreen(actor')  BY <1>6 DEF OnScreen, Lists
  <2>3. ActorOK'  BY <1>4, <2>2, OnScreenIds DEF ActorOK
  <2> QED  BY <1>5, <1>6, <2>1, <2>3, InPlaceKeepsIds DEF InPlace
<1>7. CASE op = "inviteUser"
  <2>1. ShowInvitedUser(f, row) /\ row \in Typed /\ Exists("users", f)
    BY <1>1, <1>2, <1>7 DEF Answered, CallFine, KnownCall
  <2> HIDE DEF op, row, i
  <2>2. /\ ScreenOK' /\ ActorOK' /\ Counted /\ screen'.keys = screen.keys
        /\ actor' \in {actor, f}
        /\ \A k \in DOMAIN screen'.users :
             \/ screen'.users[k].id \in {Temp(f), f}
             \/ \E m \in DOMAIN screen.users : screen.users[m].id = screen'.users[k].id
    BY <1>4, <2>1, InvitedUser
  <2>3. \A l \in Lists : \A k \in DOMAIN screen'[l] :
              \/ screen'[l][k].id \in {f, Temp(f)}
              \/ \E m \in DOMAIN screen[l] : screen[l][m].id = screen'[l][k].id
    BY <2>2 DEF Lists, Counted
  <2>4. KnownUser(f) /\ KnownUser(Temp(f))  BY <2>1, IdFacts DEF KnownUser
  <2>5. \A k \in DOMAIN screen'.users : KnownUser(screen'.users[k].id)
    BY <1>4, <2>2, <2>4
  <2>6. KnownUser(actor')  BY <1>4, <2>2, <2>4
  <2> QED  BY <1>1, <2>2, <2>3, <2>5, <2>6, EndedStep
<1>8. CASE op = "updateUser"
  <2>1. ShowUpdatedUser(i, row) /\ row \in Typed
    BY <1>1, <1>2, <1>8 DEF Answered, CallFine
  <2> HIDE DEF op, row, i
  <2> QED  BY <1>4, <1>6, <2>1, UpdatedUser
<1>9. CASE op = "disableUser"
  <2>1. ShowDisabledUser(i)  BY <1>1, <1>9 DEF Answered
  <2> HIDE DEF op, row, i
  <2> QED  BY <1>4, <1>6, <2>1, DisabledUser
<1>10. CASE op = "reactivateUser"
  <2>1. ShowReactivatedUser(i)  BY <1>1, <1>10 DEF Answered
  <2> HIDE DEF op, row, i
  <2> QED  BY <1>4, <1>6, <2>1, ReactivatedUser
<1>11. CASE op = "createRole"
  <2>1. ShowCreatedRole(i, row) /\ row.name \in RoleNames /\ i = f
    BY <1>1, <1>2, <1>11 DEF Answered, CallFine, Creating
  <2> HIDE DEF op, row, i
  <2>2. /\ ScreenOK' /\ actor' = actor
        /\ screen'.users = screen.users /\ screen'.keys = screen.keys
        /\ \E r : screen'.roles = Append(screen.roles, r) /\ r.id = i
    BY <1>3, <1>4, <2>1, CreatedRole
  <2>3. PICK r : screen'.roles = Append(screen.roles, r) /\ r.id = i  BY <2>2
  <2>4. screen.roles \in Seq(ShownRole)  BY <1>4 DEF ScreenOK
  <2>5. \A k \in DOMAIN screen'.roles : \/ screen'.roles[k].id = f
                                       \/ \E m \in DOMAIN screen.roles :
                                            screen.roles[m] = screen'.roles[k]
    BY <2>1, <2>3, <2>4
  <2>6. \A l \in Lists : \A k \in DOMAIN screen'[l] :
              \/ screen'[l][k].id \in {f, Temp(f)}
              \/ \E m \in DOMAIN screen[l] : screen[l][m].id = screen'[l][k].id
    BY <2>2, <2>5 DEF Lists
  <2>7. ActorOK' /\ KnownUser(actor') /\ \A k \in DOMAIN screen'.users : KnownUser(screen'.users[k].id)
    BY <1>4, <2>2 DEF ActorOK
  <2> QED  BY <1>1, <2>2, <2>6, <2>7, EndedStep
<1>12. CASE op = "updateRole"
  <2>1. ShowUpdatedRole(i, row) /\ row.name \in RoleNames
    BY <1>1, <1>2, <1>12 DEF Answered, CallFine
  <2> HIDE DEF op, row, i
  <2>2. /\ ScreenOK' /\ actor' = actor
        /\ screen'.users = screen.users /\ screen'.keys = screen.keys
        /\ DOMAIN screen'.roles = DOMAIN screen.roles
        /\ \A k \in DOMAIN screen.roles : screen'.roles[k].id = screen.roles[k].id
    BY <1>4, <2>1, UpdatedRole
  <2>3. KeepsIds  BY <2>2 DEF KeepsIds, Lists
  <2>4. ActorOK' /\ KnownUser(actor')  BY <1>4, <2>2 DEF ActorOK
  <2> QED  BY <1>5, <2>2, <2>3, <2>4
<1>13. CASE op = "deleteRole"
  <2> DEFINE at == {k \in DOMAIN screen.roles :
                      screen.roles[k].id # i \/ screen.roles[k].builtIn}
  <2>1. ShowDeletedRole(i)  BY <1>1, <1>13 DEF Answered
  <2> HIDE DEF op, row, i
  <2>2. /\ ScreenOK' /\ actor' = actor
        /\ screen'.users = screen.users /\ screen'.keys = screen.keys
        /\ screen'.roles = Only(screen.roles, at)
    BY <1>4, <2>1, DeletedRole
  <2>3. at \in SUBSET DOMAIN screen.roles /\ screen.roles \in Seq(ShownRole)
    BY <1>4 DEF ScreenOK
  <2> HIDE DEF at
  <2>4. \A k \in DOMAIN screen'.roles : \E m \in DOMAIN screen.roles :
           screen.roles[m].id = screen'.roles[k].id
    BY <2>2, <2>3, OnlyKeepsIds
  <2>5. KeepsIds  BY <2>2, <2>4 DEF KeepsIds, Lists
  <2>6. ActorOK' /\ KnownUser(actor')  BY <1>4, <2>2 DEF ActorOK
  <2> QED  BY <1>5, <2>2, <2>5, <2>6
<1>14. CASE op = "createApiKey"
  <2> DEFINE by == IF row.by = None THEN Demo ELSE row.by
  <2>1. ShowCreatedKey(i, by) /\ i = f
    BY <1>1, <1>2, <1>14 DEF Answered, CallFine, Creating
  <2>2. by \in Ids  BY <1>2, IdFacts DEF CallRow, Rows
  <2> HIDE DEF op, row, i, by
  <2>3. /\ ScreenOK' /\ actor' = actor
        /\ screen'.users = screen.users /\ screen'.roles = screen.roles
        /\ screen'.keys = <<[id |-> i, by |-> by]>> \o screen.keys
    BY <1>3, <1>4, <2>1, <2>2, CreatedKey
  <2>4. screen.keys \in Seq(ShownKey)  BY <1>4 DEF ScreenOK
  <2>5. \A k \in DOMAIN screen'.keys : \/ screen'.keys[k].id = f
                                      \/ \E m \in DOMAIN screen.keys :
                                           screen.keys[m] = screen'.keys[k]
    <3> DEFINE r == [id |-> i, by |-> by]
    <3>1. r.id = f  BY <2>1
    <3> HIDE DEF r
    <3>2. screen'.keys = <<r>> \o screen.keys  BY <2>3 DEF r
    <3>3. QED  BY <2>4, <3>1, <3>2
  <2>6. \A l \in Lists : \A k \in DOMAIN screen'[l] :
              \/ screen'[l][k].id \in {f, Temp(f)}
              \/ \E m \in DOMAIN screen[l] : screen[l][m].id = screen'[l][k].id
    BY <2>3, <2>5 DEF Lists
  <2>7. ActorOK' /\ KnownUser(actor') /\ \A k \in DOMAIN screen'.users : KnownUser(screen'.users[k].id)
    BY <1>4, <2>3 DEF ActorOK
  <2> QED  BY <1>1, <2>3, <2>6, <2>7, EndedStep
<1>15. CASE op = "deleteApiKey"
  <2> DEFINE at == {k \in DOMAIN screen.keys : screen.keys[k].id # i}
  <2>1. ShowDeletedKey(i)  BY <1>1, <1>15 DEF Answered
  <2> HIDE DEF op, row, i
  <2>2. /\ ScreenOK' /\ actor' = actor
        /\ screen'.users = screen.users /\ screen'.roles = screen.roles
        /\ screen'.keys = Only(screen.keys, at)
    BY <1>4, <2>1, DeletedKey
  <2>3. at \in SUBSET DOMAIN screen.keys /\ screen.keys \in Seq(ShownKey)
    BY <1>4 DEF ScreenOK
  <2> HIDE DEF at
  <2>4. \A k \in DOMAIN screen'.keys : \E m \in DOMAIN screen.keys :
           screen.keys[m].id = screen'.keys[k].id
    BY <2>2, <2>3, OnlyKeepsIds
  <2>5. KeepsIds  BY <2>2, <2>4 DEF KeepsIds, Lists
  <2>6. ActorOK' /\ KnownUser(actor')  BY <1>4, <2>2 DEF ActorOK
  <2> QED  BY <1>5, <2>2, <2>5, <2>6
<1>16. QED
  BY <1>3, <1>7, <1>8, <1>9, <1>10, <1>11, <1>12, <1>13, <1>14, <1>15 DEF AllOps

\* Commands are about rows with ids of the server.
LEMMA CallsOnReal ==
    ASSUME Inv, NEW l, NEW pcs \in SUBSET UnderWay
    PROVE  CallsOn(l, pcs) \in SUBSET RealIds
<1>1. \A f \in Calls : call[f].pc \in pcs => call[f].id \in RealIds
  BY NotAboutUsers DEF UnderWay, Going
<1>2. QED  BY <1>1 DEF CallsOn

\* All lists are asked for, and the screen is unsure of what is under way.
LEMMA AskedAll ==
    ASSUME Inv, NEW pcs \in SUBSET UnderWay, AskAll(pcs)
    PROVE  /\ LoadOK' /\ UnsureOK'
           /\ \A l \in Lists : /\ load'[l].pc = "asked" /\ load'[l].rows = {}
                               /\ unsure'[l] = CallsOn(l, pcs)
<1>1. load' = [l \in Lists |-> Asked] /\ unsure' = [l \in Lists |-> CallsOn(l, pcs)]
  BY DEF AskAll
<1>2. Asked.pc = "asked" /\ Asked.rows = {}
      /\ Asked \in [pc : {"due", "asked", "read", "failed", "done"},
                    rows : SUBSET (UserRow \cup RoleRow \cup KeyRow)]
  BY DEF Asked
<1>3. IsFiniteSet({})  BY FS_EmptySet
<1>4. \A l \in Lists : load'[l] = Asked  BY <1>1
<1>5. LoadOK'  BY <1>1, <1>2, <1>3, <1>4 DEF LoadOK, Lists
<1>6. UnsureOK'  BY <1>1, CallsOnReal DEF UnsureOK
<1>7. QED  BY <1>1, <1>2, <1>4, <1>5, <1>6

\* The backend is found.
LEMMA FindBackendInv ==
    ASSUME Inv, FindBackend
    PROVE  Inv'
<1>1. AskAll(UnderWay) /\ UNCHANGED <<db, audit, screen, actor, call>>  BY DEF FindBackend
<1>2. /\ LoadOK' /\ UnsureOK' /\ \A l \in Lists : load'[l].rows = {}  BY <1>1, AskedAll
<1>3. QED  BY <1>1, <1>2, LoadStep

\* A list that was read is shown, or not taken: it is empty, or was not read.
Taken(l) ==
    /\ load[l].pc = "read"
    /\ load' = [load EXCEPT ![l] = [pc |-> "done", rows |-> {}]]
    /\ CASE l = "users" -> SyncUsers(load[l].rows)
         [] l = "roles" -> SyncRoles(load[l].rows)
         [] l = "keys"  -> SyncKeys(load[l].rows)
    /\ UNCHANGED <<db, audit, backend, call, unsure>>
Missed(l) ==
    /\ load[l].pc \in {"asked", "read"}
    /\ load' = [load EXCEPT ![l] = [pc |-> "failed", rows |-> {}]]
    /\ UNCHANGED <<db, audit, screen, actor, backend, call, unsure>>

\* These are the two ways a load ends.
LEMMA LoadEnds ==
    ASSUME NEW l \in Lists
    PROVE  /\ LoadFails(l) => Missed(l)
           /\ ShowList(l) => Taken(l) \/ Missed(l)
<1>1. LoadFails(l) => Missed(l)  BY DEF LoadFails, Missed
<1>2. CASE l # "keys" /\ load[l].rows = {}  BY <1>1, <1>2 DEF ShowList, Missed
<1>3. CASE ~ (l # "keys" /\ load[l].rows = {})  BY <1>1, <1>3 DEF ShowList, Taken
<1>4. QED  BY <1>2, <1>3

\* A list is read, or not taken.
LEMMA ListRowsInv ==
    ASSUME Inv, NEW l \in Lists, ListRows(l) \/ Missed(l)
    PROVE  Inv'
<1>1. UNCHANGED <<db, audit, screen, actor, call>> /\ unsure' = unsure
  BY DEF ListRows, Missed
<1>2. PICK x : /\ x \in {[pc |-> "read", rows |-> db[l]], [pc |-> "failed", rows |-> {}]}
               /\ load' = [load EXCEPT ![l] = x]
  BY DEF ListRows, Missed
<1>3. DbOK /\ LoadOK  BY DEF Inv
<1>4. IsFiniteSet({})  BY FS_EmptySet
<1>5. /\ db.users \in SUBSET UserRow /\ db.roles \in SUBSET RoleRow /\ db.keys \in SUBSET KeyRow
      /\ \A m \in Lists : IsFiniteSet(db[m])
      /\ \A m \in Lists : \A r, q \in db[m] : r.id = q.id => r = q
  BY <1>3 DEF DbOK, Lists
<1>6. /\ x \in [pc : {"due", "asked", "read", "failed", "done"},
                rows : SUBSET (UserRow \cup RoleRow \cup KeyRow)]
      /\ x.rows \in {db[l], {}}
  BY <1>2, <1>5 DEF Lists
<1>7. load'[l] = x /\ \A m \in Lists : m # l => load'[m] = load[m]  BY <1>2, <1>3 DEF LoadOK
<1>8. load' \in [Lists -> [pc : {"due", "asked", "read", "failed", "done"},
                           rows : SUBSET (UserRow \cup RoleRow \cup KeyRow)]]
  BY <1>2, <1>3, <1>6 DEF LoadOK
<1>9. /\ load'["users"].rows \subseteq UserRow
      /\ load'["roles"].rows \subseteq RoleRow
      /\ load'["keys"].rows \subseteq KeyRow
  BY <1>3, <1>5, <1>6, <1>7 DEF LoadOK, Lists
<1>10. \A m \in Lists : /\ IsFiniteSet(load'[m].rows)
                        /\ \A r, q \in load'[m].rows : r.id = q.id => r = q
  BY <1>3, <1>4, <1>5, <1>6, <1>7 DEF LoadOK
<1>11. LoadOK'  BY <1>8, <1>9, <1>10 DEF LoadOK
<1>12. UnsureOK'  BY <1>1 DEF Inv, UnsureOK
<1>13. \A m \in Lists : \A r \in load'[m].rows : r \in load[m].rows \/ r \in db[m]
  BY <1>6, <1>7
<1>14. QED  BY <1>1, <1>11, <1>12, <1>13, LoadStep

\* A list that was read is shown.
LEMMA TakenInv ==
    ASSUME Inv, NEW l \in Lists, Taken(l)
    PROVE  Inv'
<1>1. /\ load[l].pc = "read" /\ load' = [load EXCEPT ![l] = [pc |-> "done", rows |-> {}]]
      /\ UNCHANGED <<db, audit, backend, call, unsure>>
  BY DEF Taken
<1>2. ScreenOK /\ ActorOK /\ LoadOK /\ Known  BY DEF Inv
<1> DEFINE rows == load[l].rows
<1>3. /\ IsFiniteSet(rows) /\ \A r, q \in rows : r.id = q.id => r = q
  BY <1>2 DEF LoadOK
<1>4. /\ ScreenOK' /\ ActorOK'
      /\ \A m \in Lists : \A k \in DOMAIN screen'[m] :
           \/ m = l /\ \E r \in rows : screen'[m][k].id = r.id
           \/ \E h \in DOMAIN screen[m] : screen[m][h].id = screen'[m][k].id
      /\ \/ actor' = actor
         \/ l = "users" /\ \E r \in rows : actor' = r.id
  <2>1. CASE l = "users"
    <3>1. SyncUsers(rows) /\ rows \in SUBSET UserRow
      BY <1>2, <2>1 DEF Taken, LoadOK
    <3> HIDE DEF rows
    <3>2. /\ ScreenOK' /\ ActorOK'
          /\ screen'.roles = screen.roles /\ screen'.keys = screen.keys
          /\ actor' = actor \/ \E r \in rows : actor' = r.id
          /\ \A k \in DOMAIN screen'.users :
               \/ \E r \in rows : screen'.users[k].id = r.id
               \/ \E m \in DOMAIN screen.users : screen.users[m].id = screen'.users[k].id
      BY <1>2, <1>3, <3>1, SyncedUsers
    <3>3. /\ "users" \in Lists /\ screen'["users"] = screen'.users /\ screen["users"] = screen.users
          /\ \A m \in Lists : m # "users" => screen'[m] = screen[m]
      BY <3>2 DEF Lists
    <3>5. ASSUME NEW m \in Lists, NEW k \in DOMAIN screen'[m]
          PROVE  \/ m = l /\ \E r \in rows : screen'[m][k].id = r.id
                 \/ \E h \in DOMAIN screen[m] : screen[m][h].id = screen'[m][k].id
      <4>1. CASE m = "users"
        <5>1. k \in DOMAIN screen'.users /\ screen'[m][k] = screen'.users[k]  BY <3>3, <4>1, <3>5
        <5> QED  BY <3>2, <3>3, <4>1, <5>1, <2>1
      <4>2. CASE m # "users"  BY <3>3, <4>2, <3>5
      <4> QED  BY <4>1, <4>2
    <3> QED  BY <3>2, <3>5, <2>1
  <2>2. CASE l = "roles"
    <3>1. SyncRoles(rows) /\ rows \in SUBSET RoleRow
      BY <1>2, <2>2 DEF Taken, LoadOK
    <3> HIDE DEF rows
    <3>2. /\ ScreenOK' /\ actor' = actor
          /\ screen'.users = screen.users /\ screen'.keys = screen.keys
          /\ \A k \in DOMAIN screen'.roles :
               \/ \E r \in rows : screen'.roles[k].id = r.id
               \/ \E m \in DOMAIN screen.roles : screen.roles[m].id = screen'.roles[k].id
      BY <1>2, <1>3, <3>1, SyncedRoles
    <3>3. /\ "roles" \in Lists /\ screen'["roles"] = screen'.roles /\ screen["roles"] = screen.roles
          /\ \A m \in Lists : m # "roles" => screen'[m] = screen[m]
      BY <3>2 DEF Lists
    <3>4. ActorOK'  BY <1>2, <3>2 DEF ActorOK
    <3>5. ASSUME NEW m \in Lists, NEW k \in DOMAIN screen'[m]
          PROVE  \/ m = l /\ \E r \in rows : screen'[m][k].id = r.id
                 \/ \E h \in DOMAIN screen[m] : screen[m][h].id = screen'[m][k].id
      <4>1. CASE m = "roles"
        <5>1. k \in DOMAIN screen'.roles /\ screen'[m][k] = screen'.roles[k]  BY <3>3, <4>1, <3>5
        <5> QED  BY <3>2, <3>3, <4>1, <5>1, <2>2
      <4>2. CASE m # "roles"  BY <3>3, <4>2, <3>5
      <4> QED  BY <4>1, <4>2
    <3> QED  BY <3>2, <3>5, <3>4, <2>2
  <2>3. CASE l = "keys"
    <3>1. SyncKeys(rows) /\ rows \in SUBSET KeyRow
      BY <1>2, <2>3 DEF Taken, LoadOK
    <3> HIDE DEF rows
    <3>2. /\ ScreenOK' /\ actor' = actor
          /\ screen'.users = screen.users /\ screen'.roles = screen.roles
          /\ \A k \in DOMAIN screen'.keys :
               \/ \E r \in rows : screen'.keys[k].id = r.id
               \/ \E m \in DOMAIN screen.keys : screen.keys[m].id = screen'.keys[k].id
      BY <1>2, <1>3, <3>1, SyncedKeys
    <3>3. /\ "keys" \in Lists /\ screen'["keys"] = screen'.keys /\ screen["keys"] = screen.keys
          /\ \A m \in Lists : m # "keys" => screen'[m] = screen[m]
      BY <3>2 DEF Lists
    <3>4. ActorOK'  BY <1>2, <3>2 DEF ActorOK
    <3>5. ASSUME NEW m \in Lists, NEW k \in DOMAIN screen'[m]
          PROVE  \/ m = l /\ \E r \in rows : screen'[m][k].id = r.id
                 \/ \E h \in DOMAIN screen[m] : screen[m][h].id = screen'[m][k].id
      <4>1. CASE m = "keys"
        <5>1. k \in DOMAIN screen'.keys /\ screen'[m][k] = screen'.keys[k]  BY <3>3, <4>1, <3>5
        <5> QED  BY <3>2, <3>3, <4>1, <5>1, <2>3
      <4>2. CASE m # "keys"  BY <3>3, <4>2, <3>5
      <4> QED  BY <4>1, <4>2
    <3> QED  BY <3>2, <3>5, <3>4, <2>3
  <2> QED  BY <2>1, <2>2, <2>3 DEF Lists
<1> DEFINE x == [pc |-> "done", rows |-> {}]
<1>5. /\ load'[l].pc = "done" /\ load'[l].rows = {}
      /\ \A m \in Lists : m # l => load'[m] = load[m]
      /\ x \in [pc : {"due", "asked", "read", "failed", "done"},
                rows : SUBSET (UserRow \cup RoleRow \cup KeyRow)]
  BY <1>1, <1>2 DEF LoadOK
<1>6. LoadOK'
  <2>1. load' \in [Lists -> [pc : {"due", "asked", "read", "failed", "done"},
                             rows : SUBSET (UserRow \cup RoleRow \cup KeyRow)]]
    BY <1>1, <1>2, <1>5 DEF LoadOK
  <2>2. IsFiniteSet({})  BY FS_EmptySet
  <2>3. /\ load'["users"].rows \subseteq UserRow
        /\ load'["roles"].rows \subseteq RoleRow
        /\ load'["keys"].rows \subseteq KeyRow
    BY <1>2, <1>5 DEF LoadOK, Lists
  <2>4. \A m \in Lists : /\ IsFiniteSet(load'[m].rows)
                         /\ \A r, q \in load'[m].rows : r.id = q.id => r = q
    BY <1>2, <1>5, <2>2 DEF LoadOK
  <2> QED  BY <2>1, <2>3, <2>4 DEF LoadOK
<1> HIDE DEF x
<1>7. CallsOK' /\ DbOK' /\ UnsureOK' /\ AuditOK'
  BY <1>1 DEF Inv, CallsOK, DbOK, UnsureOK, AuditOK
<1>8. \A y : OnScreen(y)' => OnScreen(y) \/ \E r \in rows : r.id = y
  BY <1>4 DEF OnScreen
<1>9. Unborn'
  <2>1. SUFFICES ASSUME NEW g \in Calls, call[g].pc \in EarlyPcs
                 PROVE  /\ ~ InDb(g)' /\ ~ OnScreen(g)' /\ ~ InLoad(g)'
                        /\ \A h \in Calls \ {g} : call[h].id # g
    BY <1>1 DEF Unborn
  <2>2. /\ ~ InDb(g) /\ ~ OnScreen(g) /\ ~ InLoad(g)
        /\ \A h \in Calls \ {g} : call[h].id # g
    BY <2>1 DEF Inv, Unborn
  <2>3. ~ InDb(g)'  BY <2>2, <1>1 DEF InDb
  <2>4. ~ InLoad(g)'  BY <2>2, <1>5 DEF InLoad
  <2>5. ~ \E r \in rows : r.id = g  BY <2>2 DEF InLoad
  <2>6. ~ OnScreen(g)'  BY <2>2, <2>5, <1>8
  <2>7. QED  BY <2>2, <2>3, <2>4, <2>6
<1>10. ASSUME NEW r \in rows
       PROVE  r.id \in RealIds
  BY <1>2 DEF LoadOK, UserRow, RoleRow, KeyRow, Lists
<1>11. TempFree'
  <2>1. SUFFICES ASSUME NEW f \in Calls, call[f].pc # "ended",
                        NEW k \in DOMAIN screen'.users, screen'.users[k].id = Temp(f)
                 PROVE  FALSE
    BY <1>1 DEF TempFree
  <2>2. \A h \in DOMAIN screen.users : screen.users[h].id # Temp(f)
    BY <2>1 DEF Inv, TempFree
  <2>3. \E r \in rows : r.id = Temp(f)
    <3>1. "users" \in Lists /\ screen'["users"] = screen'.users /\ screen["users"] = screen.users
      BY DEF Lists
    <3> HIDE DEF rows
    <3> QED  BY <1>4, <2>1, <2>2, <3>1
  <2>4. QED  BY <2>3, <1>10, IdFacts
<1>12. Known'
  <2>1. \A y : KnownUser(y)' <=> KnownUser(y)  BY <1>1 DEF KnownUser, Exists
  <2>2. /\ KnownUser(actor) /\ \A k \in DOMAIN screen.users : KnownUser(screen.users[k].id)
        /\ \A r \in load["users"].rows : KnownUser(r.id)
        /\ \A f \in Calls : KnownCall(f, call[f])
    BY <1>2 DEF Known
  <2>3. KnownUser(actor')  BY <1>4, <2>2
  <2>4. \A k \in DOMAIN screen'.users : KnownUser(screen'.users[k].id)
    <3>1. "users" \in Lists  BY DEF Lists
    <3>2. \A k \in DOMAIN screen'.users :
             \/ \E r \in load["users"].rows : screen'.users[k].id = r.id
             \/ \E h \in DOMAIN screen.users : screen.users[h].id = screen'.users[k].id
      BY <1>4, <3>1
    <3> QED  BY <2>2, <3>2
  <2>5. \A r \in load'["users"].rows : KnownUser(r.id)  BY <1>5, <2>2 DEF Lists
  <2>6. \A f \in Calls : KnownCall(f, call[f])'  BY <1>1, <2>2 DEF KnownCall, Exists
  <2>7. KnownUser(actor)'  BY <2>3, <1>1 DEF KnownUser, Exists
  <2>8. \A k \in DOMAIN screen'.users : KnownUser(screen.users[k].id)'
    BY <2>4, <1>1 DEF KnownUser, Exists
  <2>9. \A r \in load'["users"].rows : KnownUser(r.id)'
    BY <2>5, <1>1 DEF KnownUser, Exists
  <2> QED  BY <2>6, <2>7, <2>8, <2>9 DEF Known
<1>13. QED  BY <1>4, <1>6, <1>7, <1>9, <1>11, <1>12 DEF Inv

\* A reload ends what waits in the browser, and leaves the handlers alone.
LEMMA ReloadDoes ==
    ASSUME Inv, NEW f \in Calls, Reload(f)
    PROVE  /\ UNCHANGED <<db, audit, screen, actor, backend>>
           /\ AskAll({"sent", "checked", "written"})
           /\ call' \in [Calls -> CallRow]
           /\ \A g \in Calls :
                \/ call'[g] = Ended
                \/ /\ call[g].pc \in {"idle", "sent", "checked", "written", "ended"}
                   /\ call'[g].pc = call[g].pc /\ call'[g].op = call[g].op
                   /\ call'[g].id = call[g].id /\ call'[g].row = call[g].row
                   /\ call'[g].pc \in {"sent", "checked", "written"} => ~ call'[g].ours
<1> DEFINE c == [g \in Calls |->
                  CASE g = f \/ call[g].pc \in {"typing", "done", "refused"} -> Ended
                    [] call[g].pc \in {"sent", "checked", "written"} -> [call[g] EXCEPT !.ours = FALSE]
                    [] OTHER -> call[g]]
<1>1. call' = c /\ UNCHANGED <<db, audit, screen, actor, backend>>
      /\ AskAll({"sent", "checked", "written"})
  BY DEF Reload
<1>2. \A g \in Calls : call[g] \in CallRow  BY DEF Inv, CallsOK
<1>3. ASSUME NEW g \in Calls
      PROVE  /\ c[g] \in CallRow
             /\ \/ c[g] = Ended
                \/ /\ call[g].pc \in {"idle", "sent", "checked", "written", "ended"}
                   /\ c[g].pc = call[g].pc /\ c[g].op = call[g].op
                   /\ c[g].id = call[g].id /\ c[g].row = call[g].row
                   /\ c[g].pc \in {"sent", "checked", "written"} => ~ c[g].ours
  <2>1. call[g] \in CallRow /\ Ended \in CallRow  BY <1>2, CallFacts
  <2>2. [call[g] EXCEPT !.ours = FALSE] \in CallRow  BY <2>1 DEF CallRow
  <2>3. CASE g = f \/ call[g].pc \in {"typing", "done", "refused"}
    <3>0. call[f].pc = "idle"  BY DEF Reload
    <3>1. c[g] = Ended  BY <2>3, <3>0
    <3> QED  BY <3>1, <2>1
  <2>4. CASE g # f /\ call[g].pc \in {"sent", "checked", "written"}
    <3>1. c[g] = [call[g] EXCEPT !.ours = FALSE]  BY <2>4
    <3> HIDE DEF c
    <3> QED  BY <3>1, <2>1, <2>2, <2>4 DEF CallRow
  <2>5. CASE g # f /\ call[g].pc \in {"idle", "ended"}
    <3>1. c[g] = call[g]  BY <2>5
    <3> HIDE DEF c
    <3> QED  BY <3>1, <2>1, <2>5
  <2> QED  BY <2>1, <2>3, <2>4, <2>5 DEF CallRow, Pcs
<1>4. c \in [Calls -> CallRow]
  <2>1. \A g \in Calls : c[g] \in CallRow  BY <1>3
  <2>2. c = [g \in Calls |-> c[g]]  OBVIOUS
  <2> HIDE DEF c
  <2> QED  BY <2>1, <2>2
<1> HIDE DEF c
<1>5. QED  BY <1>1, <1>3, <1>4

\* A reload keeps the invariant.
LEMMA ReloadInv ==
    ASSUME Inv, NEW f \in Calls, Reload(f)
    PROVE  Inv'
<1>1. /\ UNCHANGED <<db, audit, screen, actor, backend>>
      /\ AskAll({"sent", "checked", "written"})
      /\ call' \in [Calls -> CallRow]
      /\ \A g \in Calls :
                \/ call'[g] = Ended
                \/ /\ call'[g].pc = call[g].pc /\ call'[g].op = call[g].op
                   /\ call'[g].id = call[g].id /\ call'[g].row = call[g].row
  BY ReloadDoes
<1>2. {"sent", "checked", "written"} \in SUBSET UnderWay  BY DEF UnderWay
<1>3. LoadOK' /\ UnsureOK' /\ \A l \in Lists : load'[l].rows = {}
  BY <1>1, <1>2, AskedAll
<1>4. ASSUME NEW g \in Calls
      PROVE  CallFine(g, call'[g]) /\ KnownCall(g, call'[g])
  <2>1. CallFine(g, call[g]) /\ KnownCall(g, call[g])  BY DEF Inv, CallsOK, Known
  <2>2. CASE call'[g] = Ended  BY <2>2, CallFacts
  <2>3. CASE /\ call'[g].pc = call[g].pc /\ call'[g].op = call[g].op
             /\ call'[g].id = call[g].id /\ call'[g].row = call[g].row
    BY <2>1, <2>3 DEF CallFine, KnownCall
  <2> QED  BY <1>1, <2>2, <2>3
<1>5. CallsOK' /\ DbOK' /\ ScreenOK' /\ ActorOK' /\ AuditOK'
  BY <1>1, <1>4 DEF Inv, CallsOK, DbOK, ScreenOK, ActorOK, AuditOK
<1>6. \A g \in Calls : /\ call'[g].pc # "ended" => call'[g].pc = call[g].pc
                       /\ call'[g].id \in {None, call[g].id}
  BY <1>1, CallFacts
<1>7. Unborn'
  <2>1. SUFFICES ASSUME NEW g \in Calls, call'[g].pc \in EarlyPcs
                 PROVE  /\ ~ InDb(g)' /\ ~ OnScreen(g)' /\ ~ InLoad(g)'
                        /\ \A h \in Calls \ {g} : call'[h].id # g
    BY DEF Unborn
  <2>2. call[g].pc \in EarlyPcs  BY <2>1, <1>6 DEF EarlyPcs
  <2>3. /\ ~ InDb(g) /\ ~ OnScreen(g)
        /\ \A h \in Calls \ {g} : call[h].id # g
    BY <2>2 DEF Inv, Unborn
  <2>4. ~ InDb(g)' /\ ~ OnScreen(g)'  BY <2>3, <1>1 DEF InDb, OnScreen
  <2>5. ~ InLoad(g)'  BY <1>3 DEF InLoad
  <2>6. g # None  BY IdFacts, IdsAssumption
  <2>7. \A h \in Calls \ {g} : call'[h].id # g  BY <2>3, <2>6, <1>6
  <2> QED  BY <2>4, <2>5, <2>7
<1>8. TempFree'
  <2>1. \A g \in Calls : call'[g].pc # "ended" => call[g].pc # "ended"  BY <1>6
  <2> QED  BY <2>1, <1>1 DEF Inv, TempFree
<1>9. Known'
  <2>1. Known  BY DEF Inv
  <2>2. \A g \in Calls : KnownCall(g, call[g])'
    BY <1>1, <1>4 DEF KnownCall, Exists
  <2>3. load'["users"].rows = {}  BY <1>3 DEF Lists
  <2> QED  BY <1>1, <2>1, <2>2, <2>3 DEF Known, KnownUser, Exists
<1>10. QED  BY <1>3, <1>5, <1>7, <1>8, <1>9 DEF Inv

\* The invariant holds at first: made-up rows here, seeded rows there.
LEMMA InitInv ==
    ASSUME Init
    PROVE  Inv
<1>1. /\ db = [users |-> SeedUsers, roles |-> SeedRoles, keys |-> SeedKeys]
      /\ audit = {}
      /\ screen = [users |-> MadeUsers, roles |-> SyncRoleUserCounts(MadeUsers, MadeRoles),
                   keys |-> MadeKeys]
      /\ actor = Demo
      /\ load = [l \in Lists |-> [pc |-> "due", rows |-> {}]]
      /\ call = [f \in Calls |-> Idle]
      /\ unsure = [l \in Lists |-> {}]
  BY DEF Init
<1>2. CallsOK
  <2>1. \A f \in Calls : call[f] = Idle  BY <1>1
  <2> QED  BY <1>1, <2>1, CallFacts DEF CallsOK
<1>3. DbOK
  BY <1>1, SeedAssumption DEF DbOK, Lists
<1>4. /\ DOMAIN screen.roles = DOMAIN MadeRoles
      /\ \A k \in DOMAIN MadeRoles : screen.roles[k].id = MadeRoles[k].id
      /\ ScreenOK
  <2> DEFINE t == SyncRoleUserCounts(MadeUsers, MadeRoles)
  <2>1. t \in Seq(ShownRole) /\ DOMAIN t = DOMAIN MadeRoles
        /\ \A k \in DOMAIN MadeRoles : t[k].id = MadeRoles[k].id
    BY MadeAssumption, SyncedCounts
  <2> HIDE DEF t
  <2>2. screen = [users |-> MadeUsers, roles |-> t, keys |-> MadeKeys]  BY <1>1 DEF t
  <2> QED  BY <2>1, <2>2, MadeAssumption DEF ScreenOK
<1>5. ActorOK /\ AuditOK  BY <1>1, IdFacts DEF ActorOK, AuditOK
<1>6. LoadOK
  <2>1. IsFiniteSet({})  BY FS_EmptySet
  <2>2. \A l \in Lists : load[l].rows = {}  BY <1>1
  <2>3. load \in [Lists -> [pc : {"due", "asked", "read", "failed", "done"},
                            rows : SUBSET (UserRow \cup RoleRow \cup KeyRow)]]
    BY <1>1
  <2> QED  BY <2>1, <2>2, <2>3 DEF LoadOK, Lists
<1>7. UnsureOK  BY <1>1 DEF UnsureOK
<1>8. \A x : OnScreen(x) => x \in MadeIds
  BY <1>1, <1>4 DEF OnScreen, MadeIds, Lists, Range
<1>9. \A x : InDb(x) => x \in {r.id : r \in SeedUsers \cup SeedRoles \cup SeedKeys}
  BY <1>1 DEF InDb, Lists
<1>10. \A x : ~ InLoad(x)  BY <1>1 DEF InLoad
<1>11. Unborn
  <2>1. SUFFICES ASSUME NEW f \in Calls
                 PROVE  /\ ~ InDb(f) /\ ~ OnScreen(f) /\ ~ InLoad(f)
                        /\ \A g \in Calls \ {f} : call[g].id # f
    BY DEF Unborn
  <2>2. f \notin MadeIds /\ f # None  BY IdFacts, IdsAssumption
  <2>3. ~ InDb(f)  BY <1>9, IdsAssumption
  <2>4. \A g \in Calls : call[g].id = None  BY <1>1, CallFacts
  <2> QED  BY <2>2, <2>3, <2>4, <1>8, <1>10
<1>12. \A k \in DOMAIN screen.users : screen.users[k].id \in MadeIds
  BY <1>8 DEF OnScreen, Lists
<1>13. TempFree
  <2>1. \A f \in Calls : Temp(f) \notin MadeIds  BY IdsAssumption
  <2> QED  BY <2>1, <1>12 DEF TempFree
<1>14. Known
  <2>1. \A x \in MadeIds : KnownUser(x)  BY IdsAssumption DEF KnownUser
  <2>2. KnownUser(actor)  BY <1>1, IdFacts DEF KnownUser
  <2>3. \A f \in Calls : KnownCall(f, call[f])  BY <1>1, CallFacts
  <2>4. load["users"].rows = {}  BY <1>1 DEF Lists
  <2> QED  BY <1>12, <2>1, <2>2, <2>3, <2>4 DEF Known
<1>15. QED
  BY <1>2, <1>3, <1>4, <1>5, <1>6, <1>7, <1>11, <1>13, <1>14 DEF Inv

\* It holds while nothing happens.
LEMMA SameInv ==
    ASSUME Inv, UNCHANGED vars
    PROVE  Inv'
BY DEF Inv, vars, CallsOK, DbOK, ScreenOK, ActorOK, LoadOK, UnsureOK, AuditOK,
       Unborn, InDb, OnScreen, InLoad, TempFree, Known, KnownUser, KnownCall, Exists

\* It is inductive: one step per action.
LEMMA NextInv ==
    ASSUME Inv, [Next]_vars
    PROVE  Inv'
<1>1. CASE \E f \in Calls :
             \/ SwitchActor(f) \/ CreateApiKey(f) \/ DeleteApiKey(f)
             \/ InviteUser(f) \/ OpenEdit(f) \/ UpdateUser(f)
             \/ DisableUser(f) \/ ReactivateUser(f)
             \/ CreateRole(f) \/ OpenRoleEdit(f) \/ UpdateRole(f) \/ DeleteRole(f)
  BY <1>1, SwitchActorInv, CreateApiKeyInv, DeleteApiKeyInv, InviteUserInv, OpenInv,
     UserActionsInv, CreateRoleInv, UpdateRoleInv, DeleteRoleInv
<1>2. CASE \E f \in Calls :
             \/ Check(f) \/ WriteUser(f) \/ WriteRole(f) \/ WriteKey(f) \/ Record(f) \/ Stop(f)
             \/ Answer(f) \/ Refuse(f) \/ Lose(f) \/ Other(f) \/ Reload(f)
  BY <1>2, CheckInv, WriteUserInv, WriteRoleInv, WriteKeyInv, RecordInv, StopInv, AnswerInv,
     RefuseInv, LoseInv, OtherInv, ReloadInv
<1>3. CASE FindBackend  BY <1>3, FindBackendInv
<1>4. CASE \E l \in Lists : ListRows(l) \/ LoadFails(l) \/ ShowList(l)
  BY <1>4, LoadEnds, ListRowsInv, TakenInv
<1>5. CASE UNCHANGED vars  BY <1>5, SameInv
<1>6. QED  BY <1>1, <1>2, <1>3, <1>4, <1>5 DEF Next

\* Users, roles, keys and commands stay what the code declares, and e-mails, names of
\* roles and ids stay unique, whatever commands, answers, loads and other
\* administrators cross (admin-reducer.ts, AdminSettingsService.ts, UserService.ts).
THEOREM OrgScreenTyped == Spec => []TypeOK
<1>1. Init => Inv  BY InitInv
<1>2. Inv /\ [Next]_vars => Inv'  BY NextInv
<1>3. Inv => TypeOK
  BY DEF Inv, DbOK, ScreenOK, ActorOK, AuditOK, TypeOK
<1>4. QED  BY <1>1, <1>2, <1>3, PTL DEF Spec

-----------------------------------------------------------------------------
(* The rows the screen is right about *)

\* Until the answer is shown the screen and the server differ by it.
Changing == {"updateUser", "disableUser", "reactivateUser", "updateRole"}
Deleting == {"deleteRole", "deleteApiKey"}
New(op, row) == IF op = "createApiKey" THEN <<IF row.by = None THEN Demo ELSE row.by>>
                ELSE <<row.name, FALSE>>
After(op, row, v) ==
    CASE op = "updateUser"     -> <<row.name, v[2]>>
      [] op = "disableUser"    -> <<v[1], TRUE>>
      [] op = "reactivateUser" -> <<v[1], FALSE>>
      [] op = "updateRole"     -> <<row.name, v[2]>>

On(f, l, i) == call[f].pc \in UnderWay /\ call[f].op \in Ops[l] /\ call[f].id = i
Agreed(l, i) == ShowsRows(l, screen[l], db[l], i)

Told(l, i, op, row) ==
    /\ op \in Creating =>
         /\ \A v : Holds(l, db[l], i, v) <=> v = New(op, row)
         /\ \A v : ~ Shows(l, screen[l], i, v)
    /\ op \in Deleting =>
         /\ \A v : ~ Holds(l, db[l], i, v)
         /\ l = "roles" => \A v : Shows(l, screen[l], i, v) => v[2] = FALSE
    /\ op \in Changing =>
         /\ Lone(screen[l], i)
         /\ \A w : Holds(l, db[l], i, w) <=>
                     \E v : Shows(l, screen[l], i, v) /\ w = After(op, row, v)
         /\ \E w : Holds(l, db[l], i, w)
         /\ l = "roles" => \A v : Shows(l, screen[l], i, v) => v[2] = FALSE

Follows(l, i, f) ==
    /\ call[f].ours
    /\ call[f].pc \in {"sent", "checked"} => Agreed(l, i)
    /\ call[f].pc = "checked" /\ call[f].op \notin Creating =>
         /\ \E v : Holds(l, db[l], i, v)
         /\ l = "roles" => \A v : Holds(l, db[l], i, v) => v[2] = FALSE
    /\ call[f].pc \in {"written", "done"} => Told(l, i, call[f].op, call[f].row)

Tracked(l, i) ==
    /\ load[l].pc \in {"asked", "read"} => \A f \in Calls : ~ On(f, l, i)
    /\ load[l].pc = "read" =>
         \A v : Holds(l, load[l].rows, i, v) <=> Holds(l, db[l], i, v)
    /\ load[l].pc = "done" =>
         /\ \A f \in Calls : On(f, l, i) => Follows(l, i, f)
         /\ \A f, g \in Calls : On(f, l, i) /\ On(g, l, i) => f = g
         /\ (\A f \in Calls : ~ On(f, l, i)) => Agreed(l, i)

\* What does not touch a row leaves it as it was.
SameRow(l, i) ==
    /\ SameView(l, screen[l], screen'[l], i)
    /\ \A v : Holds(l, db'[l], i, v) <=> Holds(l, db[l], i, v)

\* A row nothing has happened to, here or there, is tracked as before.
LEMMA UntouchedStep ==
    ASSUME NEW l \in Lists, NEW i, Tracked(l, i), load'[l] = load[l], SameRow(l, i),
           \A f \in Calls : On(f, l, i) => call'[f] = call[f],
           \A f \in Calls : On(f, l, i)' => On(f, l, i)
    PROVE  Tracked(l, i)'
<1>1. \A f \in Calls : On(f, l, i)' <=> On(f, l, i)  BY DEF On
<1>2. /\ \A v : Shows(l, screen'[l], i, v) <=> Shows(l, screen[l], i, v)
      /\ Lone(screen[l], i) => Lone(screen'[l], i)
      /\ \A v : Holds(l, db'[l], i, v) <=> Holds(l, db[l], i, v)
  BY DEF SameRow, SameView
<1>3. Agreed(l, i) => Agreed(l, i)'  BY <1>2 DEF Agreed, ShowsRows
<1>4. ASSUME NEW f \in Calls, On(f, l, i), Follows(l, i, f)
      PROVE  Follows(l, i, f)'
  <2>1. call'[f] = call[f]  BY <1>4
  <2>2. Told(l, i, call[f].op, call[f].row) => Told(l, i, call[f].op, call[f].row)'
    BY <2>1, <1>2 DEF Told
  <2> QED  BY <2>1, <2>2, <1>2, <1>3, <1>4 DEF Follows
<1>5. QED  BY <1>1, <1>2, <1>3, <1>4 DEF Tracked

\* One command takes a step, and is not about the row.
LEMMA ElsewhereStep ==
    ASSUME Inv, NEW f \in Calls, NEW c, call' = [call EXCEPT ![f] = c],
           NEW l \in Lists, NEW i, Tracked(l, i), load'[l] = load[l], SameRow(l, i),
           ~ On(f, l, i), c.pc \in UnderWay => c.op \notin Ops[l] \/ c.id # i
    PROVE  Tracked(l, i)'
<1>1. call'[f] = c /\ \A g \in Calls \ {f} : call'[g] = call[g]
  BY DEF Inv, CallsOK
<1>2. QED  BY <1>1, UntouchedStep DEF On

\* The one command about the row takes a step.
LEMMA OwnFollows ==
    ASSUME NEW f \in Calls, NEW l, NEW i, Tracked(l, i), On(f, l, i)
    PROVE  /\ load[l].pc \notin {"asked", "read"}
           /\ load[l].pc = "done" => /\ Follows(l, i, f)
                                     /\ \A g \in Calls : On(g, l, i) => g = f
BY DEF Tracked

\* It is tracked then if what the command is about to tell is still the difference,
\* or nothing is left to tell.
LEMMA OwnStep ==
    ASSUME Inv, NEW f \in Calls, NEW c, call' = [call EXCEPT ![f] = c],
           NEW l \in Lists, NEW i, Tracked(l, i), load'[l] = load[l], On(f, l, i),
           load[l].pc = "done" =>
              \/ /\ c.pc \in UnderWay /\ c.op \in Ops[l] /\ c.id = i
                 /\ Follows(l, i, f)'
              \/ c.pc \notin UnderWay /\ Agreed(l, i)'
    PROVE  Tracked(l, i)'
<1>1. call'[f] = c /\ \A g \in Calls \ {f} : call'[g] = call[g]
  BY DEF Inv, CallsOK
<1>2. /\ load[l].pc \notin {"asked", "read"}
      /\ load[l].pc = "done" => \A g \in Calls : On(g, l, i) => g = f
  BY OwnFollows
<1>3. \A g \in Calls \ {f} : On(g, l, i)' <=> On(g, l, i)  BY <1>1 DEF On
<1>4. CASE load[l].pc # "done"  BY <1>2, <1>4 DEF Tracked
<1>5. CASE load[l].pc = "done"
  <2>1. \A g \in Calls : On(g, l, i)' => g = f  BY <1>2, <1>3, <1>5
  <2>2. c.pc \notin UnderWay => ~ On(f, l, i)'  BY <1>1 DEF On
  <2>3. load'[l].pc = "done"  BY <1>5
  <2>4. \A g \in Calls : On(g, l, i)' => Follows(l, i, g)'
    <3>1. SUFFICES ASSUME NEW g \in Calls, On(g, l, i)'
                   PROVE  Follows(l, i, g)'
      OBVIOUS
    <3>2. g = f  BY <2>1, <3>1
    <3>3. On(f, l, i)'  BY <3>1, <3>2
    <3>4. Follows(l, i, f)'  BY <1>5, <2>2, <3>3
    <3> QED  BY <3>2, <3>4
  <2>5. (\A g \in Calls : ~ On(g, l, i)') => Agreed(l, i)'
    <3>1. CASE c.pc \in UnderWay /\ c.op \in Ops[l] /\ c.id = i
      <4>1. On(f, l, i)'  BY <1>1, <3>1 DEF On
      <4> QED  BY <4>1
    <3> QED  BY <1>5, <3>1
  <2> QED  BY <2>1, <2>3, <2>4, <2>5 DEF Tracked
<1>6. QED  BY <1>4, <1>5

\* A list that does not change shows the same.
LEMMA SameListView ==
    ASSUME NEW l, NEW i, screen'[l] = screen[l]
    PROVE  SameView(l, screen[l], screen'[l], i)
BY DEF SameView

\* A change of a user at its place shows no other row anew.
LEMMA InPlaceView ==
    ASSUME ScreenOK, NEW i, InPlace(i), NEW l \in Lists, NEW j, l # "users" \/ j # i
    PROVE  SameView(l, screen[l], screen'[l], j)
<1>1. CASE l = "users"
  <2>1. j # i  BY <1>1
  <2>2. /\ DOMAIN screen'.users = DOMAIN screen.users
        /\ \A k \in DOMAIN screen.users : screen'.users[k].id = j <=> screen.users[k].id = j
        /\ \A k \in DOMAIN screen.users : screen.users[k].id = j =>
              Seen("users", screen'.users[k]) = Seen("users", screen.users[k])
    BY <2>1 DEF InPlace
  <2>3. SameView("users", screen.users, screen'.users, j)  BY <2>2, ViewInPlace
  <2> QED  BY <1>1, <2>3
<1>2. CASE l = "roles"
  <2>1. /\ DOMAIN screen'.roles = DOMAIN screen.roles
        /\ \A k \in DOMAIN screen.roles : screen'.roles[k].id = j <=> screen.roles[k].id = j
        /\ \A k \in DOMAIN screen.roles : screen.roles[k].id = j =>
              Seen("roles", screen'.roles[k]) = Seen("roles", screen.roles[k])
    BY DEF InPlace, Counted, Seen
  <2>2. SameView("roles", screen.roles, screen'.roles, j)  BY <2>1, ViewInPlace
  <2> QED  BY <1>2, <2>2
<1>3. CASE l = "keys"
  BY <1>3, SameListView DEF InPlace
<1>4. QED  BY <1>1, <1>2, <1>3 DEF Lists

\* Nor does a role created,
LEMMA CreatedRoleView ==
    ASSUME ScreenOK, NEW i \in Ids, NEW row, row.name \in RoleNames, ShowCreatedRole(i, row),
           NEW l \in Lists, NEW j, l # "roles" \/ j # i
    PROVE  SameView(l, screen[l], screen'[l], j)
<1>1. /\ screen'.users = screen.users /\ screen'.keys = screen.keys
      /\ \E r : screen'.roles = Append(screen.roles, r) /\ r.id = i
  BY CreatedRole
<1>2. CASE l = "roles"
  <2>1. PICK r : screen'.roles = Append(screen.roles, r) /\ r.id = i  BY <1>1
  <2>2. screen.roles \in Seq(ShownRole)  BY DEF ScreenOK
  <2>3. SameView("roles", screen.roles, Append(screen.roles, r), j)
    BY <1>2, <2>1, <2>2, ViewAppended
  <2> QED  BY <1>2, <2>1, <2>3
<1>3. CASE l # "roles"  BY <1>1, <1>3, SameListView DEF Lists
<1>4. QED  BY <1>2, <1>3

\* or renamed,
LEMMA UpdatedRoleView ==
    ASSUME ScreenOK, NEW i \in Ids, NEW row, row.name \in RoleNames, ShowUpdatedRole(i, row),
           NEW l \in Lists, NEW j, l # "roles" \/ j # i
    PROVE  SameView(l, screen[l], screen'[l], j)
<1>1. /\ screen'.users = screen.users /\ screen'.keys = screen.keys
      /\ DOMAIN screen'.roles = DOMAIN screen.roles
      /\ \A k \in DOMAIN screen.roles :
           /\ screen'.roles[k].id = screen.roles[k].id
           /\ screen.roles[k].id # i => screen'.roles[k] = screen.roles[k]
  BY UpdatedRole
<1>2. CASE l = "roles"
  <2>1. /\ \A k \in DOMAIN screen.roles : screen'.roles[k].id = j <=> screen.roles[k].id = j
        /\ \A k \in DOMAIN screen.roles : screen.roles[k].id = j =>
              Seen("roles", screen'.roles[k]) = Seen("roles", screen.roles[k])
    BY <1>1, <1>2
  <2>2. SameView("roles", screen.roles, screen'.roles, j)  BY <1>1, <2>1, ViewInPlace
  <2> QED  BY <1>2, <2>2
<1>3. CASE l # "roles"  BY <1>1, <1>3, SameListView DEF Lists
<1>4. QED  BY <1>2, <1>3

\* or deleted,
LEMMA DeletedRoleView ==
    ASSUME ScreenOK, NEW i \in Ids, ShowDeletedRole(i),
           NEW l \in Lists, NEW j, l # "roles" \/ j # i
    PROVE  SameView(l, screen[l], screen'[l], j)
<1> DEFINE at == {k \in DOMAIN screen.roles :
                    screen.roles[k].id # i \/ screen.roles[k].builtIn}
<1>1. /\ screen'.users = screen.users /\ screen'.keys = screen.keys
      /\ screen'.roles = Only(screen.roles, at)
  BY DeletedRole
<1>2. CASE l = "roles"
  <2>1. screen.roles \in Seq(ShownRole)  BY DEF ScreenOK
  <2>2. at \in SUBSET DOMAIN screen.roles
        /\ \A k \in DOMAIN screen.roles : screen.roles[k].id = j => k \in at
    BY <1>2
  <2> HIDE DEF at
  <2>3. SameView("roles", screen.roles, Only(screen.roles, at), j)
    BY <2>1, <2>2, ViewOfKept
  <2> QED  BY <1>1, <1>2, <2>3
<1>3. CASE l # "roles"  BY <1>1, <1>3, SameListView DEF Lists
<1>4. QED  BY <1>2, <1>3

\* nor a key created,
LEMMA CreatedKeyView ==
    ASSUME ScreenOK, NEW i \in Ids, NEW by \in Ids, ShowCreatedKey(i, by),
           NEW l \in Lists, NEW j, l # "keys" \/ j # i
    PROVE  SameView(l, screen[l], screen'[l], j)
<1> DEFINE r == [id |-> i, by |-> by]
<1>1. /\ screen'.users = screen.users /\ screen'.roles = screen.roles
      /\ screen'.keys = <<r>> \o screen.keys
  BY CreatedKey
<1>2. CASE l = "keys"
  <2>1. screen.keys \in Seq(ShownKey)  BY DEF ScreenOK
  <2>2. r \in ShownKey /\ r.id = i  BY DEF ShownKey
  <2> HIDE DEF r
  <2>3. <<r>> \in Seq(ShownKey) /\ \A k \in DOMAIN <<r>> : <<r>>[k].id # j
    BY <1>2, <2>2
  <2>4. SameView("keys", screen.keys, <<r>> \o screen.keys, j)
    BY <2>1, <2>3, ViewOfJoined
  <2> QED  BY <1>1, <1>2, <2>4
<1>3. CASE l # "keys"  BY <1>1, <1>3, SameListView DEF Lists
<1>4. QED  BY <1>2, <1>3

\* or deleted,
LEMMA DeletedKeyView ==
    ASSUME ScreenOK, NEW i \in Ids, ShowDeletedKey(i),
           NEW l \in Lists, NEW j, l # "keys" \/ j # i
    PROVE  SameView(l, screen[l], screen'[l], j)
<1> DEFINE at == {k \in DOMAIN screen.keys : screen.keys[k].id # i}
<1>1. /\ screen'.users = screen.users /\ screen'.roles = screen.roles
      /\ screen'.keys = Only(screen.keys, at)
  BY DeletedKey
<1>2. CASE l = "keys"
  <2>1. screen.keys \in Seq(ShownKey)  BY DEF ScreenOK
  <2>2. at \in SUBSET DOMAIN screen.keys
        /\ \A k \in DOMAIN screen.keys : screen.keys[k].id = j => k \in at
    BY <1>2
  <2> HIDE DEF at
  <2>3. SameView("keys", screen.keys, Only(screen.keys, at), j)
    BY <2>1, <2>2, ViewOfKept
  <2> QED  BY <1>1, <1>2, <2>3
<1>3. CASE l # "keys"  BY <1>1, <1>3, SameListView DEF Lists
<1>4. QED  BY <1>2, <1>3

\* nor a user invited, whose made-up id is no row of the server.
LEMMA InvitedUserView ==
    ASSUME ScreenOK, ActorOK, NEW f \in Calls, NEW row \in Typed, ShowInvitedUser(f, row),
           NEW l \in Lists, NEW j \in RealIds, l # "users" \/ j # f
    PROVE  SameView(l, screen[l], screen'[l], j)
<1>1. /\ Counted /\ screen'.keys = screen.keys
      /\ \A i \in RealIds \ {f} : SameView("users", screen.users, screen'.users, i)
  BY InvitedUser
<1>2. CASE l = "users"  BY <1>1, <1>2
<1>3. CASE l = "roles"
  <2>1. /\ DOMAIN screen'.roles = DOMAIN screen.roles
        /\ \A k \in DOMAIN screen.roles : screen'.roles[k].id = j <=> screen.roles[k].id = j
        /\ \A k \in DOMAIN screen.roles : screen.roles[k].id = j =>
              Seen("roles", screen'.roles[k]) = Seen("roles", screen.roles[k])
    BY <1>1 DEF Counted, Seen
  <2>2. SameView("roles", screen.roles, screen'.roles, j)  BY <2>1, ViewInPlace
  <2> QED  BY <1>3, <2>2
<1>4. CASE l = "keys"  BY <1>1, <1>4, SameListView
<1>5. QED  BY <1>2, <1>3, <1>4 DEF Lists

AllTracked == \A l \in Lists : \A i \in RealIds \ unsure[l] : Tracked(l, i)

\* A command about the row is one in flight.
LEMMA OnInFlight ==
    ASSUME Inv, NEW f \in Calls, NEW l \in Lists, NEW i, On(f, l, i)
    PROVE  /\ ListOf(call[f].op) = l
           /\ \A pcs : call[f].pc \in pcs => i \in CallsOn(l, pcs)
<1>1. ListOf(call[f].op) = l  BY ListOfOps DEF On, Lists
<1>2. QED  BY <1>1 DEF On, CallsOn

\* A command that ends here, without the server, of rows the server does not have.
LEMMA HereTracked ==
    ASSUME Inv, AllTracked, NEW f \in Calls, call[f].pc \notin UnderWay,
           call' = [call EXCEPT ![f] = Ended], UNCHANGED unsure, UNCHANGED Outside,
           \A l \in Lists : \A i \in RealIds : SameView(l, screen[l], screen'[l], i)
    PROVE  AllTracked'
<1>1. SUFFICES ASSUME NEW l \in Lists, NEW i \in RealIds \ unsure[l]
               PROVE  Tracked(l, i)'
  BY DEF AllTracked
<1>2. PICK c : c = Ended  OBVIOUS
<1>3. c.pc \notin UnderWay /\ call' = [call EXCEPT ![f] = c]
  BY <1>2, CallFacts DEF UnderWay
<1>4. Tracked(l, i) /\ load'[l] = load[l] /\ SameRow(l, i)
  BY DEF AllTracked, Outside, SameRow
<1>5. ~ On(f, l, i)  BY DEF On
<1>6. QED  BY <1>3, <1>4, <1>5, ElsewhereStep

\* A command is sent: it is the only one about its row, or the screen is unsure of it.
LEMMA SendTracked ==
    ASSUME Inv, AllTracked, NEW f \in Calls, call[f].pc \notin UnderWay,
           NEW op \in AllOps, NEW j \in RealIds, NEW row \in Rows, Send(f, op, j, row),
           UNCHANGED Outside
    PROVE  AllTracked'
<1> DEFINE L == ListOf(op)
           ids == IF j \in InFlight(L) \/ Loading(L) THEN {j} ELSE {}
<1>1. PICK c : c = Call(op, j, row, "sent")  OBVIOUS
<1>2. /\ call' = [call EXCEPT ![f] = c] /\ Unsure(L, ids) /\ UNCHANGED <<screen, actor>>
  BY <1>1 DEF Send
<1>3. /\ c.op = op /\ c.id = j /\ c.pc = "sent" /\ c.ours
  <2>1. "sent" \in Pcs /\ j \in Ids  BY IdFacts DEF Pcs
  <2> QED  BY <1>1, <2>1, CallFacts DEF Call
<1>4. L \in Lists /\ op \in Ops[L]  BY ListOfOps DEF Lists
<1>5. ids \in SUBSET RealIds /\ (j \in InFlight(L) \/ Loading(L) => j \in ids)  OBVIOUS
<1> HIDE DEF ids
<1>6. \A m \in Lists : unsure'[m] = IF m = L THEN unsure[m] \cup ids ELSE unsure[m]
  BY <1>2, <1>4, <1>5, UnsureMore DEF Inv
<1>7. SUFFICES ASSUME NEW l \in Lists, NEW i \in RealIds \ unsure'[l]
               PROVE  Tracked(l, i)'
  BY DEF AllTracked
<1>8. Tracked(l, i)  BY <1>6, <1>7 DEF AllTracked
<1>9. load'[l] = load[l] /\ SameRow(l, i) /\ ~ On(f, l, i)
  BY <1>2, SameListView DEF Outside, SameRow, On
<1>10. CASE l # L \/ i # j
  <2>1. c.op \notin Ops[l] \/ c.id # i
    <3>1. op \in Ops[l] => l = L  BY ListOfOps DEF Lists
    <3> QED  BY <1>3, <1>10, <3>1
  <2> QED  BY <1>2, <1>8, <1>9, <2>1, ElsewhereStep
<1>11. CASE l = L /\ i = j
  <2>1. i \notin InFlight(l) /\ ~ Loading(l)  BY <1>5, <1>6, <1>7, <1>11
  <2>2. \A g \in Calls : ~ On(g, l, i)
    BY <2>1, OnInFlight DEF InFlight, On
  <2>3. load[l].pc \notin {"asked", "read"}  BY <2>1 DEF Loading
  <2>4. load[l].pc = "done" => Agreed(l, i)  BY <1>8, <2>2 DEF Tracked
  <2>5. Agreed(l, i) => Agreed(l, i)'  BY <1>2 DEF Agreed, Outside
  <2>6. call'[f] = c /\ \A g \in Calls \ {f} : call'[g] = call[g]
    BY <1>2 DEF Inv, CallsOK
  <2>7. \A g \in Calls : On(g, l, i)' => g = f  BY <2>2, <2>6 DEF On
  <2>8. On(f, l, i)'  BY <1>3, <1>4, <1>11, <2>6 DEF On, UnderWay
  <2>9. load[l].pc = "done" => Follows(l, i, f)'
    BY <1>3, <2>4, <2>5, <2>6 DEF Follows
  <2>10. load[l].pc = "done" => \A g \in Calls : On(g, l, i)' => Follows(l, i, g)'
    <3>1. SUFFICES ASSUME load[l].pc = "done", NEW g \in Calls, On(g, l, i)'
                   PROVE  Follows(l, i, g)'
      OBVIOUS
    <3>2. g = f  BY <2>7, <3>1
    <3> QED  BY <2>9, <3>1, <3>2
  <2> QED  BY <1>9, <2>3, <2>7, <2>8, <2>10 DEF Tracked
<1>12. QED  BY <1>10, <1>11

\* A change made here is of rows the server does not have.
LEMMA MadeHereTracked ==
    ASSUME Inv, AllTracked, NEW f \in Calls, call[f].pc \in {"idle", "typing"}, Done(f),
           UNCHANGED Outside, NEW i \in Ids \ RealIds,
           \/ \E by \in Ids : ShowCreatedKey(i, by)
           \/ ShowDeletedKey(i)
           \/ InPlace(i)
           \/ \E row : /\ row.name \in RoleNames
                       /\ ShowCreatedRole(i, row) \/ ShowUpdatedRole(i, row)
           \/ ShowDeletedRole(i)
           \/ UNCHANGED screen
    PROVE  AllTracked'
<1>1. call[f].pc \notin UnderWay /\ call' = [call EXCEPT ![f] = Ended] /\ UNCHANGED unsure
  BY DEF UnderWay, Done
<1>2. ASSUME NEW l \in Lists, NEW j \in RealIds
      PROVE  SameView(l, screen[l], screen'[l], j)
  <2>1. j # i /\ ScreenOK  BY DEF Inv
  <2>2. CASE \E by \in Ids : ShowCreatedKey(i, by)  BY <2>1, <2>2, CreatedKeyView
  <2>3. CASE ShowDeletedKey(i)  BY <2>1, <2>3, DeletedKeyView
  <2>4. CASE InPlace(i)  BY <2>1, <2>4, InPlaceView
  <2>5. CASE \E row : row.name \in RoleNames /\ ShowCreatedRole(i, row)
    BY <2>1, <2>5, CreatedRoleView
  <2>6. CASE \E row : row.name \in RoleNames /\ ShowUpdatedRole(i, row)
    <3>1. PICK row : row.name \in RoleNames /\ ShowUpdatedRole(i, row)  BY <2>6
    <3>2. ScreenOK /\ (l # "roles" \/ j # i)  BY <2>1
    <3>3. row.name \in RoleNames  BY <3>1
    <3>4. ShowUpdatedRole(i, row)  BY <3>1
    <3>5. \A m \in Lists : \A h : m # "roles" \/ h # i => SameView(m, screen[m], screen'[m], h)
      BY <3>2, <3>3, <3>4, UpdatedRoleView
    <3> QED  BY <3>2, <3>5
  <2>7. CASE ShowDeletedRole(i)  BY <2>1, <2>7, DeletedRoleView
  <2>8. CASE UNCHANGED screen  BY <2>8, SameListView
  <2> QED  BY <2>2, <2>3, <2>4, <2>5, <2>6, <2>7, <2>8
<1>3. QED  BY <1>1, <1>2, HereTracked

\* Choosing a person and opening forms shows no row anew.
LEMMA TypedTracked ==
    ASSUME Inv, AllTracked, NEW f \in Calls,
           SwitchActor(f) \/ OpenEdit(f) \/ OpenRoleEdit(f)
    PROVE  AllTracked'
<1>1. call[f].pc = "idle" /\ UNCHANGED screen /\ UNCHANGED Outside /\ UNCHANGED unsure
  BY DEF SwitchActor, OpenEdit, OpenRoleEdit, Free, Done
<1>2. CASE SwitchActor(f)
  <2>1. call[f].pc \notin UnderWay /\ call' = [call EXCEPT ![f] = Ended]
    BY <1>1, <1>2 DEF UnderWay, SwitchActor, Done
  <2>2. \A l \in Lists : \A i \in RealIds : SameView(l, screen[l], screen'[l], i)
    BY <1>1, SameListView
  <2> QED  BY <1>1, <2>1, <2>2, HereTracked
<1>3. CASE OpenEdit(f) \/ OpenRoleEdit(f)
  <2>1. \E i, op : /\ op \in AllOps /\ i \in Ids
                   /\ call' = [call EXCEPT ![f] = Call(op, i, NoRow, "typing")]
    <3>1. /\ \E i, op : /\ OnScreen(i) /\ op \in {"updateUser", "updateRole"}
                        /\ call' = [call EXCEPT ![f] = Call(op, i, NoRow, "typing")]
      BY <1>3, OfferedOnScreen DEF OpenEdit, OpenRoleEdit
    <3>2. {"updateUser", "updateRole"} \subseteq AllOps  BY DEF AllOps
    <3> QED  BY <3>1, <3>2, OnScreenIds DEF Inv
  <2>2. PICK i, op : /\ op \in AllOps /\ i \in Ids
                     /\ call' = [call EXCEPT ![f] = Call(op, i, NoRow, "typing")]
    BY <2>1
  <2>3. PICK c : c = Call(op, i, NoRow, "typing")  OBVIOUS
  <2>4. call' = [call EXCEPT ![f] = c] /\ c.pc \notin UnderWay
    <3>1. c.pc = "typing"  BY <2>2, <2>3, CallFacts DEF Pcs
    <3> QED  BY <2>2, <2>3, <3>1 DEF UnderWay
  <2>5. SUFFICES ASSUME NEW l \in Lists, NEW j \in RealIds \ unsure[l]
                 PROVE  Tracked(l, j)'
    BY <1>1 DEF AllTracked
  <2>6. Tracked(l, j) /\ load'[l] = load[l] /\ SameRow(l, j) /\ ~ On(f, l, j)
    BY <1>1, SameListView DEF AllTracked, Outside, SameRow, On, UnderWay
  <2> QED  BY <2>4, <2>6, ElsewhereStep
<1>4. QED  BY <1>2, <1>3

\* Keys created and deleted at the browser.
LEMMA KeysTracked ==
    ASSUME Inv, AllTracked, NEW f \in Calls, CreateApiKey(f) \/ DeleteApiKey(f)
    PROVE  AllTracked'
<1>1. call[f].pc = "idle" /\ call[f].pc \notin UnderWay /\ UNCHANGED Outside
  BY DEF CreateApiKey, DeleteApiKey, Free, UnderWay
<1>2. NoRow \in Rows /\ "createApiKey" \in AllOps /\ "deleteApiKey" \in AllOps
  BY CallFacts DEF AllOps
<1>3. CASE CreateApiKey(f) /\ backend
  <2> DEFINE row == [NoRow EXCEPT !.by = IF actor \in RealIds THEN actor ELSE None]
  <2>1. Send(f, "createApiKey", f, row) /\ f \in RealIds
    BY <1>3, IdFacts DEF CreateApiKey
  <2>2. row \in Rows  BY DEF Rows, NoRow
  <2> HIDE DEF row
  <2> QED  BY <1>1, <1>2, <2>1, <2>2, SendTracked
<1>4. CASE CreateApiKey(f) /\ ~ backend
  <2>1. Done(f) /\ ShowCreatedKey(Temp(f), actor)  BY <1>4 DEF CreateApiKey
  <2>2. Temp(f) \in Ids \ RealIds /\ actor \in Ids  BY IdFacts DEF Inv, ActorOK
  <2> QED  BY <1>1, <2>1, <2>2, MadeHereTracked
<1>5. CASE DeleteApiKey(f)
  <2>1. PICK i \in KeysOffered : Sends(f, "deleteApiKey", i, NoRow, ShowDeletedKey(i))
    BY <1>5 DEF DeleteApiKey
  <2>2. i \in Ids  BY OfferedOnScreen, OnScreenIds DEF Inv
  <2>3. CASE i \in RealIds
    <3>1. Send(f, "deleteApiKey", i, NoRow)  BY <2>1, <2>3 DEF Sends
    <3> QED  BY <1>1, <1>2, <2>3, <3>1, SendTracked
  <2>4. CASE i \notin RealIds
    <3>1. Done(f) /\ ShowDeletedKey(i)  BY <2>1, <2>4 DEF Sends
    <3> QED  BY <1>1, <2>2, <2>4, <3>1, MadeHereTracked
  <2> QED  BY <2>3, <2>4
<1>6. QED  BY <1>3, <1>4, <1>5

\* A command about a user, who has an id of the server or not.
LEMMA AboutUserTracked ==
    ASSUME Inv, AllTracked, NEW f \in Calls, call[f].pc \in {"idle", "typing"},
           UNCHANGED Outside, NEW i \in Ids, NEW row \in Rows,
           \/ /\ row \in Typed
              /\ Sends(f, "updateUser", i, row, ShowUpdatedUser(i, row))
           \/ Sends(f, "disableUser", i, row, ShowDisabledUser(i))
           \/ Sends(f, "reactivateUser", i, row, ShowReactivatedUser(i))
    PROVE  AllTracked'
<1>1. CASE i \in RealIds
  <2>1. PICK op \in {"updateUser", "disableUser", "reactivateUser"} : Send(f, op, i, row)
    BY <1>1 DEF Sends
  <2>2. op \in AllOps /\ call[f].pc \notin UnderWay  BY DEF AllOps, UnderWay
  <2> QED  BY <1>1, <2>1, <2>2, SendTracked
<1>2. CASE i \notin RealIds
  <2>1. /\ Done(f)
        /\ \/ row \in Typed /\ ShowUpdatedUser(i, row)
           \/ ShowDisabledUser(i)
           \/ ShowReactivatedUser(i)
    BY <1>2 DEF Sends
  <2>2. ScreenOK /\ ActorOK  BY DEF Inv
  <2>3. InPlace(i)  BY <2>1, <2>2, UpdatedUser, DisabledUser, ReactivatedUser
  <2> QED  BY <1>2, <2>1, <2>3, MadeHereTracked
<1>3. QED  BY <1>1, <1>2

\* Users invited, edited, disabled and reactivated at the browser.
LEMMA UserActionsTracked ==
    ASSUME Inv, AllTracked, NEW f \in Calls,
           InviteUser(f) \/ UpdateUser(f) \/ DisableUser(f) \/ ReactivateUser(f)
    PROVE  AllTracked'
<1>0. NoRow \in Rows  BY CallFacts
<1>1. CASE InviteUser(f)
  <2>1. call[f].pc \notin UnderWay /\ UNCHANGED Outside  BY <1>1 DEF InviteUser, Free, UnderWay
  <2>2. PICK row \in Typed : Send(f, "inviteUser", f, row)  BY <1>1 DEF InviteUser
  <2>3. "inviteUser" \in AllOps /\ row \in Rows /\ f \in RealIds
    BY CallFacts, IdFacts DEF AllOps
  <2> QED  BY <2>1, <2>2, <2>3, SendTracked
<1>2. CASE UpdateUser(f)
  <2>1. call[f].pc = "typing" /\ UNCHANGED Outside  BY <1>2 DEF UpdateUser
  <2>2. PICK row \in Typed :
          Sends(f, "updateUser", call[f].id, row, ShowUpdatedUser(call[f].id, row))
    BY <1>2 DEF UpdateUser
  <2>3. row \in Rows /\ call[f].id \in Ids
    BY <2>1, CallFacts DEF Inv, CallsOK, CallFine
  <2> QED  BY <2>1, <2>2, <2>3, AboutUserTracked
<1>3. CASE DisableUser(f)
  <2>1. call[f].pc = "idle" /\ UNCHANGED Outside  BY <1>3 DEF DisableUser, Free
  <2>2. PICK i \in DisableOffered : Sends(f, "disableUser", i, NoRow, ShowDisabledUser(i))
    BY <1>3 DEF DisableUser
  <2>3. i \in Ids  BY OfferedOnScreen, OnScreenIds DEF Inv
  <2> QED  BY <1>0, <2>1, <2>2, <2>3, AboutUserTracked
<1>4. CASE ReactivateUser(f)
  <2>1. call[f].pc = "idle" /\ UNCHANGED Outside  BY <1>4 DEF ReactivateUser, Free
  <2>2. PICK i \in ReactivateOffered :
          Sends(f, "reactivateUser", i, NoRow, ShowReactivatedUser(i))
    BY <1>4 DEF ReactivateUser
  <2>3. i \in Ids  BY OfferedOnScreen, OnScreenIds DEF Inv
  <2> QED  BY <1>0, <2>1, <2>2, <2>3, AboutUserTracked
<1>5. QED  BY <1>1, <1>2, <1>3, <1>4

\* Roles created, renamed and deleted at the browser.
LEMMA RolesTracked ==
    ASSUME Inv, AllTracked, NEW f \in Calls, CreateRole(f) \/ UpdateRole(f) \/ DeleteRole(f)
    PROVE  AllTracked'
<1>0. /\ call[f].pc \in {"idle", "typing"} /\ call[f].pc \notin UnderWay /\ UNCHANGED Outside
      /\ {"createRole", "updateRole", "deleteRole"} \subseteq AllOps /\ NoRow \in Rows
  BY CallFacts DEF CreateRole, UpdateRole, DeleteRole, Free, UnderWay, AllOps
<1>1. CASE CreateRole(f)
  <2>1. PICK row : /\ row \in Rows /\ row.name \in RoleNames
                   /\ \/ Send(f, "createRole", f, row)
                      \/ Done(f) /\ ShowCreatedRole(Temp(f), row)
    <3>1. PICK name \in TypedNames :
            LET row == [NoRow EXCEPT !.name = name] IN
            \/ Send(f, "createRole", f, row)
            \/ Done(f) /\ ShowCreatedRole(Temp(f), row)
      BY <1>1 DEF CreateRole
    <3>2. QED  BY <3>1, RoleRows
  <2>2. f \in RealIds /\ Temp(f) \in Ids \ RealIds  BY IdFacts
  <2>3. CASE Send(f, "createRole", f, row)  BY <1>0, <2>1, <2>2, <2>3, SendTracked
  <2>4. CASE Done(f) /\ ShowCreatedRole(Temp(f), row)
    BY <1>0, <2>1, <2>2, <2>4, MadeHereTracked
  <2> QED  BY <2>1, <2>3, <2>4
<1>2. CASE UpdateRole(f)
  <2> DEFINE i == call[f].id
  <2>1. PICK row : /\ row \in Rows /\ row.name \in RoleNames
                   /\ \/ i \in RealIds /\ Send(f, "updateRole", i, row)
                      \/ i \notin RealIds /\ Done(f) /\ ShowUpdatedRole(i, row)
    <3>1. PICK name \in TypedNames :
            LET row == [NoRow EXCEPT !.name = name] IN
            \/ i \in RealIds /\ Send(f, "updateRole", i, row)
            \/ i \notin RealIds /\ Done(f) /\ ShowUpdatedRole(i, row)
      BY <1>2 DEF UpdateRole, Sends
    <3>2. QED  BY <3>1, RoleRows
  <2>2. i \in Ids  BY <1>2 DEF UpdateRole, Inv, CallsOK, CallFine
  <2>3. CASE i \in RealIds /\ Send(f, "updateRole", i, row)
    BY <1>0, <2>1, <2>3, SendTracked
  <2>4. CASE i \notin RealIds /\ Done(f) /\ ShowUpdatedRole(i, row)
    BY <1>0, <2>1, <2>2, <2>4, MadeHereTracked
  <2> QED  BY <2>1, <2>3, <2>4
<1>3. CASE DeleteRole(f)
  <2>1. PICK i \in RolesOffered : Sends(f, "deleteRole", i, NoRow, ShowDeletedRole(i))
    BY <1>3 DEF DeleteRole
  <2>2. i \in Ids  BY OfferedOnScreen, OnScreenIds DEF Inv
  <2>3. CASE i \in RealIds
    <3>1. Send(f, "deleteRole", i, NoRow)  BY <2>1, <2>3 DEF Sends
    <3> QED  BY <1>0, <2>3, <3>1, SendTracked
  <2>4. CASE i \notin RealIds
    <3>1. Done(f) /\ ShowDeletedRole(i)  BY <2>1, <2>4 DEF Sends
    <3> QED  BY <1>0, <2>2, <2>4, <3>1, MadeHereTracked
  <2> QED  BY <2>3, <2>4
<1>4. QED  BY <1>1, <1>2, <1>3

\* The tables hold the other rows as before.
OthersHeld(L, j) ==
    \A l \in Lists : \A i \in RealIds : l # L \/ i # j =>
       \A v : Holds(l, db'[l], i, v) <=> Holds(l, db[l], i, v)
Answerable(L, j, f) ==
    \A op, row : op = call[f].op /\ row = call[f].row => Told(L, j, op, row)'
Outcome(L, j, f, pc) ==
    /\ pc \in {"checked", "refused"} => Agreed(L, j)'
    /\ pc = "checked" /\ call[f].op \notin Creating =>
         /\ \E v : Holds(L, db'[L], j, v)
         /\ L = "roles" => \A v : Holds(L, db'[L], j, v) => v[2] = FALSE
    /\ pc \in {"written", "done"} => Answerable(L, j, f)

\* A handler takes a step: the rows of others stay, and what its own row is then
\* follows from what it was.
LEMMA MovedTracked ==
    ASSUME Inv, AllTracked, NEW f \in Calls, call[f].pc \in {"sent", "checked", "written"},
           NEW pc \in {"checked", "written", "done", "refused"}, Moved(f, pc),
           UNCHANGED Kept, \A l \in Lists : unsure[l] \subseteq unsure'[l],
           NEW L \in Lists, call[f].op \in Ops[L], NEW j, j = call[f].id,
           OthersHeld(L, j),
           j \notin unsure'[L] /\ Follows(L, j, f) => Outcome(L, j, f, pc)
    PROVE  AllTracked'
<1>1. PICK c : c = IF pc \in {"done", "refused"} /\ ~call[f].ours THEN Ended
                   ELSE [call[f] EXCEPT !.pc = pc]
  OBVIOUS
<1>2. call' = [call EXCEPT ![f] = c]  BY <1>1 DEF Moved
<1>3. call[f] \in CallRow  BY DEF Inv, CallsOK
<1>4. \/ c = Ended /\ pc \in {"done", "refused"} /\ ~ call[f].ours
      \/ /\ c.pc = pc /\ c.op = call[f].op /\ c.id = call[f].id
         /\ c.row = call[f].row /\ c.ours = call[f].ours
  BY <1>1, <1>3 DEF CallRow
<1>5. SUFFICES ASSUME NEW l \in Lists, NEW i \in RealIds \ unsure'[l]
               PROVE  Tracked(l, i)'
  BY DEF AllTracked
<1>6. Tracked(l, i) /\ load'[l] = load[l] /\ screen' = screen
  BY <1>5 DEF AllTracked, Kept
<1>7. CASE l # L \/ i # j
  <2>1. SameRow(l, i)  BY <1>6, <1>7, SameListView DEF SameRow, OthersHeld
  <2>2. call[f].op \in Ops[l] => l = L  BY ListOfOps DEF Lists
  <2>3. ~ On(f, l, i)  BY <1>7, <2>2 DEF On
  <2>4. c.pc \in UnderWay => c.op \notin Ops[l] \/ c.id # i
    <3>1. Ended.pc \notin UnderWay  BY CallFacts DEF UnderWay
    <3> QED  BY <1>4, <1>7, <2>2, <3>1
  <2> QED  BY <1>2, <1>6, <2>1, <2>3, <2>4, ElsewhereStep
<1>8. CASE l = L /\ i = j
  <2>1. On(f, l, i)  BY <1>8 DEF On, UnderWay
  <2>2. ASSUME load[l].pc = "done"
        PROVE  \/ /\ c.pc \in UnderWay /\ c.op \in Ops[l] /\ c.id = i
                  /\ Follows(l, i, f)'
               \/ c.pc \notin UnderWay /\ Agreed(l, i)'
    <3>1. Follows(l, i, f)  BY <1>6, <2>1, <2>2, OwnFollows
    <3>2. call[f].ours  BY <3>1 DEF Follows
    <3>3. /\ c.pc = pc /\ c.op = call[f].op /\ c.id = call[f].id
          /\ c.row = call[f].row /\ c.ours = call[f].ours
      BY <1>4, <3>2
    <3>4. /\ pc \in {"checked", "refused"} => Agreed(l, i)'
          /\ pc = "checked" /\ call[f].op \notin Creating =>
                   /\ \E v : Holds(l, db'[l], i, v)
                   /\ l = "roles" => \A v : Holds(l, db'[l], i, v) => v[2] = FALSE
          /\ pc \in {"written", "done"} =>
                   \A op, row : op = call[f].op /\ row = call[f].row => Told(l, i, op, row)'
      BY <1>5, <1>8, <3>1 DEF Outcome, Answerable
    <3>5. call'[f] = c  BY <1>2 DEF Inv, CallsOK
    <3>6. CASE pc = "refused"  BY <3>3, <3>4, <3>6 DEF UnderWay
    <3>7. CASE pc = "checked"
      <4>1. Follows(l, i, f)'  BY <3>2, <3>3, <3>4, <3>5, <3>7 DEF Follows
      <4> QED  BY <4>1, <3>3, <3>7, <2>1 DEF UnderWay, On
    <3>8. CASE pc \in {"written", "done"}
      <4>1. PICK op, row : op = call[f].op /\ row = call[f].row  OBVIOUS
      <4>2. Told(l, i, op, row)'  BY <3>4, <3>8, <4>1
      <4>3. call'[f].op = op /\ call'[f].row = row  BY <3>3, <3>5, <4>1
      <4>4. Told(l, i, call[f].op, call[f].row)'  BY <4>2, <4>3 DEF Told
      <4>5. Follows(l, i, f)'  BY <3>2, <3>3, <3>5, <3>8, <4>4 DEF Follows
      <4> QED  BY <4>5, <3>3, <3>8, <2>1 DEF UnderWay, On
    <3> QED  BY <3>6, <3>7, <3>8
  <2> QED  BY <1>2, <1>6, <2>1, <2>2, OwnStep
<1>9. QED  BY <1>7, <1>8

\* The server has done what it was asked.
LEMMA MovedOnTracked ==
    ASSUME Inv, AllTracked, NEW f \in Calls, call[f].pc \in {"sent", "checked", "written"},
           NEW pc \in {"written", "done"}, Moved(f, pc),
           UNCHANGED Kept, \A l \in Lists : unsure[l] \subseteq unsure'[l],
           NEW L \in Lists, call[f].op \in Ops[L], NEW j, j = call[f].id,
           OthersHeld(L, j),
           Follows(L, j, f) => Answerable(L, j, f)
    PROVE  AllTracked'
<1>1. pc \notin {"checked", "refused"} /\ pc \in {"checked", "written", "done", "refused"}
  OBVIOUS
<1>2. j \notin unsure'[L] /\ Follows(L, j, f) => Outcome(L, j, f, pc)
  BY <1>1 DEF Outcome
<1>3. QED  BY <1>1, <1>2, MovedTracked

\* A check changes no row, and a refusal leaves nothing to tell.
LEMMA CheckTracked ==
    ASSUME Inv, AllTracked, NEW f \in Calls, Check(f)
    PROVE  AllTracked'
<1>1. /\ call[f].pc = "sent"
      /\ UNCHANGED <<db, audit, unsure>> /\ UNCHANGED Kept
  BY DEF Check
<1>2. PICK L : L = ListOf(call[f].op)  OBVIOUS
<1>3. PICK j : j = call[f].id  OBVIOUS
<1>4. L \in Lists /\ call[f].op \in Ops[L] /\ (L = "users" <=> call[f].op \in Ops["users"])
  BY <1>1, <1>2, NotAboutUsers DEF Going, Lists
<1>5. PICK pc \in {"checked", "refused"} :
         /\ Moved(f, pc)
         /\ pc = "checked" /\ call[f].op \in Ops["users"] => ~UserRefused(call[f].op, j, call[f].row)
         /\ pc = "checked" /\ call[f].op \notin Ops["users"] => ~AdminRefused(call[f].op, j)
  BY <1>3 DEF Check
<1>6. ASSUME pc = "checked", call[f].op \notin Creating
      PROVE  \E r \in db[L] : r.id = j /\ (L = "roles" => ~r.builtIn)
  <2>1. CASE L = "users"
    <3>1. call[f].op # "inviteUser"  BY <1>6 DEF Creating
    <3>2. Exists("users", j)  BY <1>4, <1>5, <1>6, <2>1, <3>1 DEF UserRefused
    <3> QED  BY <2>1, <3>2 DEF Exists
  <2>2. CASE L # "users"
    <3>1. ~AdminRefused(call[f].op, j) /\ call[f].op \notin Creates
      BY <1>4, <1>5, <1>6, <2>2 DEF Creates, Creating
    <3> QED  BY <1>2, <3>1 DEF AdminRefused
  <2> QED  BY <2>1, <2>2
<1>7. ASSUME Follows(L, j, f)
      PROVE  /\ Agreed(L, j)'
             /\ pc = "checked" /\ call[f].op \notin Creating =>
                   /\ \E v : Holds(L, db'[L], j, v)
                   /\ L = "roles" => \A v : Holds(L, db'[L], j, v) => v[2] = FALSE
  <2>1. Agreed(L, j) /\ db' = db /\ screen' = screen
    BY <1>1, <1>7 DEF Follows, Kept
  <2>2. Agreed(L, j)'  BY <2>1 DEF Agreed
  <2>3. SUFFICES ASSUME pc = "checked", call[f].op \notin Creating
                 PROVE  /\ \E v : Holds(L, db[L], j, v)
                        /\ L = "roles" => \A v : Holds(L, db[L], j, v) => v[2] = FALSE
    BY <2>1, <2>2
  <2>4. PICK r \in db[L] : r.id = j /\ (L = "roles" => ~r.builtIn)
    BY <1>6, <2>3
  <2>5. L = "roles" => \A q \in db[L] : q.id = j => q = r
    BY <2>4 DEF Inv, DbOK
  <2>6. L = "roles" => r.builtIn = FALSE
    BY <2>4, <1>4 DEF Inv, DbOK, RoleRow
  <2>7. \E v : Holds(L, db[L], j, v)  BY <2>4 DEF Holds
  <2>8. L = "roles" => \A v : Holds(L, db[L], j, v) => v[2] = FALSE
    BY <2>5, <2>6 DEF Holds, Should
  <2> QED  BY <2>7, <2>8
<1>8. Follows(L, j, f) => Outcome(L, j, f, pc)  BY <1>5, <1>7 DEF Outcome
<1>9. OthersHeld(L, j)  BY <1>1 DEF OthersHeld
<1>10. QED
  BY <1>1, <1>3, <1>4, <1>5, <1>8, <1>9, MovedTracked

\* What a write does to what the tables hold.
Edits(l, rows, j, op, row, g, T) ==
    /\ \A r \in rows : /\ g[r].id = r.id
                       /\ r.id # j => g[r] = r
                       /\ r.id = j => Should(l, g[r]) = After(op, row, Should(l, r))
    /\ \A y \in T : \E r \in rows : y = g[r]
    /\ \A r \in rows : g[r] \in T

\* A row that is edited is held as edited, and the others as before.
LEMMA EditedHolds ==
    ASSUME NEW l, NEW rows, NEW j, NEW op, NEW row, NEW g, NEW T,
           Edits(l, rows, j, op, row, g, T)
    PROVE  /\ \A i : i # j => \A v : Holds(l, T, i, v) <=> Holds(l, rows, i, v)
           /\ \A w : Holds(l, T, j, w) <=>
                       \E v : Holds(l, rows, j, v) /\ w = After(op, row, v)
<1>1. ASSUME NEW i, i # j, NEW v
      PROVE  Holds(l, T, i, v) <=> Holds(l, rows, i, v)
  BY <1>1 DEF Holds, Edits
<1>2. ASSUME NEW w
      PROVE  Holds(l, T, j, w) <=> \E v : Holds(l, rows, j, v) /\ w = After(op, row, v)
  BY DEF Holds, Edits
<1>3. QED  BY <1>1, <1>2

\* A row that is added is held, and the others as before.
LEMMA AddedHolds ==
    ASSUME NEW l, NEW rows, NEW u, \A r \in rows : r.id # u.id
    PROVE  /\ \A i : i # u.id => \A v : Holds(l, rows \cup {u}, i, v) <=> Holds(l, rows, i, v)
           /\ \A v : Holds(l, rows \cup {u}, u.id, v) <=> v = Should(l, u)
BY DEF Holds

\* A row that is dropped is not held, and the others are as before.
LEMMA DroppedHolds ==
    ASSUME NEW l, NEW rows, NEW j, NEW T, \A r : r \in T <=> r \in rows /\ r.id # j
    PROVE  /\ \A i : i # j => \A v : Holds(l, T, i, v) <=> Holds(l, rows, i, v)
           /\ \A v : ~ Holds(l, T, j, v)
BY DEF Holds

\* What is told of a row that was shown as it was.
LEMMA ToldOfChange ==
    ASSUME NEW l, NEW j, Agreed(l, j), screen' = screen, NEW op \in Changing, NEW row,
           \A w : Holds(l, db'[l], j, w) <=>
                    \E v : Holds(l, db[l], j, v) /\ w = After(op, row, v),
           \E v : Holds(l, db[l], j, v),
           l = "roles" => \A v : Holds(l, db[l], j, v) => v[2] = FALSE
    PROVE  Told(l, j, op, row)'
<1>1. op \notin Creating /\ op \notin Deleting  BY DEF Changing, Creating, Deleting
<1>2. Lone(screen[l], j) /\ \A v : Shows(l, screen[l], j, v) <=> Holds(l, db[l], j, v)
  BY DEF Agreed, ShowsRows
<1>3. \E w : Holds(l, db'[l], j, w)
  <2>1. PICK v : Holds(l, db[l], j, v)  OBVIOUS
  <2> QED  BY <2>1
<1>4. QED  BY <1>1, <1>2, <1>3 DEF Told

\* What a command has yet to create is neither shown nor in a table.
LEMMA NowhereShown ==
    ASSUME Inv, NEW f \in Calls, call[f].pc \in EarlyPcs, NEW l \in Lists
    PROVE  /\ \A v : ~ Shows(l, screen[l], f, v)
           /\ \A r \in db[l] : r.id # f
<1>1. ~ OnScreen(f) /\ ~ InDb(f)  BY DEF Inv, Unborn
<1>2. QED  BY <1>1 DEF OnScreen, InDb, Shows

\* A command about a user is written: the row is as it will be told, or is
\* as it was and the command refused.
LEMMA WriteUserTracked ==
    ASSUME Inv, AllTracked, NEW f \in Calls, WriteUser(f)
    PROVE  AllTracked'
<1>1. /\ call[f].pc = "checked" /\ call[f].op \in Ops["users"] /\ "users" \in Lists
      /\ UNCHANGED <<audit, unsure>> /\ UNCHANGED Kept
  BY DEF WriteUser, Lists
<1>2. PICK op, j, row : op = call[f].op /\ j = call[f].id /\ row = call[f].row  OBVIOUS
<1>3. CallFine(f, call[f]) /\ call[f].pc \in Going /\ call[f].pc \in EarlyPcs
  BY <1>1 DEF Inv, CallsOK, Going, EarlyPcs
<1>4. db \in [users : SUBSET UserRow, roles : SUBSET RoleRow, keys : SUBSET KeyRow]
  BY DEF Inv, DbOK
<1>5. Follows("users", j, f) => Agreed("users", j)  BY <1>1 DEF Follows
<1>6. CASE op = "inviteUser" /\ EmailTaken(row.email)
  <2>1. Moved(f, "refused") /\ db' = db  BY <1>2, <1>6 DEF WriteUser
  <2>2. screen' = screen  BY <1>1 DEF Kept
  <2>3. Follows("users", j, f) => Outcome("users", j, f, "refused")
    BY <1>5, <2>1, <2>2 DEF Agreed, Outcome
  <2>4. OthersHeld("users", j)  BY <2>1 DEF OthersHeld
  <2> QED  BY <1>1, <1>2, <2>1, <2>3, <2>4, MovedTracked
<1>7. CASE op = "inviteUser" /\ ~ EmailTaken(row.email)
  <2> DEFINE u == Invited(f, row)
  <2>1. j = f  BY <1>2, <1>3, <1>7 DEF CallFine, Creating
  <2>2. /\ Moved(f, "done") /\ db' = [db EXCEPT !["users"] = db.users \cup {u}]
    BY <1>2, <1>7, <2>1 DEF WriteUser, Put
  <2>3. u.id = f /\ Should("users", u) = <<row.name, FALSE>>  BY DEF Invited, Should
  <2> HIDE DEF u
  <2>4. /\ \A v : ~ Shows("users", screen["users"], f, v)
        /\ \A r \in db["users"] : r.id # f
    BY <1>1, <1>3, NowhereShown
  <2>5. /\ db'["users"] = db["users"] \cup {u}
        /\ \A l \in Lists : l # "users" => db'[l] = db[l]
    BY <1>4, <2>2 DEF Lists
  <2>6. /\ \A i : i # f => \A v : Holds("users", db'["users"], i, v) <=> Holds("users", db["users"], i, v)
        /\ \A v : Holds("users", db'["users"], f, v) <=> v = <<row.name, FALSE>>
    <3>1. \A r \in db["users"] : r.id # u.id  BY <2>3, <2>4
    <3>2. /\ \A i : i # u.id => \A v : Holds("users", db["users"] \cup {u}, i, v)
                                         <=> Holds("users", db["users"], i, v)
          /\ \A v : Holds("users", db["users"] \cup {u}, u.id, v) <=> v = Should("users", u)
      BY <3>1, AddedHolds
    <3> QED  BY <2>3, <2>5, <3>2
  <2>7. OthersHeld("users", j)  BY <2>1, <2>5, <2>6 DEF OthersHeld
  <2>8. Told("users", j, op, row)'
    <3>1. op \notin Deleting /\ op \notin Changing /\ New(op, row) = <<row.name, FALSE>>
      BY <1>7 DEF Deleting, Changing, New
    <3>2. screen' = screen  BY <1>1 DEF Kept
    <3> QED  BY <3>1, <3>2, <2>1, <2>4, <2>6 DEF Told
  <2>9. Answerable("users", j, f)  BY <1>2, <2>8 DEF Answerable
  <2>10. Moved(f, "done")  BY <2>2
  <2> QED  BY <1>1, <1>2, <2>7, <2>9, <2>10, MovedOnTracked
<1>8. CASE op # "inviteUser"
  <2>1. op \in {"updateUser", "disableUser", "reactivateUser"} /\ op \in Changing
    BY <1>1, <1>2, <1>8 DEF Ops, Changing
  <2> DEFINE g == [r \in db.users |-> IF r.id = j THEN Patched(op, row, r) ELSE r]
  <2>a. /\ Moved(f, "done")
        /\ Put("users", Edited(db.users, j, LAMBDA r : Patched(op, row, r)))
    BY <1>2, <1>8 DEF WriteUser
  <2>b. Edited(db.users, j, LAMBDA r : Patched(op, row, r)) = {g[r] : r \in db.users}
    BY DEF Edited
  <2>2. Moved(f, "done") /\ db' = [db EXCEPT !["users"] = {g[r] : r \in db.users}]
    BY <2>a, <2>b DEF Put
  <2>3. /\ DOMAIN g = db.users
        /\ \A r \in db.users :
              /\ g[r].id = r.id
              /\ r.id # j => g[r] = r
              /\ r.id = j => Should("users", g[r]) = After(op, row, Should("users", r))
    <3>1. SUFFICES ASSUME NEW r \in db.users
                   PROVE  /\ g[r].id = r.id
                          /\ r.id # j => g[r] = r
                          /\ r.id = j => Should("users", g[r]) = After(op, row, Should("users", r))
      OBVIOUS
    <3>2. r \in UserRow  BY <1>4
    <3>3. Patched(op, row, r).id = r.id  BY <2>1, <3>2 DEF Patched, UserRow
    <3>4. Should("users", Patched(op, row, r)) = After(op, row, Should("users", r))
      BY <2>1, <3>2 DEF Patched, UserRow, Should, After
    <3> QED  BY <3>3, <3>4
  <2> HIDE DEF g
  <2>4. PICK T : T = {g[r] : r \in db.users}  OBVIOUS
  <2>5. db'["users"] = T /\ \A l \in Lists : l # "users" => db'[l] = db[l]
    BY <1>4, <2>2, <2>4 DEF Lists
  <2>6. /\ \A i : i # j => \A v : Holds("users", T, i, v) <=> Holds("users", db.users, i, v)
        /\ \A w : Holds("users", T, j, w) <=>
                    \E v : Holds("users", db.users, j, v) /\ w = After(op, row, v)
    <3>1. (\A y \in T : \E r \in db.users : y = g[r]) /\ \A r \in db.users : g[r] \in T
      BY <2>4
    <3>2. Edits("users", db.users, j, op, row, g, T)  BY <2>3, <3>1 DEF Edits
    <3> QED  BY <3>2, EditedHolds
  <2>7. OthersHeld("users", j)  BY <2>5, <2>6 DEF OthersHeld
  <2>8. Follows("users", j, f) => Told("users", j, op, row)'
    <3>1. screen' = screen  BY <1>1 DEF Kept
    <3>2. ASSUME Follows("users", j, f) PROVE \E v : Holds("users", db["users"], j, v)
      BY <1>1, <1>2, <2>1, <3>2 DEF Follows, Creating
    <3>3. \A w : Holds("users", db'["users"], j, w) <=>
                    \E v : Holds("users", db["users"], j, v) /\ w = After(op, row, v)
      BY <2>5, <2>6
    <3> QED  BY <1>5, <2>1, <3>1, <3>2, <3>3, ToldOfChange
  <2>9. Follows("users", j, f) => Answerable("users", j, f)
    BY <1>2, <2>8 DEF Answerable
  <2>10. Moved(f, "done")  BY <2>2
  <2> QED  BY <1>1, <1>2, <2>7, <2>9, <2>10, MovedOnTracked
<1>9. QED  BY <1>6, <1>7, <1>8

\* The roles with one renamed.
Renamed(i, name) == Edited(db.roles, i, LAMBDA r : [r EXCEPT !.name = name])

\* What a handler writes of a role: nothing, or one of three things.
LEMMA WriteRoleDoes ==
    ASSUME Inv, NEW f \in Calls, WriteRole(f), NEW op, op = call[f].op,
           NEW i, i = call[f].id, NEW name, name = call[f].row.name
    PROVE  \/ Moved(f, "refused") /\ db' = db
           \/ /\ op = "createRole" /\ Moved(f, "written")
              /\ db' = [db EXCEPT !["roles"] = db.roles \cup {[id |-> i, name |-> name, builtIn |-> FALSE]}]
           \/ /\ op = "updateRole" /\ Moved(f, "written")
              /\ db' = [db EXCEPT !["roles"] = Renamed(i, name)]
           \/ /\ op = "deleteRole" /\ Moved(f, "written")
              /\ db' = [db EXCEPT !["roles"] = {r \in db.roles : r.id # i}]
<1>1. call[f].pc = "checked" /\ ListOf(op) = "roles"  BY DEF WriteRole
<1>2. op \in Ops["roles"]  BY <1>1, NotAboutUsers DEF Going
<1>3. op \in {"createRole", "updateRole", "deleteRole"}  BY <1>2 DEF Ops
<1>4. CASE op = "createRole"  BY <1>4 DEF WriteRole, Put
<1>5. CASE op = "updateRole"  BY <1>5 DEF WriteRole, Put, Renamed
<1>6. CASE op = "deleteRole"  BY <1>6 DEF WriteRole, Put
<1>7. QED  BY <1>3, <1>4, <1>5, <1>6

\* A role is written as it will be told, or the command refused.
LEMMA WriteRoleTracked ==
    ASSUME Inv, AllTracked, NEW f \in Calls, WriteRole(f)
    PROVE  AllTracked'
<1>1. /\ call[f].pc = "checked" /\ ListOf(call[f].op) = "roles" /\ "roles" \in Lists
      /\ UNCHANGED <<audit, unsure>> /\ UNCHANGED Kept
  BY DEF WriteRole, Lists
<1>2. PICK op, j, row : op = call[f].op /\ j = call[f].id /\ row = call[f].row  OBVIOUS
<1>3. PICK name : name = row.name  OBVIOUS
<1>4. /\ CallFine(f, call[f]) /\ call[f].pc \in Going /\ call[f].pc \in EarlyPcs
      /\ call[f].op \in Ops["roles"] /\ screen' = screen
  BY <1>1, NotAboutUsers DEF Inv, CallsOK, Going, EarlyPcs, Kept
<1>5. db \in [users : SUBSET UserRow, roles : SUBSET RoleRow, keys : SUBSET KeyRow]
  BY DEF Inv, DbOK
<1>6. ASSUME Follows("roles", j, f)
      PROVE  /\ Agreed("roles", j)
             /\ op \notin Creating => /\ \E v : Holds("roles", db["roles"], j, v)
                                      /\ \A v : Holds("roles", db["roles"], j, v) => v[2] = FALSE
  BY <1>1, <1>2, <1>6 DEF Follows
<1>7. ASSUME NEW T, db' = [db EXCEPT !["roles"] = T]
      PROVE  db'["roles"] = T /\ \A l \in Lists : l # "roles" => db'[l] = db[l]
  BY <1>5, <1>7 DEF Lists
<1>8. ASSUME Moved(f, "written"), OthersHeld("roles", j),
             Follows("roles", j, f) => Told("roles", j, op, row)'
      PROVE  AllTracked'
  <2>1. Follows("roles", j, f) => Answerable("roles", j, f)
    BY <1>2, <1>8 DEF Answerable
  <2> QED  BY <1>1, <1>2, <1>4, <1>8, <2>1, MovedOnTracked
<1>9. CASE Moved(f, "refused") /\ db' = db
  <2>1. Follows("roles", j, f) => Outcome("roles", j, f, "refused")
    BY <1>4, <1>6, <1>9 DEF Agreed, Outcome
  <2>2. OthersHeld("roles", j)  BY <1>9 DEF OthersHeld
  <2> QED  BY <1>1, <1>2, <1>4, <1>9, <2>1, <2>2, MovedTracked
<1>10. CASE /\ op = "createRole" /\ Moved(f, "written")
            /\ db' = [db EXCEPT !["roles"] = db.roles \cup {[id |-> j, name |-> name, builtIn |-> FALSE]}]
  <2> DEFINE r == [id |-> j, name |-> name, builtIn |-> FALSE]
  <2>1. j = f  BY <1>2, <1>4, <1>10 DEF CallFine, Creating
  <2>2. r.id = f /\ Should("roles", r) = <<row.name, FALSE>>  BY <1>3, <2>1 DEF Should
  <2>3. db' = [db EXCEPT !["roles"] = db.roles \cup {r}]  BY <1>10
  <2> HIDE DEF r
  <2>4. /\ \A v : ~ Shows("roles", screen["roles"], f, v)
        /\ \A q \in db["roles"] : q.id # f
    BY <1>1, <1>4, NowhereShown
  <2>5. /\ db'["roles"] = db["roles"] \cup {r}
        /\ \A l \in Lists : l # "roles" => db'[l] = db[l]
    BY <2>3, <1>7
  <2>6. /\ \A i : i # f => \A v : Holds("roles", db'["roles"], i, v) <=> Holds("roles", db["roles"], i, v)
        /\ \A v : Holds("roles", db'["roles"], f, v) <=> v = <<row.name, FALSE>>
    <3>1. \A q \in db["roles"] : q.id # r.id  BY <2>2, <2>4
    <3>2. /\ \A i : i # r.id => \A v : Holds("roles", db["roles"] \cup {r}, i, v)
                                         <=> Holds("roles", db["roles"], i, v)
          /\ \A v : Holds("roles", db["roles"] \cup {r}, r.id, v) <=> v = Should("roles", r)
      BY <3>1, AddedHolds
    <3> QED  BY <2>2, <2>5, <3>2
  <2>7. OthersHeld("roles", j)  BY <2>1, <2>5, <2>6 DEF OthersHeld
  <2>8. Told("roles", j, op, row)'
    <3>1. op \notin Deleting /\ op \notin Changing /\ New(op, row) = <<row.name, FALSE>>
      BY <1>10 DEF Deleting, Changing, New
    <3> QED  BY <1>4, <3>1, <2>1, <2>4, <2>6 DEF Told
  <2> QED  BY <1>8, <1>10, <2>7, <2>8
<1>11. CASE /\ op = "updateRole" /\ Moved(f, "written")
            /\ db' = [db EXCEPT !["roles"] = Renamed(j, name)]
  <2> DEFINE g == [r \in db.roles |-> IF r.id = j THEN [r EXCEPT !.name = name] ELSE r]
  <2>1. Renamed(j, name) = {g[r] : r \in db.roles}
    BY DEF Renamed, Edited
  <2>2. db' = [db EXCEPT !["roles"] = {g[r] : r \in db.roles}]  BY <1>11, <2>1
  <2>3. \A r \in db.roles :
              /\ g[r].id = r.id
              /\ r.id # j => g[r] = r
              /\ r.id = j => Should("roles", g[r]) = After(op, row, Should("roles", r))
    <3>1. \A r \in db.roles : r \in RoleRow  BY <1>5
    <3> QED  BY <1>3, <1>11, <3>1 DEF RoleRow, Should, After
  <2> HIDE DEF g
  <2>4. PICK T : T = {g[r] : r \in db.roles}  OBVIOUS
  <2>5. db'["roles"] = T /\ \A l \in Lists : l # "roles" => db'[l] = db[l]
    BY <1>7, <2>2, <2>4
  <2>6. /\ \A i : i # j => \A v : Holds("roles", T, i, v) <=> Holds("roles", db.roles, i, v)
        /\ \A w : Holds("roles", T, j, w) <=>
                    \E v : Holds("roles", db.roles, j, v) /\ w = After(op, row, v)
    <3>1. (\A y \in T : \E r \in db.roles : y = g[r]) /\ \A r \in db.roles : g[r] \in T
      BY <2>4
    <3>2. Edits("roles", db.roles, j, op, row, g, T)  BY <2>3, <3>1 DEF Edits
    <3> QED  BY <3>2, EditedHolds
  <2>7. OthersHeld("roles", j)  BY <2>5, <2>6 DEF OthersHeld
  <2>8. Follows("roles", j, f) => Told("roles", j, op, row)'
    <3>1. op \in Changing /\ op \notin Creating  BY <1>11 DEF Changing, Creating
    <3>2. \A w : Holds("roles", db'["roles"], j, w) <=>
                    \E v : Holds("roles", db["roles"], j, v) /\ w = After(op, row, v)
      BY <2>5, <2>6
    <3> QED  BY <1>4, <1>6, <3>1, <3>2, ToldOfChange
  <2> QED  BY <1>8, <1>11, <2>7, <2>8
<1>12. CASE /\ op = "deleteRole" /\ Moved(f, "written")
            /\ db' = [db EXCEPT !["roles"] = {r \in db.roles : r.id # j}]
  <2>1. PICK T : T = {r \in db["roles"] : r.id # j}  OBVIOUS
  <2>2. db'["roles"] = T /\ \A l \in Lists : l # "roles" => db'[l] = db[l]
    BY <1>7, <1>12, <2>1
  <2>3. /\ \A i : i # j => \A v : Holds("roles", T, i, v) <=> Holds("roles", db["roles"], i, v)
        /\ \A v : ~ Holds("roles", T, j, v)
    <3>1. \A r : r \in T <=> r \in db["roles"] /\ r.id # j  BY <2>1
    <3> QED  BY <3>1, DroppedHolds
  <2>4. OthersHeld("roles", j)  BY <2>2, <2>3 DEF OthersHeld
  <2>5. Follows("roles", j, f) => Told("roles", j, op, row)'
    <3>1. op \notin Creating /\ op \notin Changing  BY <1>12 DEF Changing, Creating
    <3> QED  BY <1>4, <1>6, <2>2, <2>3, <3>1 DEF Told, Agreed, ShowsRows
  <2> QED  BY <1>8, <1>12, <2>4, <2>5
<1>13. \A o, i, n : o = call[f].op /\ i = call[f].id /\ n = call[f].row.name =>
         \/ Moved(f, "refused") /\ db' = db
         \/ /\ o = "createRole" /\ Moved(f, "written")
            /\ db' = [db EXCEPT !["roles"] = db.roles \cup {[id |-> i, name |-> n, builtIn |-> FALSE]}]
         \/ /\ o = "updateRole" /\ Moved(f, "written")
            /\ db' = [db EXCEPT !["roles"] = Renamed(i, n)]
         \/ /\ o = "deleteRole" /\ Moved(f, "written")
            /\ db' = [db EXCEPT !["roles"] = {r \in db.roles : r.id # i}]
  BY WriteRoleDoes
<1>14. op = call[f].op /\ j = call[f].id /\ name = call[f].row.name  BY <1>2, <1>3
<1>15. QED  BY <1>9, <1>10, <1>11, <1>12, <1>13, <1>14

\* A key is written as it will be told.
LEMMA WriteKeyTracked ==
    ASSUME Inv, AllTracked, NEW f \in Calls, WriteKey(f)
    PROVE  AllTracked'
<1>1. /\ call[f].pc = "checked" /\ ListOf(call[f].op) = "keys" /\ "keys" \in Lists
      /\ Moved(f, "written") /\ UNCHANGED <<audit, unsure>> /\ UNCHANGED Kept
  BY DEF WriteKey, Lists
<1>2. PICK op, j, row : op = call[f].op /\ j = call[f].id /\ row = call[f].row  OBVIOUS
<1>3. /\ CallFine(f, call[f]) /\ call[f].pc \in Going /\ call[f].pc \in EarlyPcs
      /\ KnownCall(f, call[f])
      /\ call[f].op \in Ops["keys"] /\ screen' = screen
  BY <1>1, NotAboutUsers DEF Inv, CallsOK, Known, Going, EarlyPcs, Kept
<1>4. db \in [users : SUBSET UserRow, roles : SUBSET RoleRow, keys : SUBSET KeyRow]
  BY DEF Inv, DbOK
<1>5. ASSUME NEW T, db' = [db EXCEPT !["keys"] = T]
      PROVE  db'["keys"] = T /\ \A l \in Lists : l # "keys" => db'[l] = db[l]
  BY <1>4, <1>5 DEF Lists
<1>6. ASSUME OthersHeld("keys", j), Told("keys", j, op, row)'
      PROVE  AllTracked'
  <2>1. Answerable("keys", j, f)  BY <1>2, <1>6 DEF Answerable
  <2> QED  BY <1>1, <1>2, <1>3, <1>6, <2>1, MovedOnTracked
<1>7. CASE op = "createApiKey"
  <2>1. PICK r : r = [id |-> j, by |-> IF Exists("users", row.by) THEN row.by ELSE None]
    OBVIOUS
  <2>2. j = f  BY <1>2, <1>3, <1>7 DEF CallFine, Creating
  <2>3. row.by = None \/ Exists("users", row.by)  BY <1>2, <1>3, <1>7 DEF KnownCall
  <2>4. r.id = f /\ Should("keys", r) = New(op, row)
    BY <1>7, <2>1, <2>2, <2>3 DEF Should, New
  <2>5. db' = [db EXCEPT !["keys"] = db.keys \cup {r}]  BY <1>2, <1>7, <2>1 DEF WriteKey, Put
  <2>6. /\ \A v : ~ Shows("keys", screen["keys"], f, v)
        /\ \A q \in db["keys"] : q.id # f
    BY <1>1, <1>3, NowhereShown
  <2>7. /\ db'["keys"] = db["keys"] \cup {r}
        /\ \A l \in Lists : l # "keys" => db'[l] = db[l]
    BY <2>5, <1>5
  <2>8. /\ \A i : i # f => \A v : Holds("keys", db'["keys"], i, v) <=> Holds("keys", db["keys"], i, v)
        /\ \A v : Holds("keys", db'["keys"], f, v) <=> v = New(op, row)
    <3>1. \A q \in db["keys"] : q.id # r.id  BY <2>4, <2>6
    <3>2. /\ \A i : i # r.id => \A v : Holds("keys", db["keys"] \cup {r}, i, v)
                                         <=> Holds("keys", db["keys"], i, v)
          /\ \A v : Holds("keys", db["keys"] \cup {r}, r.id, v) <=> v = Should("keys", r)
      BY <3>1, AddedHolds
    <3> QED  BY <2>4, <2>7, <3>2
  <2>9. OthersHeld("keys", j)  BY <2>2, <2>7, <2>8 DEF OthersHeld
  <2>10. op \notin Deleting /\ op \notin Changing  BY <1>7 DEF Deleting, Changing
  <2>11. Told("keys", j, op, row)'  BY <1>3, <2>2, <2>6, <2>8, <2>10 DEF Told
  <2> QED  BY <1>6, <2>9, <2>11
<1>8. CASE op = "deleteApiKey"
  <2>1. PICK T : T = {r \in db["keys"] : r.id # j}  OBVIOUS
  <2>2. db' = [db EXCEPT !["keys"] = T]  BY <1>2, <1>8, <2>1 DEF WriteKey, Put
  <2>3. db'["keys"] = T /\ \A l \in Lists : l # "keys" => db'[l] = db[l]
    BY <1>5, <2>2
  <2>4. /\ \A i : i # j => \A v : Holds("keys", T, i, v) <=> Holds("keys", db["keys"], i, v)
        /\ \A v : ~ Holds("keys", T, j, v)
    <3>1. \A r : r \in T <=> r \in db["keys"] /\ r.id # j  BY <2>1
    <3> QED  BY <3>1, DroppedHolds
  <2>5. OthersHeld("keys", j)  BY <2>3, <2>4 DEF OthersHeld
  <2>6. op \notin Creating /\ op \notin Changing  BY <1>8 DEF Changing, Creating
  <2>7. Told("keys", j, op, row)'  BY <2>3, <2>4, <2>6 DEF Told
  <2> QED  BY <1>6, <2>5, <2>7
<1>9. QED  BY <1>2, <1>3, <1>7, <1>8 DEF Ops

\* Logging changes no row; one that is gone when it is read back was deleted by
\* another, and the screen unsure of it.
LEMMA RecordTracked ==
    ASSUME Inv, AllTracked, NEW f \in Calls, Record(f)
    PROVE  AllTracked'
<1>1. /\ call[f].pc = "written" /\ UNCHANGED <<db, unsure>> /\ UNCHANGED Kept
      /\ Moved(f, IF /\ call[f].op \in {"updateRole", "createApiKey"}
                     /\ ~Exists(ListOf(call[f].op), call[f].id)
                  THEN "refused" ELSE "done")
  BY DEF Record
<1>2. PICK L, op, j, row : /\ L = ListOf(call[f].op) /\ op = call[f].op
                           /\ j = call[f].id /\ row = call[f].row
  OBVIOUS
<1>3. L \in Lists /\ call[f].op \in Ops[L]
  BY <1>1, <1>2, NotAboutUsers DEF Going, Lists
<1>4. OthersHeld(L, j) /\ screen' = screen  BY <1>1 DEF OthersHeld, Kept
<1>5. Follows(L, j, f) => Told(L, j, op, row)  BY <1>1, <1>2 DEF Follows
<1>6. Told(L, j, op, row) => Told(L, j, op, row)'  BY <1>1, <1>4 DEF Told
<1>7. CASE Moved(f, "done")
  <2>1. Follows(L, j, f) => Answerable(L, j, f)  BY <1>2, <1>5, <1>6 DEF Answerable
  <2> QED  BY <1>1, <1>2, <1>3, <1>4, <1>7, <2>1, MovedOnTracked
<1>8. CASE /\ op \in {"updateRole", "createApiKey"} /\ ~Exists(L, j) /\ Moved(f, "refused")
  <2>1. \A v : ~ Holds(L, db[L], j, v)  BY <1>8 DEF Exists, Holds
  <2>2. op \in Creating \/ op \in Changing  BY <1>8 DEF Creating, Changing
  <2>3. ~ Told(L, j, op, row)  BY <2>1, <2>2 DEF Told
  <2>4. Follows(L, j, f) => Outcome(L, j, f, "refused")  BY <1>5, <2>3
  <2> QED  BY <1>1, <1>2, <1>3, <1>4, <1>8, <2>4, MovedTracked
<1>9. QED  BY <1>1, <1>2, <1>7, <1>8

\* Of the row of a handler that stops the screen is unsure.
LEMMA StopTracked ==
    ASSUME Inv, AllTracked, NEW f \in Calls, Stop(f)
    PROVE  AllTracked'
<1>1. /\ call[f].pc \in {"checked", "written"} /\ Moved(f, "refused")
      /\ Unsure(ListOf(call[f].op), {call[f].id}) /\ UNCHANGED <<db, audit>> /\ UNCHANGED Kept
  BY DEF Stop
<1>2. PICK L, j : L = ListOf(call[f].op) /\ j = call[f].id  OBVIOUS
<1>3. L \in Lists /\ call[f].op \in Ops[L] /\ j \in RealIds
  BY <1>1, <1>2, NotAboutUsers DEF Going, Lists
<1>4. \A l \in Lists : unsure'[l] = IF l = L THEN unsure[l] \cup {j} ELSE unsure[l]
  <2>1. Unsure(L, {j}) /\ {j} \in SUBSET RealIds /\ UnsureOK  BY <1>1, <1>2, <1>3 DEF Inv
  <2> QED  BY <1>3, <2>1, UnsureMore
<1>5. j \in unsure'[L] /\ \A l \in Lists : unsure[l] \subseteq unsure'[l]  BY <1>3, <1>4
<1>6. OthersHeld(L, j)  BY <1>1 DEF OthersHeld
<1>7. QED  BY <1>1, <1>2, <1>3, <1>5, <1>6, MovedTracked

\* A change by another administrator is of a row the screen may then be wrong about.
LEMMA OtherTracked ==
    ASSUME Inv, AllTracked, NEW f \in Calls, Other(f)
    PROVE  AllTracked'
<1>1. /\ call[f].pc = "idle" /\ call' = [call EXCEPT ![f] = Ended]
      /\ UNCHANGED <<screen, actor, backend, load>>
  BY DEF Other
<1>2. /\ db \in [users : SUBSET UserRow, roles : SUBSET RoleRow, keys : SUBSET KeyRow]
      /\ \A r, q \in db.roles : r.id = q.id => r = q
      /\ \A k, h \in db.keys : k.id = h.id => k = h
      /\ UnsureOK /\ f \in RealIds
  BY IdFacts DEF Inv, DbOK
<1>3. ASSUME NEW L \in Lists, NEW j \in RealIds, Unsure(L, {j}), OthersHeld(L, j)
      PROVE  AllTracked'
  <2>1. \A l \in Lists : unsure'[l] = IF l = L THEN unsure[l] \cup {j} ELSE unsure[l]
    <3>1. {j} \in SUBSET RealIds  OBVIOUS
    <3> QED  BY <1>2, <1>3, <3>1, UnsureMore
  <2>2. SUFFICES ASSUME NEW l \in Lists, NEW i \in RealIds \ unsure'[l]
                 PROVE  Tracked(l, i)'
    BY DEF AllTracked
  <2>3. Tracked(l, i) /\ (l # L \/ i # j)  BY <2>1, <2>2 DEF AllTracked
  <2>4. SameRow(l, i) /\ load'[l] = load[l]
    BY <1>1, <1>3, <2>3, SameListView DEF SameRow, OthersHeld
  <2>5. PICK c : c = Ended  OBVIOUS
  <2>6. c.pc \notin UnderWay /\ call' = [call EXCEPT ![f] = c]
    BY <1>1, <2>5, CallFacts DEF UnderWay
  <2>7. ~ On(f, l, i)  BY <1>1 DEF On, UnderWay
  <2> QED  BY <2>3, <2>4, <2>6, <2>7, ElsewhereStep
<1>4. CASE \E u \in db.users :
            /\ ~UserRefused("disableUser", u.id, NoRow)
            /\ Put("users", Edited(db.users, u.id, LAMBDA v : [v EXCEPT !.active = ~@]))
            /\ Unsure("users", {u.id})
            /\ UNCHANGED audit
  <2>1. PICK u \in db.users :
            /\ Put("users", Edited(db.users, u.id, LAMBDA v : [v EXCEPT !.active = ~@]))
            /\ Unsure("users", {u.id})
    BY <1>4
  <2>2. PICK j : j = u.id  OBVIOUS
  <2>3. j \in RealIds /\ "users" \in Lists  BY <1>2, <2>2 DEF UserRow, Lists
  <2> DEFINE g == [v \in db.users |-> IF v.id = j THEN [v EXCEPT !.active = ~@] ELSE v]
  <2>4. db' = [db EXCEPT !["users"] = {g[v] : v \in db.users}]
    BY <2>1, <2>2 DEF Put, Edited
  <2>5. \A v \in db.users : g[v].id = v.id /\ (v.id # j => g[v] = v)
    <3>1. \A v \in db.users : v \in UserRow  BY <1>2
    <3> QED  BY <3>1 DEF UserRow
  <2> HIDE DEF g
  <2>6. PICK T : T = {g[v] : v \in db.users}  OBVIOUS
  <2>7. db'["users"] = T /\ \A l \in Lists : l # "users" => db'[l] = db[l]
    BY <1>2, <2>4, <2>6 DEF Lists
  <2>8. (\A y \in T : \E v \in db.users : y = g[v]) /\ \A v \in db.users : g[v] \in T
    BY <2>6
  <2>9. \A i : i # j => \A v : Holds("users", T, i, v) <=> Holds("users", db.users, i, v)
    BY <2>5, <2>8 DEF Holds
  <2>10. OthersHeld("users", j)  BY <2>7, <2>9 DEF OthersHeld
  <2> QED  BY <1>3, <2>1, <2>2, <2>3, <2>10
<1>5. CASE \E row \in Typed :
            /\ ~EmailTaken(row.email)
            /\ Put("users", db.users \cup {Invited(f, row)})
            /\ Unsure("users", {f})
            /\ UNCHANGED audit
  <2>1. PICK row \in Typed :
            /\ Put("users", db.users \cup {Invited(f, row)})
            /\ Unsure("users", {f})
    BY <1>5
  <2>2. PICK u : u = Invited(f, row)  OBVIOUS
  <2>3. u.id = f /\ "users" \in Lists  BY <2>2 DEF Invited, Lists
  <2>4. /\ db'["users"] = db["users"] \cup {u}
        /\ \A l \in Lists : l # "users" => db'[l] = db[l]
    BY <1>2, <2>1, <2>2 DEF Lists, Put
  <2>5. \A r \in db["users"] : r.id # u.id
    BY <1>1, <2>3, NowhereShown DEF EarlyPcs
  <2>6. \A i : i # u.id => \A v : Holds("users", db["users"] \cup {u}, i, v)
                                    <=> Holds("users", db["users"], i, v)
    BY <2>5, AddedHolds
  <2>7. OthersHeld("users", f)  BY <2>3, <2>4, <2>6 DEF OthersHeld
  <2> QED  BY <1>2, <1>3, <2>1, <2>3, <2>7
<1>6. CASE \E l \in {"roles", "keys"} : \E r \in db[l] :
            /\ l = "roles" => ~r.builtIn
            /\ Put(l, db[l] \ {r})
            /\ audit' = audit \cup {<<"deleted", r.id>>}
            /\ Unsure(l, {r.id})
  <2>1. PICK L \in {"roles", "keys"} : \E r \in db[L] :
            Put(L, db[L] \ {r}) /\ Unsure(L, {r.id})
    BY <1>6
  <2>2. PICK r \in db[L] : Put(L, db[L] \ {r}) /\ Unsure(L, {r.id})
    BY <2>1
  <2>3. PICK j : j = r.id  OBVIOUS
  <2>4. L \in Lists /\ j \in RealIds  BY <1>2, <2>3 DEF Lists, RoleRow, KeyRow
  <2>5. PICK T : T = db[L] \ {r}  OBVIOUS
  <2>6. db'[L] = T /\ \A l \in Lists : l # L => db'[l] = db[l]
    BY <1>2, <2>2, <2>5 DEF Lists, Put
  <2>7. \A q : q \in T <=> q \in db[L] /\ q.id # j
    <3>1. \A q \in db[L] : q.id = j => q = r  BY <1>2, <2>3
    <3> QED  BY <2>3, <2>5, <3>1
  <2>8. \A i : i # j => \A v : Holds(L, T, i, v) <=> Holds(L, db[L], i, v)
    BY <2>7, DroppedHolds
  <2>9. OthersHeld(L, j)  BY <2>6, <2>8 DEF OthersHeld
  <2> QED  BY <1>3, <2>2, <2>3, <2>4, <2>9
<1>7. QED  BY <1>4, <1>5, <1>6 DEF Other

\* A refused change leaves the screen and the row as they were.
LEMMA RefuseTracked ==
    ASSUME Inv, AllTracked, NEW f \in Calls, Refuse(f)
    PROVE  AllTracked'
<1>1. /\ call[f].pc = "refused" /\ call' = [call EXCEPT ![f] = Ended]
      /\ UNCHANGED <<screen, actor, unsure>> /\ UNCHANGED Outside
  BY DEF Refuse
<1>2. call[f].pc \notin UnderWay  BY <1>1 DEF UnderWay
<1>3. \A l \in Lists : \A i \in RealIds : SameView(l, screen[l], screen'[l], i)
  BY <1>1, SameListView
<1>4. QED  BY <1>1, <1>2, <1>3, HereTracked

\* Of the row of a lost call the screen is unsure.
LEMMA LoseTracked ==
    ASSUME Inv, AllTracked, NEW f \in Calls, Lose(f)
    PROVE  AllTracked'
<1>1. /\ call[f].pc \in UnderWay
      /\ \/ call' = [call EXCEPT ![f] = Ended]
         \/ call' = [call EXCEPT ![f].ours = FALSE]
      /\ Unsure(ListOf(call[f].op), {call[f].id})
      /\ UNCHANGED <<screen, actor>> /\ UNCHANGED Outside
  BY DEF Lose
<1>2. PICK L, j : L = ListOf(call[f].op) /\ j = call[f].id  OBVIOUS
<1>3. L \in Lists /\ call[f].op \in Ops[L] /\ j \in RealIds
  BY <1>1, <1>2, NotAboutUsers DEF UnderWay, Going, Lists
<1>4. \A l \in Lists : unsure'[l] = IF l = L THEN unsure[l] \cup {j} ELSE unsure[l]
  <2>1. Unsure(L, {j}) /\ {j} \in SUBSET RealIds /\ UnsureOK  BY <1>1, <1>2, <1>3 DEF Inv
  <2> QED  BY <1>3, <2>1, UnsureMore
<1>5. PICK c : /\ call' = [call EXCEPT ![f] = c]
               /\ c.pc \in UnderWay => c.op = call[f].op /\ c.id = call[f].id
  <2>1. CASE call' = [call EXCEPT ![f] = Ended]
    <3>1. Ended.pc \notin UnderWay  BY CallFacts DEF UnderWay
    <3> QED  BY <2>1, <3>1
  <2>2. CASE call' = [call EXCEPT ![f].ours = FALSE]
    <3>1. PICK c : c = [call[f] EXCEPT !.ours = FALSE]  OBVIOUS
    <3>2. call[f] \in CallRow  BY DEF Inv, CallsOK
    <3>3. c.op = call[f].op /\ c.id = call[f].id  BY <3>1, <3>2 DEF CallRow
    <3>4. call' = [call EXCEPT ![f] = c]  BY <2>2, <3>1
    <3> QED  BY <3>3, <3>4
  <2> QED  BY <1>1, <2>1, <2>2
<1>6. SUFFICES ASSUME NEW l \in Lists, NEW i \in RealIds \ unsure'[l]
               PROVE  Tracked(l, i)'
  BY DEF AllTracked
<1>7. Tracked(l, i) /\ (l # L \/ i # j)  BY <1>3, <1>4, <1>6 DEF AllTracked
<1>8. SameRow(l, i) /\ load'[l] = load[l]
  BY <1>1, SameListView DEF SameRow, Outside
<1>9. call[f].op \in Ops[l] => l = L  BY <1>3, ListOfOps DEF Lists
<1>10. ~ On(f, l, i)  BY <1>2, <1>7, <1>9 DEF On
<1>11. c.pc \in UnderWay => c.op \notin Ops[l] \/ c.id # i  BY <1>2, <1>5, <1>7, <1>9
<1>12. QED  BY <1>5, <1>7, <1>8, <1>10, <1>11, ElsewhereStep

-----------------------------------------------------------------------------
(* The answer is shown *)

Nowhere(l, s, i) == \A v : ~ Shows(l, s, i, v)

\* A row that was nowhere is added at some place.
LEMMA OneAdded ==
    ASSUME NEW l, NEW i, NEW s, Nowhere(l, s, i), NEW r, r.id = i, NEW t, NEW h \in DOMAIN t,
           t[h] = r, \A k \in DOMAIN t : k # h => \E m \in DOMAIN s : t[k] = s[m]
    PROVE  Lone(t, i) /\ \A v : Shows(l, t, i, v) <=> v = Seen(l, r)
<1>1. \A k \in DOMAIN s : s[k].id # i  BY DEF Nowhere, Shows
<1>2. \A k \in DOMAIN t : t[k].id = i <=> k = h  BY <1>1
<1>3. QED  BY <1>2 DEF Lone, Shows

\* Rows dropped are not shown.
LEMMA NoneLeft ==
    ASSUME NEW S, NEW l, NEW i, NEW s \in Seq(S), NEW at \in SUBSET DOMAIN s,
           \A k \in at : s[k].id # i
    PROVE  Lone(Only(s, at), i) /\ \A v : ~ Shows(l, Only(s, at), i, v)
<1>1. \A m \in DOMAIN Only(s, at) : Nth(at, m) \in at /\ Only(s, at)[m] = s[Nth(at, m)]
  BY OnlyList
<1>2. \A m \in DOMAIN Only(s, at) : Only(s, at)[m].id # i  BY <1>1
<1>3. QED  BY <1>2 DEF Lone, Shows

\* The screen shows what it was told, and so what the server has.
LEMMA ChangeShown ==
    ASSUME NEW l, NEW i, NEW op \in Changing, NEW row, Told(l, i, op, row), db' = db,
           DOMAIN screen'[l] = DOMAIN screen[l],
           \A k \in DOMAIN screen[l] : screen'[l][k].id = screen[l][k].id,
           \A k \in DOMAIN screen[l] : screen[l][k].id = i =>
              Seen(l, screen'[l][k]) = After(op, row, Seen(l, screen[l][k]))
    PROVE  Agreed(l, i)'
<1>1. /\ Lone(screen[l], i)
      /\ \A w : Holds(l, db[l], i, w) <=> \E v : Shows(l, screen[l], i, v) /\ w = After(op, row, v)
  BY DEF Told
<1>2. Lone(screen'[l], i)  BY <1>1 DEF Lone
<1>3. \A w : Shows(l, screen'[l], i, w) <=> \E v : Shows(l, screen[l], i, v) /\ w = After(op, row, v)
  BY DEF Shows
<1>4. QED  BY <1>1, <1>2, <1>3 DEF Agreed, ShowsRows

\* So with a row created,
LEMMA CreationShown ==
    ASSUME NEW l, NEW i, NEW op \in Creating, NEW row, Told(l, i, op, row), db' = db,
           Lone(screen'[l], i), \A v : Shows(l, screen'[l], i, v) <=> v = New(op, row)
    PROVE  Agreed(l, i)'
BY DEF Told, Agreed, ShowsRows

\* and with one deleted.
LEMMA DeletionShown ==
    ASSUME NEW l, NEW i, NEW op \in Deleting, NEW row, Told(l, i, op, row), db' = db,
           Lone(screen'[l], i), \A v : ~ Shows(l, screen'[l], i, v)
    PROVE  Agreed(l, i)'
BY DEF Told, Agreed, ShowsRows

\* How each answer comes to the screen: the other rows as they were, its own as
\* told, where the answer is not in vain.
ShownAs(L, j, op, row, taken) ==
    /\ \A l \in Lists : \A i \in RealIds : l # L \/ i # j => SameView(l, screen[l], screen'[l], i)
    /\ taken /\ Told(L, j, op, row) => Agreed(L, j)'

\* An edited, disabled or reactivated user.
LEMMA UserAnswerShown ==
    ASSUME Inv, db' = db, NEW f \in Calls, NEW j \in RealIds, NEW op, NEW row, NEW taken,
           \/ op = "updateUser" /\ row \in Typed /\ ShowUpdatedUser(j, row)
           \/ op = "disableUser" /\ ShowDisabledUser(j)
           \/ op = "reactivateUser" /\ ShowReactivatedUser(j),
           taken /\ op = "disableUser" => ~ IsFinalEffectiveAdmin(j)
    PROVE  ShownAs("users", j, op, row, taken)
<1>1. ScreenOK /\ ActorOK /\ op \in Changing /\ "users" \in Lists
  BY DEF Inv, Changing, Lists
<1>2. /\ InPlace(j)
      /\ taken /\ Told("users", j, op, row) =>
           \A k \in DOMAIN screen.users : screen.users[k].id = j =>
              Seen("users", screen'.users[k]) = After(op, row, Seen("users", screen.users[k]))
  <2>1. Told("users", j, op, row) => Lone(screen.users, j)  BY <1>1 DEF Told
  <2>3. InPlace(j) => \A k \in DOMAIN screen.users : screen'.users[k].disabled \in BOOLEAN
    <3>1. SUFFICES ASSUME InPlace(j), NEW k \in DOMAIN screen.users
                   PROVE  screen'.users[k].disabled \in BOOLEAN
      OBVIOUS
    <3>2. screen'.users \in Seq(ShownUser) /\ k \in DOMAIN screen'.users
      BY <3>1 DEF InPlace, ScreenOK
    <3>3. screen'.users[k] \in ShownUser  BY <3>2
    <3> QED  BY <3>3 DEF ShownUser
  <2>4. CASE op = "updateUser" /\ row \in Typed /\ ShowUpdatedUser(j, row)
    <3>1. /\ InPlace(j)
          /\ \A k \in DOMAIN screen.users : screen.users[k].id = j =>
                 /\ screen'.users[k].name = row.name
                 /\ screen'.users[k].disabled = screen.users[k].disabled
      BY <1>1, <2>4, UpdatedUser
    <3> QED  BY <2>4, <3>1 DEF Seen, After
  <2>5. CASE op = "disableUser" /\ ShowDisabledUser(j)
    <3>1. /\ InPlace(j)
          /\ \A k \in DOMAIN screen.users : screen.users[k].id = j =>
                 screen'.users[k].name = screen.users[k].name
          /\ taken /\ Lone(screen.users, j) =>
                 \A k \in DOMAIN screen.users : screen.users[k].id = j =>
                    screen'.users[k].disabled
      BY <1>1, <2>5, DisabledUser
    <3>2. taken /\ Lone(screen.users, j) =>
                 \A k \in DOMAIN screen.users : screen.users[k].id = j =>
                    screen'.users[k].disabled = TRUE
      BY <2>3, <3>1
    <3> QED  BY <2>1, <2>5, <3>1, <3>2 DEF Seen, After
  <2>6. CASE op = "reactivateUser" /\ ShowReactivatedUser(j)
    <3>1. /\ InPlace(j)
          /\ \A k \in DOMAIN screen.users : screen.users[k].id = j =>
                 screen'.users[k].name = screen.users[k].name
          /\ Lone(screen.users, j) =>
                 \A k \in DOMAIN screen.users : screen.users[k].id = j =>
                    ~ screen'.users[k].disabled
      BY <1>1, <2>6, ReactivatedUser
    <3>2. Lone(screen.users, j) =>
                 \A k \in DOMAIN screen.users : screen.users[k].id = j =>
                    screen'.users[k].disabled = FALSE
      BY <2>3, <3>1
    <3> QED  BY <2>1, <2>6, <3>1, <3>2 DEF Seen, After
  <2> QED  BY <2>4, <2>5, <2>6
<1>3. ASSUME NEW l \in Lists, NEW i \in RealIds, l # "users" \/ i # j
      PROVE  SameView(l, screen[l], screen'[l], i)
  BY <1>1, <1>2, <1>3, InPlaceView
<1>4. ASSUME taken, Told("users", j, op, row)
      PROVE  Agreed("users", j)'
  <2>1. /\ DOMAIN screen'["users"] = DOMAIN screen["users"]
        /\ \A k \in DOMAIN screen["users"] : screen'["users"][k].id = screen["users"][k].id
        /\ \A k \in DOMAIN screen["users"] : screen["users"][k].id = j =>
              Seen("users", screen'["users"][k]) = After(op, row, Seen("users", screen["users"][k]))
    BY <1>2, <1>4 DEF InPlace
  <2> QED  BY <1>1, <1>4, <2>1, ChangeShown
<1>5. QED  BY <1>3, <1>4 DEF ShownAs

\* An invited user, whose e-mail no row on the screen has.
LEMMA InviteShown ==
    ASSUME Inv, db' = db, NEW f \in Calls, call[f].pc = "done", NEW row \in Typed,
           ShowInvitedUser(f, row), NEW taken,
           taken => \A u \in Range(screen.users) : u.email # row.email
    PROVE  ShownAs("users", f, "inviteUser", row, taken)
<1>1. ScreenOK /\ ActorOK /\ "inviteUser" \in Creating /\ "users" \in Lists /\ f \in RealIds
  BY IdFacts DEF Inv, Creating, Lists
<1>2. ASSUME taken, Told("users", f, "inviteUser", row)
      PROVE  Agreed("users", f)'
  <2>1. \A v : ~ Shows("users", screen["users"], f, v)  BY <1>1, <1>2 DEF Told
  <2>2. \A k \in DOMAIN screen.users : screen.users[k].id # f  BY <2>1 DEF Shows
  <2>3. \A k \in DOMAIN screen.users : screen.users[k].id # Temp(f)  BY DEF Inv, TempFree
  <2>4. ~ (\E u \in Range(screen.users) : u.email = row.email \/ u.id \in {f, Temp(f)})
    BY <1>2, <2>2, <2>3 DEF Range
  <2>5. /\ Lone(screen'.users, f)
        /\ \A v : Shows("users", screen'.users, f, v) <=> v = <<row.name, FALSE>>
    BY <1>1, <2>4, InvitedUser
  <2>6. New("inviteUser", row) = <<row.name, FALSE>>  BY DEF New
  <2>7. /\ Lone(screen'["users"], f)
        /\ \A v : Shows("users", screen'["users"], f, v) <=> v = New("inviteUser", row)
    BY <2>5, <2>6
  <2> QED  BY <1>1, <1>2, <2>7, CreationShown
<1>3. ASSUME NEW l \in Lists, NEW i \in RealIds, l # "users" \/ i # f
      PROVE  SameView(l, screen[l], screen'[l], i)
  BY <1>1, <1>3, InvitedUserView
<1>4. QED  BY <1>2, <1>3 DEF ShownAs

\* A role created, renamed or deleted.
LEMMA RoleAnswerShown ==
    ASSUME Inv, db' = db, NEW j \in RealIds, NEW op, NEW row,
           \/ op = "createRole" /\ row.name \in RoleNames /\ ShowCreatedRole(j, row)
           \/ op = "updateRole" /\ row.name \in RoleNames /\ ShowUpdatedRole(j, row)
           \/ op = "deleteRole" /\ ShowDeletedRole(j)
    PROVE  ShownAs("roles", j, op, row, TRUE)
<1>1. ScreenOK /\ screen.roles \in Seq(ShownRole) /\ "roles" \in Lists /\ j \in Ids
  BY IdFacts DEF Inv, ScreenOK, Lists
<1>2. ASSUME NEW l \in Lists, NEW i \in RealIds, l # "roles" \/ i # j
      PROVE  SameView(l, screen[l], screen'[l], i)
  <2>1. CASE op = "createRole" /\ row.name \in RoleNames /\ ShowCreatedRole(j, row)
    BY <1>1, <1>2, <2>1, CreatedRoleView
  <2>2. CASE op = "updateRole" /\ row.name \in RoleNames /\ ShowUpdatedRole(j, row)
    BY <1>1, <1>2, <2>2, UpdatedRoleView
  <2>3. CASE op = "deleteRole" /\ ShowDeletedRole(j)
    <3>1. ShowDeletedRole(j)  BY <2>3
    <3> QED  BY <1>1, <1>2, <3>1, DeletedRoleView
  <2> QED  BY <2>1, <2>2, <2>3
<1>3. ASSUME Told("roles", j, op, row)
      PROVE  Agreed("roles", j)'
  <2>1. CASE op = "createRole" /\ row.name \in RoleNames /\ ShowCreatedRole(j, row)
    <3>1. PICK r : /\ screen'.roles = Append(screen.roles, r) /\ r.id = j
                   /\ Seen("roles", r) = <<row.name, FALSE>>
      BY <1>1, <2>1, CreatedRole
    <3>2. op \in Creating /\ New(op, row) = <<row.name, FALSE>>
      BY <2>1 DEF Creating, New
    <3>3. Nowhere("roles", screen.roles, j)  BY <1>3, <3>2 DEF Told, Nowhere
    <3>4. PICK h : h = Len(screen.roles) + 1  OBVIOUS
    <3>5. /\ h \in DOMAIN screen'.roles /\ screen'.roles[h] = r
          /\ \A k \in DOMAIN screen'.roles : k # h =>
               k \in DOMAIN screen.roles /\ screen'.roles[k] = screen.roles[k]
      <4>1. Len(screen.roles) \in Nat /\ DOMAIN screen.roles = 1..Len(screen.roles)  BY <1>1
      <4> QED  BY <1>1, <3>1, <3>4, <4>1
    <3>6. Lone(screen'.roles, j) /\ \A v : Shows("roles", screen'.roles, j, v) <=> v = Seen("roles", r)
      <4>1. \A k \in DOMAIN screen'.roles : k # h =>
               \E m \in DOMAIN screen.roles : screen'.roles[k] = screen.roles[m]
        BY <3>5
      <4>2. r.id = j  BY <3>1
      <4> QED  BY <3>3, <3>5, <4>1, <4>2, OneAdded
    <3>7. /\ Lone(screen'["roles"], j)
          /\ \A v : Shows("roles", screen'["roles"], j, v) <=> v = New(op, row)
      BY <3>1, <3>2, <3>6
    <3> QED  BY <1>3, <3>2, <3>7, CreationShown
  <2>2. CASE op = "updateRole" /\ row.name \in RoleNames /\ ShowUpdatedRole(j, row)
    <3>1. /\ DOMAIN screen'.roles = DOMAIN screen.roles
          /\ \A k \in DOMAIN screen.roles :
                /\ screen'.roles[k].id = screen.roles[k].id
                /\ screen.roles[k].id = j /\ ~ screen.roles[k].builtIn =>
                      screen'.roles[k].name = row.name /\ ~ screen'.roles[k].builtIn
          /\ ScreenOK'
      BY <1>1, <2>2, UpdatedRole
    <3>2. op \in Changing  BY <2>2 DEF Changing
    <3>3. \A v : Shows("roles", screen.roles, j, v) => v[2] = FALSE  BY <1>3, <3>2 DEF Told
    <3>4. ASSUME NEW k \in DOMAIN screen.roles, screen.roles[k].id = j
          PROVE  screen.roles[k].builtIn = FALSE
      <4>1. Shows("roles", screen.roles, j, <<screen.roles[k].name, screen.roles[k].builtIn>>)
        BY <3>4 DEF Shows, Seen
      <4> QED  BY <3>3, <4>1
    <3>5. \A k \in DOMAIN screen'.roles : screen'.roles[k].builtIn \in BOOLEAN
      <4>1. screen'.roles \in Seq(ShownRole)  BY <3>1 DEF ScreenOK
      <4>2. \A k \in DOMAIN screen'.roles : screen'.roles[k] \in ShownRole  BY <4>1
      <4> QED  BY <4>2 DEF ShownRole
    <3>6. \A k \in DOMAIN screen.roles : screen.roles[k].id = j =>
             screen'.roles[k].name = row.name /\ screen'.roles[k].builtIn = FALSE
      BY <3>1, <3>4, <3>5
    <3>7. \A k \in DOMAIN screen["roles"] : screen["roles"][k].id = j =>
              Seen("roles", screen'["roles"][k]) = After(op, row, Seen("roles", screen["roles"][k]))
      BY <2>2, <3>4, <3>6 DEF Seen, After
    <3>8. /\ DOMAIN screen'["roles"] = DOMAIN screen["roles"]
          /\ \A k \in DOMAIN screen["roles"] : screen'["roles"][k].id = screen["roles"][k].id
      BY <3>1
    <3> QED  BY <1>3, <3>2, <3>7, <3>8, ChangeShown
  <2>3. CASE op = "deleteRole" /\ ShowDeletedRole(j)
    <3> DEFINE at == {k \in DOMAIN screen.roles :
                        screen.roles[k].id # j \/ screen.roles[k].builtIn}
    <3>1. screen'.roles = Only(screen.roles, at)  BY <1>1, <2>3, DeletedRole
    <3>2. op \in Deleting  BY <2>3 DEF Deleting
    <3>3. \A v : Shows("roles", screen.roles, j, v) => v[2] = FALSE  BY <1>3, <3>2 DEF Told
    <3>4. ASSUME NEW k \in DOMAIN screen.roles, screen.roles[k].id = j
          PROVE  screen.roles[k].builtIn = FALSE
      <4>1. Shows("roles", screen.roles, j, <<screen.roles[k].name, screen.roles[k].builtIn>>)
        BY <3>4 DEF Shows, Seen
      <4> QED  BY <3>3, <4>1
    <3>5. at \in SUBSET DOMAIN screen.roles /\ \A k \in at : screen.roles[k].id # j  BY <3>4
    <3> HIDE DEF at
    <3>6. /\ Lone(Only(screen.roles, at), j)
          /\ \A v : ~ Shows("roles", Only(screen.roles, at), j, v)
      BY <1>1, <3>5, NoneLeft
    <3>7. Lone(screen'["roles"], j) /\ \A v : ~ Shows("roles", screen'["roles"], j, v)
      BY <3>1, <3>6
    <3> QED  BY <1>3, <3>2, <3>7, DeletionShown
  <2> QED  BY <2>1, <2>2, <2>3
<1>4. QED  BY <1>2, <1>3 DEF ShownAs

\* A key created or deleted.
LEMMA KeyAnswerShown ==
    ASSUME Inv, db' = db, NEW j \in RealIds, NEW op, NEW row, NEW by \in Ids,
           \/ /\ op = "createApiKey" /\ by = IF row.by = None THEN Demo ELSE row.by
              /\ ShowCreatedKey(j, by)
           \/ op = "deleteApiKey" /\ ShowDeletedKey(j)
    PROVE  ShownAs("keys", j, op, row, TRUE)
<1>1. ScreenOK /\ screen.keys \in Seq(ShownKey) /\ "keys" \in Lists /\ j \in Ids
  BY IdFacts DEF Inv, ScreenOK, Lists
<1>2. ASSUME NEW l \in Lists, NEW i \in RealIds, l # "keys" \/ i # j
      PROVE  SameView(l, screen[l], screen'[l], i)
  <2>1. CASE ShowCreatedKey(j, by)  BY <1>1, <1>2, <2>1, CreatedKeyView
  <2>2. CASE ShowDeletedKey(j)  BY <1>1, <1>2, <2>2, DeletedKeyView
  <2> QED  BY <2>1, <2>2
<1>3. ASSUME Told("keys", j, op, row)
      PROVE  Agreed("keys", j)'
  <2>1. CASE /\ op = "createApiKey" /\ by = IF row.by = None THEN Demo ELSE row.by
             /\ ShowCreatedKey(j, by)
    <3>1. PICK r : r = [id |-> j, by |-> by]  OBVIOUS
    <3>2. screen'.keys = <<r>> \o screen.keys  BY <1>1, <2>1, <3>1, CreatedKey
    <3>3. r \in ShownKey /\ r.id = j /\ Seen("keys", r) = <<by>>
      BY <1>1, <3>1 DEF ShownKey, Seen
    <3>4. op \in Creating /\ New(op, row) = <<by>>  BY <2>1 DEF Creating, New
    <3>5. Nowhere("keys", screen.keys, j)  BY <1>3, <3>4 DEF Told, Nowhere
    <3>6. Lone(screen'.keys, j) /\ \A v : Shows("keys", screen'.keys, j, v) <=> v = Seen("keys", r)
      <4>1. Len(screen.keys) \in Nat /\ DOMAIN screen.keys = 1..Len(screen.keys)  BY <1>1
      <4>2. /\ 1 \in DOMAIN screen'.keys /\ screen'.keys[1] = r
            /\ \A k \in DOMAIN screen'.keys : k # 1 =>
                 k - 1 \in DOMAIN screen.keys /\ screen'.keys[k] = screen.keys[k - 1]
        BY <1>1, <3>2, <3>3, <4>1
      <4>3. \A k \in DOMAIN screen'.keys : k # 1 =>
               \E m \in DOMAIN screen.keys : screen'.keys[k] = screen.keys[m]
        BY <4>2
      <4> QED  BY <3>3, <3>5, <4>2, <4>3, OneAdded
    <3>7. /\ Lone(screen'["keys"], j)
          /\ \A v : Shows("keys", screen'["keys"], j, v) <=> v = New(op, row)
      BY <3>2, <3>3, <3>4, <3>6
    <3> QED  BY <1>3, <3>4, <3>7, CreationShown
  <2>2. CASE op = "deleteApiKey" /\ ShowDeletedKey(j)
    <3> DEFINE at == {k \in DOMAIN screen.keys : screen.keys[k].id # j}
    <3>1. screen'.keys = Only(screen.keys, at)  BY <1>1, <2>2, DeletedKey
    <3>2. op \in Deleting  BY <2>2 DEF Deleting
    <3>3. at \in SUBSET DOMAIN screen.keys /\ \A k \in at : screen.keys[k].id # j  OBVIOUS
    <3> HIDE DEF at
    <3>4. /\ Lone(Only(screen.keys, at), j)
          /\ \A v : ~ Shows("keys", Only(screen.keys, at), j, v)
      BY <1>1, <3>3, NoneLeft
    <3>5. Lone(screen'["keys"], j) /\ \A v : ~ Shows("keys", screen'["keys"], j, v)
      BY <3>1, <3>4
    <3> QED  BY <1>3, <3>2, <3>5, DeletionShown
  <2> QED  BY <2>1, <2>2
<1>4. QED  BY <1>2, <1>3 DEF ShownAs

\* An answer is shown, and screen and server then agree of its row; of one that is
\* ignored the screen is unsure.
LEMMA AnswerTracked ==
    ASSUME Inv, AllTracked, NEW f \in Calls, Answer(f)
    PROVE  AllTracked'
<1>1. /\ call[f].pc = "done" /\ call' = [call EXCEPT ![f] = Ended]
      /\ UNCHANGED Outside /\ Answered(f, call[f])
      /\ AnsweredInVain(call[f]) => call[f].id \in unsure'[ListOf(call[f].op)]
      /\ \A l \in Lists : unsure[l] \subseteq unsure'[l]
  BY AnswerDoes
<1>2. PICK L, j, op, row : /\ L = ListOf(call[f].op) /\ j = call[f].id
                           /\ op = call[f].op /\ row = call[f].row
  OBVIOUS
<1>3. /\ call[f].pc \in Going /\ CallFine(f, call[f]) /\ KnownCall(f, call[f])
      /\ db' = db /\ load' = load
  BY <1>1 DEF Inv, CallsOK, Known, Going, Outside
<1>4. L \in Lists /\ op \in Ops[L] /\ j \in RealIds /\ op \in AllOps
  BY <1>2, <1>3, NotAboutUsers DEF Lists
<1>5. ASSUME NEW M \in Lists, op \in Ops[M]
      PROVE  M = L
  BY <1>2, <1>5, ListOfOps DEF Lists
<1>b. PICK taken \in BOOLEAN : taken <=> ~ AnsweredInVain(call[f])  OBVIOUS
<1>6. ShownAs(L, j, op, row, taken)
  <2>1. CASE op = "inviteUser"
    <3>1. ShowInvitedUser(f, row) /\ row \in Typed /\ j = f
      BY <1>1, <1>2, <1>3, <2>1 DEF Answered, CallFine, Creating
    <3>2. taken => \A u \in Range(screen.users) : u.email # row.email
      BY <1>2, <1>b, <2>1 DEF AnsweredInVain
    <3>3. L = "users"  BY <1>5, <2>1 DEF Lists, Ops
    <3> QED  BY <1>1, <1>3, <2>1, <3>1, <3>2, <3>3, InviteShown
  <2>2. CASE op \in {"updateUser", "disableUser", "reactivateUser"}
    <3>1. \/ op = "updateUser" /\ row \in Typed /\ ShowUpdatedUser(j, row)
          \/ op = "disableUser" /\ ShowDisabledUser(j)
          \/ op = "reactivateUser" /\ ShowReactivatedUser(j)
      <4>1. CASE op = "updateUser"  BY <1>1, <1>2, <1>3, <4>1 DEF Answered, CallFine
      <4>2. CASE op = "disableUser"
        BY <1>1, <1>2, <4>2 DEF Answered
      <4>3. CASE op = "reactivateUser"  BY <1>1, <1>2, <4>3 DEF Answered
      <4> QED  BY <2>2, <4>1, <4>2, <4>3
    <3>2. L = "users"  BY <1>5, <2>2 DEF Lists, Ops
    <3>3. taken /\ op = "disableUser" => ~ IsFinalEffectiveAdmin(j)
      BY <1>2, <1>b DEF AnsweredInVain
    <3> QED  BY <1>3, <1>4, <3>1, <3>2, <3>3, UserAnswerShown
  <2>3. CASE op \in {"createRole", "updateRole", "deleteRole"}
    <3>1. \/ op = "createRole" /\ row.name \in RoleNames /\ ShowCreatedRole(j, row)
          \/ op = "updateRole" /\ row.name \in RoleNames /\ ShowUpdatedRole(j, row)
          \/ op = "deleteRole" /\ ShowDeletedRole(j)
      <4>1. CASE op = "createRole"  BY <1>1, <1>2, <1>3, <4>1 DEF Answered, CallFine
      <4>2. CASE op = "updateRole"  BY <1>1, <1>2, <1>3, <4>2 DEF Answered, CallFine
      <4>3. CASE op = "deleteRole"  BY <1>1, <1>2, <4>3 DEF Answered
      <4> QED  BY <2>3, <4>1, <4>2, <4>3
    <3>2. L = "roles"  BY <1>5, <2>3 DEF Lists, Ops
    <3> QED  BY <1>3, <1>4, <3>1, <3>2, RoleAnswerShown DEF ShownAs
  <2>4. CASE op \in {"createApiKey", "deleteApiKey"}
    <3>1. PICK by \in Ids :
              \/ /\ op = "createApiKey" /\ by = IF row.by = None THEN Demo ELSE row.by
                 /\ ShowCreatedKey(j, by)
              \/ op = "deleteApiKey" /\ ShowDeletedKey(j)
      <4>1. CASE op = "createApiKey"
        <5>1. PICK by : by = IF row.by = None THEN Demo ELSE row.by  OBVIOUS
        <5>2. ShowCreatedKey(j, by)  BY <1>1, <1>2, <4>1, <5>1 DEF Answered
        <5>3. call[f] \in CallRow  BY DEF Inv, CallsOK
        <5>4. row.by \in RealIds \cup {None}  BY <1>2, <5>3 DEF CallRow, Rows
        <5>5. by \in Ids  BY <5>1, <5>4, IdFacts
        <5> QED  BY <4>1, <5>1, <5>2, <5>5
      <4>2. CASE op = "deleteApiKey"
        <5>1. ShowDeletedKey(j)  BY <1>1, <1>2, <4>2 DEF Answered
        <5> QED  BY <4>2, <5>1, IdFacts
      <4> QED  BY <2>4, <4>1, <4>2
    <3>2. L = "keys"  BY <1>5, <2>4 DEF Lists, Ops
    <3> QED  BY <1>3, <1>4, <3>1, <3>2, KeyAnswerShown DEF ShownAs
  <2> QED  BY <1>4, <2>1, <2>2, <2>3, <2>4 DEF AllOps
<1>7. j \notin unsure'[L] => taken  BY <1>1, <1>2, <1>b
<1>8. PICK c : c = Ended  OBVIOUS
<1>9. c.pc \notin UnderWay /\ call' = [call EXCEPT ![f] = c]
  BY <1>1, <1>8, CallFacts DEF UnderWay
<1>10. SUFFICES ASSUME NEW l \in Lists, NEW i \in RealIds \ unsure'[l]
                PROVE  Tracked(l, i)'
  BY DEF AllTracked
<1>11. Tracked(l, i) /\ load'[l] = load[l]  BY <1>1, <1>3, <1>10 DEF AllTracked
<1>12. CASE l # L \/ i # j
  <2>1. SameRow(l, i)  BY <1>3, <1>6, <1>12 DEF ShownAs, SameRow
  <2>2. ~ On(f, l, i)  BY <1>2, <1>5, <1>12 DEF On
  <2> QED  BY <1>9, <1>11, <2>1, <2>2, ElsewhereStep
<1>13. CASE l = L /\ i = j
  <2>1. On(f, l, i)  BY <1>1, <1>2, <1>4, <1>13 DEF On, UnderWay
  <2>2. ASSUME load[l].pc = "done"
        PROVE  Agreed(l, i)'
    <3>1. Follows(l, i, f)  BY <1>11, <2>1, <2>2, OwnFollows
    <3>2. Told(L, j, op, row)  BY <1>1, <1>2, <1>13, <3>1 DEF Follows
    <3>3. Agreed(L, j)'  BY <1>6, <1>7, <1>10, <1>13, <3>2 DEF ShownAs
    <3> QED  BY <1>13, <3>3
  <2> QED  BY <1>9, <1>11, <2>1, <2>2, OwnStep
<1>14. QED  BY <1>12, <1>13

-----------------------------------------------------------------------------
(* The lists are loaded *)

\* What is read is what the server has, of every row no command is about.
LEMMA ListRowsTracked ==
    ASSUME Inv, AllTracked, NEW l \in Lists, ListRows(l) \/ Missed(l)
    PROVE  AllTracked'
<1>1. /\ UNCHANGED <<db, audit, screen, actor, backend, call, unsure>>
      /\ load[l].pc \in {"asked", "read"}
  BY DEF ListRows, Missed
<1>2. PICK x : /\ x \in {[pc |-> "read", rows |-> db[l]], [pc |-> "failed", rows |-> {}]}
               /\ load' = [load EXCEPT ![l] = x]
  BY DEF ListRows, Missed
<1>3. load'[l] = x /\ \A m \in Lists : m # l => load'[m] = load[m]
  BY <1>2 DEF Inv, LoadOK
<1>4. SUFFICES ASSUME NEW m \in Lists, NEW i \in RealIds \ unsure[m]
               PROVE  Tracked(m, i)'
  BY <1>1 DEF AllTracked
<1>5. Tracked(m, i)  BY <1>4 DEF AllTracked
<1>6. \A f \in Calls : On(f, m, i)' <=> On(f, m, i)  BY <1>1 DEF On
<1>7. CASE m # l
  <2>1. SameRow(m, i)  BY <1>1, SameListView DEF SameRow
  <2> QED  BY <1>1, <1>3, <1>5, <1>6, <1>7, <2>1, UntouchedStep
<1>8. CASE m = l
  <2>1. \A f \in Calls : ~ On(f, m, i)'  BY <1>1, <1>5, <1>6, <1>8 DEF Tracked
  <2>2. x.pc # "done" /\ (x.pc = "read" => x.rows = db[l])  BY <1>2
  <2> QED  BY <1>1, <1>3, <1>8, <2>1, <2>2 DEF Tracked
<1>9. QED  BY <1>7, <1>8

\* A list that is shown is what the server has of each row the screen is sure of.
LEMMA TakenTracked ==
    ASSUME Inv, AllTracked, NEW l \in Lists, Taken(l)
    PROVE  AllTracked'
<1>1. /\ load[l].pc = "read" /\ load' = [load EXCEPT ![l] = [pc |-> "done", rows |-> {}]]
      /\ UNCHANGED <<db, audit, backend, call, unsure>>
  BY DEF Taken
<1>2. ScreenOK /\ ActorOK /\ LoadOK  BY DEF Inv
<1>3. PICK rows : rows = load[l].rows  OBVIOUS
<1>4. /\ IsFiniteSet(rows) /\ \A r, q \in rows : r.id = q.id => r = q
  BY <1>2, <1>3 DEF LoadOK
<1>5. /\ \A m \in Lists : m # l => screen'[m] = screen[m]
      /\ \A i \in RealIds : ShowsRows(l, screen'[l], rows, i)
  <2>1. CASE l = "users"
    <3>1. SyncUsers(rows) /\ rows \in SUBSET UserRow
      BY <1>2, <1>3, <2>1 DEF Taken, LoadOK
    <3>2. /\ screen'.roles = screen.roles /\ screen'.keys = screen.keys
          /\ \A i \in RealIds : ShowsRows("users", screen'.users, rows, i)
      BY <1>2, <1>4, <3>1, SyncedUsers
    <3> QED  BY <2>1, <3>2 DEF Lists
  <2>2. CASE l = "roles"
    <3>1. SyncRoles(rows) /\ rows \in SUBSET RoleRow
      BY <1>2, <1>3, <2>2 DEF Taken, LoadOK
    <3>2. /\ screen'.users = screen.users /\ screen'.keys = screen.keys
          /\ \A i \in RealIds : ShowsRows("roles", screen'.roles, rows, i)
      BY <1>2, <1>4, <3>1, SyncedRoles
    <3> QED  BY <2>2, <3>2 DEF Lists
  <2>3. CASE l = "keys"
    <3>1. SyncKeys(rows) /\ rows \in SUBSET KeyRow
      BY <1>2, <1>3, <2>3 DEF Taken, LoadOK
    <3>2. /\ screen'.users = screen.users /\ screen'.roles = screen.roles
          /\ \A i \in RealIds : ShowsRows("keys", screen'.keys, rows, i)
      BY <1>2, <1>4, <3>1, SyncedKeys
    <3> QED  BY <2>3, <3>2 DEF Lists
  <2> QED  BY <2>1, <2>2, <2>3 DEF Lists
<1>6. load'[l].pc = "done" /\ \A m \in Lists : m # l => load'[m] = load[m]
  BY <1>1, <1>2 DEF LoadOK
<1>7. SUFFICES ASSUME NEW m \in Lists, NEW i \in RealIds \ unsure[m]
               PROVE  Tracked(m, i)'
  BY <1>1 DEF AllTracked
<1>8. Tracked(m, i)  BY <1>7 DEF AllTracked
<1>9. \A f \in Calls : On(f, m, i)' <=> On(f, m, i)  BY <1>1 DEF On
<1>10. CASE m # l
  <2>1. SameRow(m, i)  BY <1>1, <1>5, <1>10, SameListView DEF SameRow
  <2> QED  BY <1>1, <1>6, <1>8, <1>9, <1>10, <2>1, UntouchedStep
<1>11. CASE m = l
  <2>1. \A f \in Calls : ~ On(f, m, i)'  BY <1>1, <1>8, <1>9, <1>11 DEF Tracked
  <2>2. \A v : Holds(l, rows, i, v) <=> Holds(l, db[l], i, v)
    BY <1>1, <1>3, <1>8, <1>11 DEF Tracked
  <2>3. Agreed(l, i)'  BY <1>1, <1>5, <2>2 DEF Agreed, ShowsRows
  <2> QED  BY <1>6, <1>11, <2>1, <2>3 DEF Tracked
<1>12. QED  BY <1>10, <1>11

\* The lists are asked for: the screen is unsure of what commands are about meanwhile.
LEMMA AskedTracked ==
    ASSUME Inv, NEW pcs \in SUBSET UnderWay, AskAll(pcs),
           \A g \in Calls : call'[g].pc \in UnderWay =>
              /\ call[g].pc \in pcs /\ call'[g].op = call[g].op /\ call'[g].id = call[g].id
    PROVE  AllTracked'
<1>1. \A l \in Lists : load'[l].pc = "asked" /\ unsure'[l] = CallsOn(l, pcs)
  BY AskedAll
<1>2. SUFFICES ASSUME NEW l \in Lists, NEW i \in RealIds \ unsure'[l]
               PROVE  Tracked(l, i)'
  BY DEF AllTracked
<1>3. ASSUME NEW g \in Calls, On(g, l, i)'
      PROVE  FALSE
  <2>1. call[g].pc \in pcs /\ On(g, l, i)  BY <1>3 DEF On
  <2>2. i \in CallsOn(l, pcs)  BY <2>1, OnInFlight
  <2> QED  BY <1>1, <1>2, <2>2
<1>4. QED  BY <1>1, <1>3 DEF Tracked

\* The backend is found, or the page loaded again.
LEMMA LoadsTracked ==
    ASSUME Inv, AllTracked, FindBackend \/ \E f \in Calls : Reload(f)
    PROVE  AllTracked'
<1>1. CASE FindBackend
  <2>1. AskAll(UnderWay) /\ call' = call  BY <1>1 DEF FindBackend
  <2>2. UnderWay \in SUBSET UnderWay  OBVIOUS
  <2> QED  BY <2>1, <2>2, AskedTracked
<1>2. CASE \E f \in Calls : Reload(f)
  <2>1. PICK f \in Calls : Reload(f)  BY <1>2
  <2>2. PICK pcs : pcs = {"sent", "checked", "written"}  OBVIOUS
  <2>3. pcs \in SUBSET UnderWay  BY <2>2 DEF UnderWay
  <2>4. /\ AskAll(pcs)
        /\ \A g \in Calls :
                \/ call'[g] = Ended
                \/ /\ call[g].pc \in {"idle", "sent", "checked", "written", "ended"}
                   /\ call'[g].pc = call[g].pc /\ call'[g].op = call[g].op
                   /\ call'[g].id = call[g].id
    BY <2>1, <2>2, ReloadDoes
  <2>5. Ended.pc \notin UnderWay  BY CallFacts DEF UnderWay
  <2>6. \A g \in Calls : call'[g].pc \in UnderWay =>
              /\ call[g].pc \in pcs /\ call'[g].op = call[g].op /\ call'[g].id = call[g].id
    BY <2>2, <2>4, <2>5 DEF UnderWay
  <2> QED  BY <2>3, <2>4, <2>6, AskedTracked
<1>3. QED  BY <1>1, <1>2

-----------------------------------------------------------------------------
(* The screen agrees *)

\* Before a list is asked for nothing is said of its rows.
LEMMA InitTracked ==
    ASSUME Init
    PROVE  AllTracked
<1>1. \A l \in Lists : load[l].pc = "due"  BY DEF Init
<1>2. QED  BY <1>1 DEF AllTracked, Tracked

\* Nothing happens.
LEMMA SameTracked ==
    ASSUME AllTracked, UNCHANGED vars
    PROVE  AllTracked'
<1>1. /\ screen' = screen /\ db' = db /\ load' = load /\ unsure' = unsure /\ call' = call
  BY DEF vars
<1>2. SUFFICES ASSUME NEW l \in Lists, NEW i \in RealIds \ unsure[l]
               PROVE  Tracked(l, i)'
  BY <1>1 DEF AllTracked
<1>3. Tracked(l, i) /\ SameRow(l, i)  BY <1>1, <1>2, SameListView DEF AllTracked, SameRow
<1>4. \A f \in Calls : On(f, l, i)' => On(f, l, i)  BY <1>1 DEF On
<1>5. QED  BY <1>1, <1>3, <1>4, UntouchedStep

\* Every step keeps what the screen is sure of: one step per action.
LEMMA NextTracked ==
    ASSUME Inv, AllTracked, [Next]_vars
    PROVE  AllTracked'
<1>1. CASE \E f \in Calls :
             \/ SwitchActor(f) \/ CreateApiKey(f) \/ DeleteApiKey(f)
             \/ InviteUser(f) \/ OpenEdit(f) \/ UpdateUser(f)
             \/ DisableUser(f) \/ ReactivateUser(f)
             \/ CreateRole(f) \/ OpenRoleEdit(f) \/ UpdateRole(f) \/ DeleteRole(f)
  BY <1>1, TypedTracked, KeysTracked, UserActionsTracked, RolesTracked
<1>2. CASE \E f \in Calls :
             \/ Check(f) \/ WriteUser(f) \/ WriteRole(f) \/ WriteKey(f) \/ Record(f) \/ Stop(f)
             \/ Answer(f) \/ Refuse(f) \/ Lose(f) \/ Other(f)
  BY <1>2, CheckTracked, WriteUserTracked, WriteRoleTracked, WriteKeyTracked, RecordTracked,
     StopTracked, AnswerTracked, RefuseTracked, LoseTracked, OtherTracked
<1>3. CASE FindBackend \/ \E f \in Calls : Reload(f)  BY <1>3, LoadsTracked
<1>4. CASE \E l \in Lists : ListRows(l) \/ LoadFails(l) \/ ShowList(l)
  BY <1>4, LoadEnds, ListRowsTracked, TakenTracked
<1>5. CASE UNCHANGED vars  BY <1>5, SameTracked
<1>6. QED  BY <1>1, <1>2, <1>3, <1>4, <1>5 DEF Next

\* Where nothing is under way about a row, tracked means that it is shown as it is.
LEMMA TrackedAgrees ==
    ASSUME Inv, AllTracked
    PROVE  ScreenAgrees
<1>1. SUFFICES ASSUME NEW l \in Lists, load[l].pc = "done",
                      NEW i \in RealIds \ (unsure[l] \cup InFlight(l)),
                      NEW shown, shown = {k \in DOMAIN screen[l] : screen[l][k].id = i}
               PROVE  /\ Cardinality(shown) = IF Exists(l, i) THEN 1 ELSE 0
                      /\ \A row \in db[l], k \in shown : row.id = i => Agrees(l, row, screen[l][k])
  BY DEF ScreenAgrees
<1>2. \A f \in Calls : ~ On(f, l, i)
  <2>1. SUFFICES ASSUME NEW f \in Calls, On(f, l, i) PROVE FALSE
    OBVIOUS
  <2>2. call[f].pc \in UnderWay  BY <2>1 DEF On
  <2>3. i \in CallsOn(l, UnderWay)  BY <2>1, <2>2, OnInFlight
  <2> QED  BY <1>1, <2>3 DEF InFlight
<1>3. Agreed(l, i)  BY <1>1, <1>2 DEF AllTracked, Tracked
<1>4. /\ \A j, k \in shown : j = k
      /\ \A v : (\E k \in shown : Seen(l, screen[l][k]) = v)
                  <=> \E r \in db[l] : r.id = i /\ Should(l, r) = v
  BY <1>1, <1>3 DEF Agreed, ShowsRows, Lone, Shows, Holds
<1>5. CASE Exists(l, i)
  <2>1. PICK k : k \in shown  BY <1>4, <1>5 DEF Exists
  <2>2. shown = {k}  BY <1>4, <2>1
  <2>3. Cardinality(shown) = 1  BY <2>2, FS_Singleton
  <2>4. ASSUME NEW row \in db[l], NEW h \in shown, row.id = i
        PROVE  Agrees(l, row, screen[l][h])
    <3>1. Seen(l, screen[l][h]) = Should(l, row)  BY <1>4, <2>4
    <3> QED  BY <3>1 DEF Seen, Should, Agrees, Lists
  <2> QED  BY <1>5, <2>3, <2>4
<1>6. CASE ~ Exists(l, i)
  <2>1. shown = {}  BY <1>4, <1>6 DEF Exists
  <2>2. Cardinality(shown) = 0  BY <2>1, FS_EmptySet
  <2> QED  BY <1>6, <2>1, <2>2
<1>7. QED  BY <1>5, <1>6

\* Once a list is loaded, each row of the server is shown once, as it is, and no other
\* row with such an id, but for rows under way or that the screen may be wrong about
\* (FreshProvider.tsx:1416-1424, "Writes WAIT FOR THE SERVER").
THEOREM OrgScreenAgrees == Spec => []ScreenAgrees
<1>1. Init => Inv /\ AllTracked  BY InitInv, InitTracked
<1>2. Inv /\ AllTracked /\ [Next]_vars => (Inv /\ AllTracked)'  BY NextInv, NextTracked
<1>3. Inv /\ AllTracked => ScreenAgrees  BY TrackedAgrees
<1>4. QED  BY <1>1, <1>2, <1>3, PTL DEF Spec

-----------------------------------------------------------------------------
(* Who acts *)

\* Where the row of who acts is, when that is clear.
ActsAt(k) ==
    /\ k \in DOMAIN screen.users
    /\ screen.users[k].id = actor
    /\ \A m \in DOMAIN screen.users : m # k =>
         /\ screen.users[m].id # actor
         /\ screen.users[m].name # screen.users[k].name
         /\ \A u \in load["users"].rows :
              u.name = screen.users[k].name => u.id # screen.users[m].id

\* What may become of who acts, other than by choosing another.
StillActs ==
    \/ Acting'.name = Acting.name
    \/ actor' = actor /\ actor \in IdsOf(screen'.users)
    \/ \E u \in Range(screen'.users) : u.name = Acting.name /\ u.disabled
    \/ \A u \in Range(screen'.users) : u.name # Acting.name
    \/ ActorTwice'

\* It is the row of that id.
LEMMA ActingAt ==
    ASSUME ScreenOK, NEW p, ActsAt(p)
    PROVE  Acting = screen.users[p]
<1>1. screen.users \in Seq(ShownUser)  BY DEF ScreenOK
<1>2. actor \in IdsOf(screen.users)  BY DEF ActsAt, IdsOf, Range
<1>3. PICK k \in DOMAIN screen.users :
        screen.users[k].id = actor /\ RowOf(screen.users, actor) = screen.users[k]
  BY <1>1, <1>2, RowOfId
<1>4. k = p  BY <1>3 DEF ActsAt
<1>5. QED  BY <1>2, <1>3, <1>4 DEF Acting

\* A step that keeps who acts, and the ids of the rows, keeps the row.
LEMMA RowsKeepActor ==
    ASSUME NEW p, ActsAt(p), actor' = actor,
           DOMAIN screen'.users = DOMAIN screen.users,
           screen'.users[p].id = screen.users[p].id
    PROVE  StillActs
<1>1. p \in DOMAIN screen'.users /\ screen'.users[p].id = actor  BY DEF ActsAt
<1>2. screen'.users[p] \in Range(screen'.users)  BY <1>1 DEF Range
<1>3. actor \in IdsOf(screen'.users)  BY <1>1, <1>2 DEF IdsOf
<1>4. QED  BY <1>3 DEF StillActs

\* So do the commands about a user, but that who is disabled stops acting.
LEMMA UserChangeKeepsActor ==
    ASSUME ScreenOK, ActorOK, NEW p, ActsAt(p), NEW i, NEW row,
           \/ row \in Typed /\ ShowUpdatedUser(i, row)
           \/ ShowDisabledUser(i)
           \/ ShowReactivatedUser(i)
    PROVE  StillActs
<1>1. InPlace(i)  BY UpdatedUser, DisabledUser, ReactivatedUser
<1>2. CASE actor' = actor
  BY <1>1, <1>2, RowsKeepActor DEF InPlace, ActsAt
<1>3. CASE actor' # actor
  <2>1. ShowDisabledUser(i)  BY <1>3, UpdatedUser, ReactivatedUser
  <2>2. ~ IsFinalEffectiveAdmin(i) /\ actor = i
    BY <2>1, <1>3 DEF ShowDisabledUser, Disableable
  <2>3. Lone(screen.users, i)  BY <2>2 DEF Lone, ActsAt
  <2>4. screen'.users[p].disabled /\ screen'.users[p].name = screen.users[p].name
    BY <2>1, <2>2, <2>3, DisabledUser DEF ActsAt
  <2>5. screen'.users[p] \in Range(screen'.users)  BY <1>1 DEF InPlace, ActsAt, Range
  <2>6. QED  BY <2>4, <2>5, ActingAt DEF StillActs
<1>4. QED  BY <1>2, <1>3

\* The id of who acts is one of those of the rows of the server by that name, if
\* there are any: no other row of the screen has the id of one of these.
LEMMA ActorFollows ==
    ASSUME ScreenOK, NEW s, Len(s) \in Nat, NEW p, ActsAt(p),
           \A j \in 1..Len(s) : s[j] \in load["users"].rows
    PROVE  \/ /\ SyncedActor(s) = actor
              /\ \A j \in 1..Len(s) : s[j].name # screen.users[p].name
           \/ \E j \in 1..Len(s) : /\ s[j].name = screen.users[p].name
                                   /\ SyncedActor(s) = s[j].id
<1> DEFINE N == Len(s)
           name == screen.users[p].name
<1>1. N \in Nat  OBVIOUS
<1> HIDE DEF N
<1>a. N = Len(s)  BY DEF N
<1>2. PICK a : /\ DOMAIN a = 0..N /\ a[0] = actor /\ SyncedActor(s) = a[N]
               /\ \A n \in 1..N :
                      a[n] = IF /\ LocalOf(s[n].name) # 0
                                /\ a[n - 1] = screen.users[LocalOf(s[n].name)].id
                             THEN s[n].id ELSE a[n - 1]
  BY <1>1, <1>a, ActorSteps
<1> DEFINE Before(n) == a[n] = actor /\ \A j \in 1..n : s[j].name # name
           Since(n) == \E j \in 1..n : s[j].name = name /\ a[n] = s[j].id
           T == {n \in 0..N : ~ (Before(n) \/ Since(n))}
<1>3. LocalOf(name) = p
  <2>1. LocalOf(name) # 0  BY LocalPlace DEF ActsAt
  <2>2. QED  BY <2>1, LocalPlace DEF ActsAt
<1>4. \A m : m.name # name /\ LocalOf(m.name) # 0 =>
        LocalOf(m.name) \in DOMAIN screen.users /\ LocalOf(m.name) # p
  BY LocalPlace
<1>5. \A j \in 1..N : s[j] \in load["users"].rows  BY <1>a
<1>6. T = {}
  <2>1. SUFFICES ASSUME T # {} PROVE FALSE  OBVIOUS
  <2>2. T \in SUBSET Nat  OBVIOUS
  <2>3. \E x \in T : \A y \in T : ~ (<<y, x>> \in OpToRel(<, Nat))
    BY <2>1, <2>2, NatLessThanWellFounded, WFMin
  <2>4. \A y, x \in T : y < x => <<y, x>> \in OpToRel(<, Nat)  BY <2>2 DEF OpToRel
  <2>5. PICK n \in T : \A y \in T : ~ (y < n)  BY <2>3, <2>4
  <2>6. n \in 0..N /\ ~ (Before(n) \/ Since(n))  OBVIOUS
  <2>7. n # 0
    <3>1. Before(0)  BY <1>2
    <3>2. QED  BY <3>1, <2>6
  <2>8. n \in 1..N /\ n - 1 \in 0..N /\ n - 1 < n  BY <2>6, <2>7, <1>1
  <2>9. Before(n - 1) \/ Since(n - 1)  BY <2>5, <2>8
  <2>10. /\ n \in 1..n /\ \A j \in 1..n : j = n \/ j \in 1..(n - 1)
         /\ \A j \in 1..(n - 1) : j \in 1..n /\ j \in 1..N
    BY <2>8, <1>1
  <2>11. a[n] = IF /\ LocalOf(s[n].name) # 0
                   /\ a[n - 1] = screen.users[LocalOf(s[n].name)].id
                THEN s[n].id ELSE a[n - 1]
    BY <2>8, <1>2
  <2>a. p \in DOMAIN screen.users /\ screen.users[p].id = actor  BY DEF ActsAt
  <2>b. LocalOf(name) # 0  BY LocalPlace, <2>a
  <2>12. CASE Before(n - 1) /\ s[n].name = name
    <3>1. a[n - 1] = screen.users[LocalOf(s[n].name)].id  BY <2>12, <2>a, <1>3
    <3>2. a[n] = s[n].id  BY <3>1, <2>11, <2>12, <2>b
    <3>3. Since(n)  BY <3>2, <2>10, <2>12
    <3>4. QED  BY <3>3, <2>6
  <2>13. CASE Before(n - 1) /\ s[n].name # name
    <3>1. LocalOf(s[n].name) # 0 => screen.users[LocalOf(s[n].name)].id # actor
      BY <2>13, <1>4 DEF ActsAt
    <3>2. a[n] = actor  BY <3>1, <2>11, <2>13
    <3>3. Before(n)  BY <3>2, <2>10, <2>13
    <3>4. QED  BY <3>3, <2>6
  <2>14. CASE Since(n - 1) /\ s[n].name = name
    <3>1. PICK j \in 1..(n - 1) : s[j].name = name /\ a[n - 1] = s[j].id  BY <2>14
    <3>2. a[n] = s[n].id \/ a[n] = s[j].id  BY <3>1, <2>11
    <3>3. Since(n)  BY <3>1, <3>2, <2>10, <2>14
    <3>4. QED  BY <3>3, <2>6
  <2>15. CASE Since(n - 1) /\ s[n].name # name
    <3>1. PICK j \in 1..(n - 1) : s[j].name = name /\ a[n - 1] = s[j].id  BY <2>15
    <3>2. s[j] \in load["users"].rows  BY <3>1, <2>10, <1>5
    <3>3. LocalOf(s[n].name) # 0 => s[j].id # screen.users[LocalOf(s[n].name)].id
      BY <3>1, <3>2, <2>15, <1>4 DEF ActsAt
    <3>4. a[n] = s[j].id  BY <3>1, <3>3, <2>11
    <3>5. Since(n)  BY <3>1, <3>4, <2>10
    <3>6. QED  BY <3>5, <2>6
  <2>16. QED  BY <2>9, <2>12, <2>13, <2>14, <2>15
<1>7. N \in 0..N  BY <1>1
<1>8. Before(N) \/ Since(N)  BY <1>6, <1>7
<1>9. QED  BY <1>2, <1>8, <1>a

\* When the users are loaded the row of who acts takes the id of the server, or is
\* kept, or dropped.
LEMMA LoadKeepsActor ==
    ASSUME ScreenOK, ActorOK, LoadOK, NEW p, ActsAt(p), SyncUsers(load["users"].rows)
    PROVE  StillActs
<1> DEFINE rows == load["users"].rows
           s == SetToSeq(rows)
           name == screen.users[p].name
           shown == screen'.users
<1>1. /\ rows \in SUBSET UserRow /\ IsFiniteSet(rows)
      /\ \A r, q \in rows : r.id = q.id => r = q
  BY DEF LoadOK, Lists
<1>2. /\ s \in Seq(UserRow) /\ \A k \in DOMAIN s : s[k] \in rows
      /\ \A r \in rows : \E k \in DOMAIN s : s[k] = r
  BY <1>1, SetToSeqList
<1>3. actor' = SyncedActor(s)  BY DEF SyncUsers
<1>4. /\ ScreenOK'
      /\ \A i \in RealIds : ShowsRows("users", shown, rows, i)
      /\ \A k \in DOMAIN shown :
           \/ \E r \in rows : shown[k].id = r.id
           \/ \E m \in DOMAIN screen.users :
                screen.users[m] = shown[k] /\ screen.users[m].id \notin RealIds
  BY <1>1, SyncedUsers
<1> HIDE DEF s
<1>5. Len(s) \in Nat /\ DOMAIN s = 1..Len(s)  BY <1>2
<1>6. \/ /\ actor' = actor
         /\ \A j \in 1..Len(s) : s[j].name # name
      \/ \E j \in 1..Len(s) : s[j].name = name /\ actor' = s[j].id
  BY <1>2, <1>3, <1>5, ActorFollows
<1>7. Acting.name = name  BY ActingAt
<1> HIDE DEF name
<1>8. CASE \E j \in 1..Len(s) : s[j].name = name /\ actor' = s[j].id
  <2>1. PICK r \in rows : r.name = name /\ actor' = r.id  BY <1>2, <1>5, <1>8
  <2>2. r.id \in RealIds  BY <1>1, <2>1 DEF UserRow
  <2>3. Holds("users", rows, r.id, <<r.name, ~ r.active>>)  BY <2>1 DEF Holds, Should
  <2>4. Shows("users", shown, r.id, <<r.name, ~ r.active>>) /\ Lone(shown, r.id)
    BY <1>4, <2>2, <2>3 DEF ShowsRows
  <2>5. PICK k \in DOMAIN shown : shown[k].id = r.id /\ Seen("users", shown[k]) = <<r.name, ~ r.active>>
    BY <2>4 DEF Shows
  <2>6. shown[k].name = name  BY <2>1, <2>5 DEF Seen
  <2>7. shown \in Seq(ShownUser)  BY <1>4 DEF ScreenOK
  <2>8. shown[k] \in Range(shown)  BY <2>5 DEF Range
  <2>9. actor' \in IdsOf(shown)  BY <2>1, <2>5, <2>8 DEF IdsOf
  <2>10. PICK m \in DOMAIN shown : shown[m].id = actor' /\ RowOf(shown, actor') = shown[m]
    BY <2>7, <2>9, RowOfId
  <2>11. m = k  BY <2>1, <2>4, <2>5, <2>10 DEF Lone
  <2>12. Acting'.name = name  BY <2>6, <2>9, <2>10, <2>11 DEF Acting
  <2>13. QED  BY <2>12, <1>7 DEF StillActs
<1>9. CASE /\ actor' = actor
           /\ \A j \in 1..Len(s) : s[j].name # name
  <2>1. \A r \in rows : r.name # name  BY <1>2, <1>5, <1>9
  <2>2. SUFFICES ASSUME NEW u \in Range(shown), u.name = name
                 PROVE  actor \in IdsOf(shown)
    BY <1>7, <1>9 DEF StillActs
  <2>3. PICK k \in DOMAIN shown : u = shown[k]  BY DEF Range
  <2>4. \A r \in rows : shown[k].id # r.id
    <3>1. SUFFICES ASSUME NEW r \in rows, shown[k].id = r.id PROVE FALSE  OBVIOUS
    <3>2. r.id \in RealIds  BY <1>1, <3>1 DEF UserRow
    <3>3. Shows("users", shown, r.id, Seen("users", shown[k]))  BY <3>1, <2>3 DEF Shows
    <3>4. Holds("users", rows, r.id, Seen("users", shown[k]))
      BY <1>4, <3>2, <3>3 DEF ShowsRows
    <3>5. PICK q \in rows : Should("users", q) = Seen("users", shown[k])
      BY <3>4 DEF Holds
    <3>6. q.name = name  BY <3>5, <2>2, <2>3 DEF Should, Seen
    <3>7. QED  BY <3>6, <2>1
  <2>5. PICK m \in DOMAIN screen.users : screen.users[m] = shown[k]
    BY <1>4, <2>3, <2>4
  <2>6. m = p  BY <2>2, <2>3, <2>5 DEF ActsAt, name
  <2>7. u.id = actor  BY <2>3, <2>5, <2>6 DEF ActsAt
  <2>8. QED  BY <2>7 DEF IdsOf
<1>10. QED  BY <1>6, <1>8, <1>9

\* An invited user may take over who acts by the e-mail: the row is the same, and
\* if another was shown by the id already, two are.
LEMMA InviteKeepsActor ==
    ASSUME ScreenOK, ActorOK, NEW p, ActsAt(p), NEW f \in Calls, NEW row \in Typed,
           ShowInvitedUser(f, row)
    PROVE  StillActs
<1> DEFINE s == screen.users
           new == [id |-> Temp(f), name |-> row.name, email |-> row.email,
                   role |-> row.role, disabled |-> FALSE]
           a == Append(s, new)
           h == SelectInSeq(a, LAMBDA u : u.email = row.email)
           t == [k \in DOMAIN a |-> IF a[k].id = a[h].id THEN [a[k] EXCEPT !.id = f] ELSE a[k]]
<1>1. s \in Seq(ShownUser) /\ Len(s) \in Nat /\ DOMAIN s = 1..Len(s)  BY DEF ScreenOK
<1>2. new \in ShownUser  BY TypedAssumption, IdFacts DEF ShownUser
<1> HIDE DEF new
<1>3. /\ a \in Seq(ShownUser) /\ p \in DOMAIN a /\ a[p] = s[p] /\ a[p] \in ShownUser
  BY <1>1, <1>2 DEF ActsAt
<1>4. /\ actor' = IF a[h].id \notin RealIds /\ actor = a[h].id THEN f ELSE actor
      /\ WithUsers(IF a[h].id \in RealIds THEN a ELSE t)
  BY DEF ShowInvitedUser, Adopted, Adopting, Changed, new
<1>5. screen'.users = IF a[h].id \in RealIds THEN a ELSE t
  BY <1>4 DEF WithUsers, ScreenOK
<1>6. s[p].id = actor /\ Acting = s[p]  BY ActingAt DEF ActsAt
<1> HIDE DEF a, h
<1>7. /\ p \in DOMAIN screen'.users
      /\ screen'.users[p].name = s[p].name
      /\ screen'.users[p].id = actor'
  BY <1>3, <1>4, <1>5, <1>6 DEF ShownUser
<1>8. /\ screen'.users[p] \in Range(screen'.users)
      /\ actor' \in IdsOf(screen'.users)
  BY <1>7 DEF Range, IdsOf
<1>9. ScreenOK'  BY InvitedUser
<1>10. screen'.users \in Seq(ShownUser)  BY <1>9 DEF ScreenOK
<1>11. PICK k \in DOMAIN screen'.users :
         /\ screen'.users[k].id = actor'
         /\ RowOf(screen'.users, actor') = screen'.users[k]
  BY <1>8, <1>10, RowOfId
<1>12. Acting' = screen'.users[k]  BY <1>8, <1>11 DEF Acting
<1>13. CASE k = p  BY <1>6, <1>7, <1>12, <1>13 DEF StillActs
<1>14. CASE k # p
  <2>1. ActorTwice'  BY <1>7, <1>11, <1>14 DEF ActorTwice
  <2>2. QED  BY <2>1 DEF StillActs
<1>15. QED  BY <1>13, <1>14

\* The users, and who acts, are as they were.
LEMMA UntouchedActor ==
    ASSUME NEW p, ActsAt(p), actor' = actor, screen'.users = screen.users
    PROVE  StillActs
BY RowsKeepActor

\* An answer shown.
LEMMA AnswerKeepsActor ==
    ASSUME Inv, NEW p, ActsAt(p), NEW f \in Calls, Answer(f)
    PROVE  StillActs
<1> DEFINE op == call[f].op
           i == call[f].id
           row == call[f].row
<1>1. call[f].pc = "done" /\ Answered(f, call[f])  BY AnswerDoes
<1>2. CallFine(f, call[f]) /\ call[f].pc \in Going /\ call[f] \in CallRow
  BY <1>1 DEF Inv, CallsOK, Going
<1>3. op \in AllOps /\ i \in RealIds /\ i \in Ids  BY <1>2, NotAboutUsers, IdFacts
<1>4. ScreenOK /\ ActorOK  BY DEF Inv
<1>5. CASE op = "inviteUser"
  <2>1. ShowInvitedUser(f, row) /\ row \in Typed
    BY <1>1, <1>2, <1>5 DEF Answered, CallFine
  <2>2. QED  BY <2>1, <1>4, InviteKeepsActor
<1>6. CASE op \in {"updateUser", "disableUser", "reactivateUser"}
  <2>1. \/ row \in Typed /\ ShowUpdatedUser(i, row)
        \/ ShowDisabledUser(i)
        \/ ShowReactivatedUser(i)
    BY <1>1, <1>2, <1>6 DEF Answered, CallFine
  <2>2. QED  BY <2>1, <1>4, UserChangeKeepsActor
<1>7. CASE op \in {"createRole", "updateRole", "deleteRole"}
  <2>1. \/ ShowCreatedRole(i, row) \/ ShowUpdatedRole(i, row) \/ ShowDeletedRole(i)
    BY <1>1, <1>7 DEF Answered
  <2>2. actor' = actor /\ screen'.users = screen.users
    BY <2>1, <1>4 DEF ShowCreatedRole, ShowUpdatedRole, ShowDeletedRole, Show, ScreenOK
  <2>3. QED  BY <2>2, UntouchedActor
<1>8. CASE op \in {"createApiKey", "deleteApiKey"}
  <2>1. ShowDeletedKey(i) \/ \E by : ShowCreatedKey(i, by)
    BY <1>1, <1>8 DEF Answered
  <2>2. actor' = actor /\ screen'.users = screen.users
    BY <2>1, <1>4 DEF ShowCreatedKey, ShowDeletedKey, Show, ScreenOK
  <2>3. QED  BY <2>2, UntouchedActor
<1>9. QED  BY <1>3, <1>5, <1>6, <1>7, <1>8 DEF AllOps

\* A command given at the browser, that is sent or done there.
LEMMA GivenKeepsActor ==
    ASSUME Inv, NEW p, ActsAt(p), NEW f \in Calls,
           \/ CreateApiKey(f) \/ DeleteApiKey(f) \/ InviteUser(f)
           \/ OpenEdit(f) \/ UpdateUser(f) \/ DisableUser(f) \/ ReactivateUser(f)
           \/ CreateRole(f) \/ OpenRoleEdit(f) \/ UpdateRole(f) \/ DeleteRole(f)
    PROVE  StillActs
<1>1. ScreenOK /\ ActorOK  BY DEF Inv
<1>2. \A op, i, row : Send(f, op, i, row) => actor' = actor /\ screen'.users = screen.users
  BY DEF Send
<1>3. CASE UpdateUser(f) \/ DisableUser(f) \/ ReactivateUser(f)
  <2>1. \/ \E op, i, row : Send(f, op, i, row)
        \/ \E i, row : \/ row \in Typed /\ ShowUpdatedUser(i, row)
                       \/ ShowDisabledUser(i)
                       \/ ShowReactivatedUser(i)
    BY <1>3 DEF UpdateUser, DisableUser, ReactivateUser, Sends
  <2>2. QED  BY <2>1, <1>1, <1>2, UserChangeKeepsActor, UntouchedActor
<1>4. CASE OpenEdit(f) \/ OpenRoleEdit(f)
  BY <1>4, UntouchedActor DEF OpenEdit, OpenRoleEdit
<1>5. CASE InviteUser(f)  BY <1>5, <1>2, UntouchedActor DEF InviteUser
<1>6. CASE CreateApiKey(f) \/ DeleteApiKey(f)
  <2>1. \/ \E op, i, row : Send(f, op, i, row)
        \/ \E i, by : ShowCreatedKey(i, by)
        \/ \E i : ShowDeletedKey(i)
    BY <1>6 DEF CreateApiKey, DeleteApiKey, Sends
  <2>2. actor' = actor /\ screen'.users = screen.users
    BY <2>1, <1>1, <1>2 DEF ShowCreatedKey, ShowDeletedKey, Show, ScreenOK
  <2>3. QED  BY <2>2, UntouchedActor
<1>7. CASE CreateRole(f) \/ UpdateRole(f) \/ DeleteRole(f)
  <2>1. \/ \E op, i, row : Send(f, op, i, row)
        \/ \E i, row : \/ ShowCreatedRole(i, row)
                       \/ ShowUpdatedRole(i, row)
        \/ \E i : ShowDeletedRole(i)
    BY <1>7 DEF CreateRole, UpdateRole, DeleteRole, Sends
  <2>2. actor' = actor /\ screen'.users = screen.users
    BY <2>1, <1>1, <1>2 DEF ShowCreatedRole, ShowUpdatedRole, ShowDeletedRole, Show, ScreenOK
  <2>3. QED  BY <2>2, UntouchedActor
<1>8. QED  BY <1>3, <1>4, <1>5, <1>6, <1>7

\* What the server does, and an answer that is an error or is lost.
LEMMA ElsewhereKeepsActor ==
    ASSUME Inv, NEW p, ActsAt(p), NEW f \in Calls,
           \/ Check(f) \/ WriteUser(f) \/ WriteRole(f) \/ WriteKey(f) \/ Record(f) \/ Stop(f)
           \/ Refuse(f) \/ Lose(f) \/ Other(f) \/ Reload(f)
    PROVE  StillActs
<1>1. CASE Check(f) \/ WriteUser(f) \/ WriteRole(f)
  BY <1>1, UntouchedActor DEF Check, WriteUser, WriteRole, Kept
<1>2. CASE WriteKey(f) \/ Record(f) \/ Stop(f)
  BY <1>2, UntouchedActor DEF WriteKey, Record, Stop, Kept
<1>3. CASE Refuse(f) \/ Lose(f) \/ Other(f) \/ Reload(f)
  BY <1>3, UntouchedActor DEF Refuse, Lose, Other, Reload
<1>4. QED  BY <1>1, <1>2, <1>3

\* A list asked for, read or shown.
LEMMA LoadsKeepActor ==
    ASSUME Inv, NEW p, ActsAt(p),
           FindBackend \/ \E l \in Lists : ListRows(l) \/ LoadFails(l) \/ ShowList(l)
    PROVE  StillActs
<1>1. ScreenOK /\ ActorOK /\ LoadOK  BY DEF Inv
<1>2. CASE FindBackend  BY <1>2, UntouchedActor DEF FindBackend
<1>3. CASE \E l \in Lists : ListRows(l) \/ Missed(l)
  BY <1>3, UntouchedActor DEF ListRows, Missed
<1>4. CASE Taken("users")
  BY <1>1, <1>4, LoadKeepsActor DEF Taken
<1>5. CASE Taken("roles")
  <2>1. SyncRoles(load["roles"].rows)  BY <1>5 DEF Taken
  <2>2. actor' = actor /\ screen'.users = screen.users
    BY <2>1, <1>1 DEF SyncRoles, ScreenOK
  <2>3. QED  BY <2>2, UntouchedActor
<1>6. CASE Taken("keys")
  <2>1. SyncKeys(load["keys"].rows)  BY <1>6 DEF Taken
  <2>2. actor' = actor /\ screen'.users = screen.users
    BY <2>1, <1>1 DEF SyncKeys, Show, ScreenOK
  <2>3. QED  BY <2>2, UntouchedActor
<1>7. QED  BY <1>2, <1>3, <1>4, <1>5, <1>6, LoadEnds DEF Lists

\* Whoever acts keeps acting when rows take new ids (currentActorUserId in
\* SYNC_REAL_USERS and RECONCILE_ADMIN_USER), until another is chosen, or the person
\* is disabled or no longer shown; unless it was not clear who that is, or a row takes
\* an id that another is shown by.
THEOREM OrgScreenActorStays == Spec => ActorStays
<1>1. Init => Inv  BY InitInv
<1>2. Inv /\ [Next]_vars => Inv'  BY NextInv
<1>3. Inv /\ [Next]_vars =>
        [ActorKnown =>
           \/ Acting'.name = Acting.name
           \/ actor' = actor /\ actor \in IdsOf(screen'.users)
           \/ \E f \in Calls : SwitchActor(f)
           \/ \E u \in Range(screen'.users) : u.name = Acting.name /\ u.disabled
           \/ \A u \in Range(screen'.users) : u.name # Acting.name
           \/ ActorTwice']_vars
  <2>1. SUFFICES ASSUME Inv, Next, ActorKnown,
                        ~ \E f \in Calls : SwitchActor(f)
                 PROVE  StillActs
    BY DEF StillActs
  <2>2. PICK p : ActsAt(p)  BY <2>1 DEF ActorKnown, ActsAt
  <2>3. QED
    BY <2>1, <2>2, GivenKeepsActor, ElsewhereKeepsActor, AnswerKeepsActor, LoadsKeepActor
    DEF Next
<1>4. QED  BY <1>1, <1>2, <1>3, PTL DEF Spec, ActorStays
=============================================================================
