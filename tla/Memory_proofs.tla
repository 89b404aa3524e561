---------------------------- MODULE Memory_proofs ----------------------------
(***************************************************************************)
(* The counters of mem_map and who can write to a frame, for any finite    *)
(* sets of tasks, frames and pages, any page tables and any programs.      *)
(***************************************************************************)
EXTENDS Memory, FiniteSetTheorems, WellFoundedInduction, TLAPS

(* What refers to the frame f, of tables that are parameters: T is task, D *)
(* is dir, P is pte, A is args, L is loading, X is lost.                   *)
One(p) == IF p THEN 1 ELSE 0

Loads(L, t, f) == L[t] # NULL /\ L[t].frame = f
Maps(P, t, p, f) == P[t][p] # NULL /\ P[t][p].frame = f

Tasks(T, f)   == {t \in Task : T[t] = f}
Dirs(D, f)    == {x \in Task \X Dir : D[x[1]][x[2]] = f}
Loaders(L, f) == {t \in Task : Loads(L, t, f)}
Pages(P, f)   == {x \in Task \X Page : Maps(P, x[1], x[2], f)}

Total(T, D, P, A, L, X, f) ==
    Cardinality(Tasks(T, f)) + Cardinality(Dirs(D, f)) + Cardinality(Tasks(A, f))
      + Cardinality(Loaders(L, f)) + One(f \in X) + Cardinality(Pages(P, f))

(* What the task t has of it. *)
DirsOf(D, t, f)  == {d \in Dir : D[t][d] = f}
PagesOf(P, t, f) == {p \in Page : Maps(P, t, p, f)}
Of(T, D, P, A, L, t, f) ==
    One(T[t] = f) + Cardinality(DirsOf(D, t, f)) + One(A[t] = f)
      + One(Loads(L, t, f)) + Cardinality(PagesOf(P, t, f))

Counted == \A f \in Frame : mem_map[f] = Total(task, dir, pte, args, loading, lost, f)

(* A frame that is not a page of a process has one reference, and so has   *)
(* one that somebody can write to.                                         *)
OwnedOnce ==
    /\ \A t \in Task :
          /\ task[t] # NULL => mem_map[task[t]] = 1
          /\ args[t] # NULL => mem_map[args[t]] = 1
          /\ loading[t] # NULL => mem_map[loading[t].frame] = 1
          /\ \A d \in Dir : dir[t][d] # NULL => mem_map[dir[t][d]] = 1
    /\ \A f \in lost : mem_map[f] = 1

WritableOnce ==
    \A t \in Task, p \in Page :
        Present(t, p) /\ pte[t][p].w => mem_map[FrameOf(t, p)] = 1

(* What a task has, from where it is. *)
TaskOK(t) ==
    /\ pc[t] = "none" <=> task[t] = NULL
    /\ pc[t] \in {"exec", "execclose"} <=> args[t] # NULL
    /\ pc[t] = "syscall" <=> call[t] # NULL
    /\ pc[t] \in {"none", "zombie", "exiting"} => Tables(t) = {}
    /\ loading[t] # NULL =>
          /\ pc[t] \in {"user", "exec", "syscall"}
          /\ ~Present(t, loading[t].page)
          /\ executable[t] # NULL

IInv ==
    /\ TypeOK /\ Counted /\ OwnedOnce /\ WritableOnce
    /\ \A t \in Task : TaskOK(t)

-----------------------------------------------------------------------------
(* The constants. *)
LEMMA SetsFinite ==
    /\ IsFiniteSet(Task) /\ IsFiniteSet(Page) /\ IsFiniteSet(Dir)
    /\ \A p \in Page : DirOf(p) \in Dir
    /\ NULL \notin Frame \cup Program \cup Page \cup PTE \cup Load
<1>1. IsFiniteSet(Task) /\ IsFiniteSet(Page)
  BY MemoryAssumption
<1>2. [p \in Page |-> p \div PerTable] \in Surjection(Page, Dir)
  BY DEF Surjection, Dir
<1>3. IsFiniteSet(Dir)
  BY <1>1, <1>2, FS_Surjection
<1> QED BY <1>1, <1>3, MemoryAssumption, NullAssumption DEF Dir, DirOf

(* Two subsets of a finite set that differ in one element at most. *)
LEMMA OneCounts ==
    ASSUME NEW K, IsFiniteSet(K), NEW S \in SUBSET K, NEW R \in SUBSET K, NEW k \in K,
           \A u \in K \ {k} : u \in S <=> u \in R
    PROVE  /\ Cardinality(S) \in Nat /\ Cardinality(R) \in Nat
           /\ Cardinality(R) + One(k \in S) = Cardinality(S) + One(k \in R)
<1>1. IsFiniteSet(S) /\ IsFiniteSet(R)
  BY FS_Subset
<1>2. Cardinality(S) \in Nat /\ Cardinality(R) \in Nat
  BY <1>1, FS_CardinalityType
<1>3. CASE k \in S /\ k \notin R
  <2>1. R = S \ {k}
    BY <1>3
  <2>2. Cardinality(R) = Cardinality(S) - 1
    BY <1>1, <1>3, <2>1, FS_RemoveElement
  <2> QED BY <1>2, <1>3, <2>2 DEF One
<1>4. CASE k \in R /\ k \notin S
  <2>1. S = R \ {k}
    BY <1>4
  <2>2. Cardinality(S) = Cardinality(R) - 1
    BY <1>1, <1>4, <2>1, FS_RemoveElement
  <2> QED BY <1>2, <1>4, <2>2 DEF One
<1>5. CASE k \in R <=> k \in S
  <2>1. R = S
    BY <1>5
  <2> QED BY <1>2, <2>1 DEF One
<1> QED BY <1>3, <1>4, <1>5

(* A subset of a finite set. *)
LEMMA SomeCounts ==
    ASSUME NEW K, IsFiniteSet(K), NEW S \in SUBSET K
    PROVE  /\ IsFiniteSet(S) /\ Cardinality(S) \in Nat
           /\ Cardinality(S) = 0 <=> S = {}
           /\ \A x \in S : Cardinality(S) = 1 => S = {x}
<1>1. IsFiniteSet(S) /\ Cardinality(S) \in Nat
  BY FS_Subset, FS_CardinalityType
<1>2. Cardinality(S) = 0 <=> S = {}
  BY <1>1, FS_EmptySet
<1>3. ASSUME NEW x \in S, Cardinality(S) = 1 PROVE S = {x}
  <2>1. IsFiniteSet(S \ {x}) /\ Cardinality(S \ {x}) = Cardinality(S) - 1
    BY <1>1, FS_RemoveElement
  <2>2. S \ {x} = {}
    BY <1>3, <2>1, FS_EmptySet
  <2> QED BY <2>2
<1> QED BY <1>1, <1>2, <1>3

(* The row of t in a set of pairs of a task and something of K. *)
Row(S, K, t) == {k \in K : <<t, k>> \in S}

LEMMA RowIn ==
    ASSUME NEW K, IsFiniteSet(K), NEW S \in SUBSET (Task \X K), NEW t \in Task
    PROVE  /\ IsFiniteSet(S) /\ Cardinality(S) \in Nat
           /\ IsFiniteSet({t} \X Row(S, K, t)) /\ {t} \X Row(S, K, t) \in SUBSET S
           /\ Cardinality({t} \X Row(S, K, t)) = Cardinality(Row(S, K, t))
           /\ Cardinality(Row(S, K, t)) \in Nat
<1>1. IsFiniteSet(Task \X K)
  BY SetsFinite, FS_Product
<1>2. IsFiniteSet(S) /\ Cardinality(S) \in Nat
  BY <1>1, FS_Subset, FS_CardinalityType
<1>3. Row(S, K, t) \in SUBSET K
  BY DEF Row
<1>4. IsFiniteSet(Row(S, K, t)) /\ Cardinality(Row(S, K, t)) \in Nat
  BY <1>3, FS_Subset, FS_CardinalityType
<1>5. IsFiniteSet({t}) /\ Cardinality({t}) = 1
  BY FS_Singleton
<1>6. /\ IsFiniteSet({t} \X Row(S, K, t))
      /\ Cardinality({t} \X Row(S, K, t)) = 1 * Cardinality(Row(S, K, t))
  BY <1>4, <1>5, FS_Product
<1>7. {t} \X Row(S, K, t) \in SUBSET S
  BY DEF Row
<1> QED BY <1>2, <1>4, <1>6, <1>7

(* Two sets of pairs that differ in the row of t at most. *)
LEMMA RowCounts ==
    ASSUME NEW K, IsFiniteSet(K), NEW t \in Task,
           NEW S \in SUBSET (Task \X K), NEW R \in SUBSET (Task \X K),
           \A u \in Task \ {t} : \A k \in K : <<u, k>> \in S <=> <<u, k>> \in R
    PROVE  Cardinality(R) + Cardinality(Row(S, K, t))
              = Cardinality(S) + Cardinality(Row(R, K, t))
<1> DEFINE A == {t} \X Row(S, K, t)
           B == {t} \X Row(R, K, t)
<1>1. /\ IsFiniteSet(S) /\ Cardinality(S) \in Nat /\ IsFiniteSet(A) /\ A \in SUBSET S
      /\ Cardinality(A) = Cardinality(Row(S, K, t)) /\ Cardinality(A) \in Nat
  BY RowIn
<1>2. /\ IsFiniteSet(R) /\ Cardinality(R) \in Nat /\ IsFiniteSet(B) /\ B \in SUBSET R
      /\ Cardinality(B) = Cardinality(Row(R, K, t)) /\ Cardinality(B) \in Nat
  BY RowIn
<1>3. S \ A = R \ B
  <2>1. ASSUME NEW x \in S \ A PROVE x \in R \ B
    <3>1. PICK u \in Task, k \in K : x = <<u, k>>
      OBVIOUS
    <3>2. u # t
      BY <2>1, <3>1 DEF Row
    <3> QED BY <3>1, <3>2
  <2>2. ASSUME NEW x \in R \ B PROVE x \in S \ A
    <3>1. PICK u \in Task, k \in K : x = <<u, k>>
      OBVIOUS
    <3>2. u # t
      BY <2>2, <3>1 DEF Row
    <3> QED BY <3>1, <3>2
  <2> QED BY <2>1, <2>2
<1> HIDE DEF A, B
<1>4. Cardinality(S \ A) = Cardinality(S) - Cardinality(A)
  <2>1. S \cap A = A
    BY <1>1
  <2>2. IsFiniteSet(S)
    BY <1>1
  <2>3. Cardinality(S \ A) = Cardinality(S) - Cardinality(S \cap A)
    BY <2>2, FS_Difference
  <2> QED BY <2>1, <2>3
<1>5. Cardinality(R \ B) = Cardinality(R) - Cardinality(B)
  <2>1. R \cap B = B
    BY <1>2
  <2>2. IsFiniteSet(R)
    BY <1>2
  <2>3. Cardinality(R \ B) = Cardinality(R) - Cardinality(R \cap B)
    BY <2>2, FS_Difference
  <2> QED BY <2>1, <2>3
<1> QED BY <1>1, <1>2, <1>3, <1>4, <1>5

(* Two rows are parts of the set. *)
LEMMA RowsFit ==
    ASSUME NEW K, IsFiniteSet(K), NEW S \in SUBSET (Task \X K),
           NEW t \in Task, NEW u \in Task, u # t
    PROVE  Cardinality(Row(S, K, t)) + Cardinality(Row(S, K, u)) <= Cardinality(S)
<1> DEFINE A == {t} \X Row(S, K, t)
           B == {u} \X Row(S, K, u)
<1>1. /\ IsFiniteSet(S) /\ Cardinality(S) \in Nat /\ IsFiniteSet(A) /\ A \in SUBSET S
      /\ Cardinality(A) = Cardinality(Row(S, K, t)) /\ Cardinality(A) \in Nat
  BY RowIn
<1>2. /\ IsFiniteSet(B) /\ B \in SUBSET S
      /\ Cardinality(B) = Cardinality(Row(S, K, u)) /\ Cardinality(B) \in Nat
  BY RowIn
<1>3. A \cap B = {}
  OBVIOUS
<1> HIDE DEF A, B
<1>4. Cardinality(A \cup B) = Cardinality(A) + Cardinality(B)
  <2>1. Cardinality(A \cap B) = 0
    BY <1>3, FS_EmptySet
  <2>2. Cardinality(A \cup B) = Cardinality(A) + (Cardinality(B) - Cardinality(A \cap B))
    BY <1>1, <1>2, FS_Union
  <2> QED BY <1>1, <1>2, <2>1, <2>2
<1>5. A \cup B \in SUBSET S
  BY <1>1, <1>2
<1>6. Cardinality(A \cup B) <= Cardinality(S)
  BY <1>1, <1>5, FS_Subset
<1> QED BY <1>1, <1>2, <1>4, <1>6

-----------------------------------------------------------------------------
(* The references of tables. *)
Clear(T, D, P, A, L, t, f) ==
    /\ T[t] # f /\ A[t] # f /\ ~Loads(L, t, f)
    /\ \A d \in Dir : D[t][d] # f
    /\ \A p \in Page : ~Maps(P, t, p, f)

LEMMA OfCounts ==
    ASSUME NEW T, NEW D, NEW P, NEW A, NEW L, NEW t \in Task, NEW f
    PROVE  /\ Cardinality(DirsOf(D, t, f)) \in Nat /\ Cardinality(PagesOf(P, t, f)) \in Nat
           /\ Of(T, D, P, A, L, t, f) \in Nat
           /\ Of(T, D, P, A, L, t, f) = 0 <=> Clear(T, D, P, A, L, t, f)
<1>1. DirsOf(D, t, f) \in SUBSET Dir /\ PagesOf(P, t, f) \in SUBSET Page
  BY DEF DirsOf, PagesOf
<1>2. /\ Cardinality(DirsOf(D, t, f)) \in Nat
      /\ Cardinality(DirsOf(D, t, f)) = 0 <=> DirsOf(D, t, f) = {}
  BY <1>1, SetsFinite, SomeCounts
<1>3. /\ Cardinality(PagesOf(P, t, f)) \in Nat
      /\ Cardinality(PagesOf(P, t, f)) = 0 <=> PagesOf(P, t, f) = {}
  BY <1>1, SetsFinite, SomeCounts
<1>4. DirsOf(D, t, f) = {} <=> \A d \in Dir : D[t][d] # f
  BY DEF DirsOf
<1>5. PagesOf(P, t, f) = {} <=> \A p \in Page : ~Maps(P, t, p, f)
  BY DEF PagesOf
<1>6. \A b \in BOOLEAN : One(b) \in Nat /\ (One(b) = 0 <=> ~b)
  BY DEF One
<1>7. Loads(L, t, f) \in BOOLEAN
  BY DEF Loads
<1>8. /\ One(T[t] = f) \in Nat /\ (One(T[t] = f) = 0 <=> T[t] # f)
      /\ One(A[t] = f) \in Nat /\ (One(A[t] = f) = 0 <=> A[t] # f)
      /\ One(Loads(L, t, f)) \in Nat /\ (One(Loads(L, t, f)) = 0 <=> ~Loads(L, t, f))
  BY <1>6, <1>7
<1> DEFINE a == One(T[t] = f)
           d == Cardinality(DirsOf(D, t, f))
           b == One(A[t] = f)
           l == One(Loads(L, t, f))
           p == Cardinality(PagesOf(P, t, f))
           n == Of(T, D, P, A, L, t, f)
<1>9. n = a + d + b + l + p
  BY DEF Of
<1>10. a \in Nat /\ d \in Nat /\ b \in Nat /\ l \in Nat /\ p \in Nat
  BY <1>2, <1>3, <1>8
<1>11. n \in Nat /\ (n = 0 <=> a = 0 /\ d = 0 /\ b = 0 /\ l = 0 /\ p = 0)
  <2> HIDE DEF a, d, b, l, p, n
  <2> QED BY <1>9, <1>10
<1>12. Of(T, D, P, A, L, t, f) = 0 <=> Clear(T, D, P, A, L, t, f)
  BY <1>2, <1>3, <1>4, <1>5, <1>8, <1>11 DEF Clear
<1> QED BY <1>2, <1>3, <1>11, <1>12

(* The sets that are counted, with the rows of a task.                     *)
LEMMA Sets ==
    ASSUME NEW T, NEW D, NEW P, NEW A, NEW L, NEW f
    PROVE  /\ Tasks(T, f) \in SUBSET Task /\ Tasks(A, f) \in SUBSET Task
           /\ Loaders(L, f) \in SUBSET Task
           /\ Dirs(D, f) \in SUBSET (Task \X Dir) /\ Pages(P, f) \in SUBSET (Task \X Page)
           /\ \A t \in Task :
                 /\ t \in Tasks(T, f) <=> T[t] = f
                 /\ t \in Tasks(A, f) <=> A[t] = f
                 /\ t \in Loaders(L, f) <=> Loads(L, t, f)
                 /\ Row(Dirs(D, f), Dir, t) = DirsOf(D, t, f)
                 /\ Row(Pages(P, f), Page, t) = PagesOf(P, t, f)
                 /\ \A d \in Dir : <<t, d>> \in Dirs(D, f) <=> D[t][d] = f
                 /\ \A p \in Page : <<t, p>> \in Pages(P, f) <=> Maps(P, t, p, f)
<1>1. /\ Tasks(T, f) \in SUBSET Task /\ Tasks(A, f) \in SUBSET Task
      /\ Loaders(L, f) \in SUBSET Task
      /\ Dirs(D, f) \in SUBSET (Task \X Dir) /\ Pages(P, f) \in SUBSET (Task \X Page)
  BY DEF Tasks, Loaders, Dirs, Pages
<1>2. ASSUME NEW t \in Task
      PROVE  /\ t \in Tasks(T, f) <=> T[t] = f
             /\ t \in Tasks(A, f) <=> A[t] = f
             /\ t \in Loaders(L, f) <=> Loads(L, t, f)
  BY DEF Tasks, Loaders
<1>3. ASSUME NEW t \in Task
      PROVE  /\ \A d \in Dir : <<t, d>> \in Dirs(D, f) <=> D[t][d] = f
             /\ \A p \in Page : <<t, p>> \in Pages(P, f) <=> Maps(P, t, p, f)
  BY DEF Dirs, Pages
<1>4. ASSUME NEW t \in Task
      PROVE  /\ Row(Dirs(D, f), Dir, t) = DirsOf(D, t, f)
             /\ Row(Pages(P, f), Page, t) = PagesOf(P, t, f)
  BY <1>3 DEF Row, DirsOf, PagesOf
<1> QED BY <1>1, <1>2, <1>3, <1>4

(* What two tasks have of a frame is part of the total. *)
LEMMA TotalFits ==
    ASSUME NEW T, NEW D, NEW P, NEW A, NEW L, NEW X, NEW f,
           NEW t \in Task, NEW u \in Task, u # t
    PROVE  /\ Total(T, D, P, A, L, X, f) \in Nat
           /\ Of(T, D, P, A, L, t, f) + Of(T, D, P, A, L, u, f) + One(f \in X)
                 <= Total(T, D, P, A, L, X, f)
<1>0. \A b \in BOOLEAN : One(b) \in Nat
  BY DEF One
<1>1. ASSUME NEW S \in SUBSET Task
      PROVE  /\ Cardinality(S) \in Nat
             /\ One(t \in S) + One(u \in S) <= Cardinality(S)
  <2>1. IsFiniteSet(S) /\ Cardinality(S) \in Nat
    BY SetsFinite, SomeCounts
  <2>2. \A x \in S : Cardinality(S \ {x}) = Cardinality(S) - 1 /\ IsFiniteSet(S \ {x})
    BY <2>1, FS_RemoveElement
  <2>3. Cardinality(S) = 0 => S = {}
    BY <2>1, FS_EmptySet
  <2>4. CASE t \in S /\ u \in S
    <3>1. S \ {t} # {}
      BY <2>4
    <3>2. Cardinality(S \ {t}) # 0 /\ Cardinality(S \ {t}) \in Nat
      BY <2>2, <2>4, <3>1, FS_EmptySet, FS_CardinalityType
    <3> QED BY <2>1, <2>2, <2>4, <3>2 DEF One
  <2> QED BY <2>1, <2>3, <2>4 DEF One
<1>2. /\ Cardinality(Tasks(T, f)) \in Nat
      /\ One(T[t] = f) + One(T[u] = f) <= Cardinality(Tasks(T, f))
  <2>1. Tasks(T, f) \in SUBSET Task
    BY DEF Tasks
  <2>2. One(t \in Tasks(T, f)) = One(T[t] = f) /\ One(u \in Tasks(T, f)) = One(T[u] = f)
    BY DEF One, Tasks
  <2>3. /\ Cardinality(Tasks(T, f)) \in Nat
        /\ One(t \in Tasks(T, f)) + One(u \in Tasks(T, f)) <= Cardinality(Tasks(T, f))
    BY <1>1, <2>1
  <2> QED BY <2>2, <2>3
<1>3. /\ Cardinality(Tasks(A, f)) \in Nat
      /\ One(A[t] = f) + One(A[u] = f) <= Cardinality(Tasks(A, f))
  <2>1. Tasks(A, f) \in SUBSET Task
    BY DEF Tasks
  <2>2. One(t \in Tasks(A, f)) = One(A[t] = f) /\ One(u \in Tasks(A, f)) = One(A[u] = f)
    BY DEF One, Tasks
  <2>3. /\ Cardinality(Tasks(A, f)) \in Nat
        /\ One(t \in Tasks(A, f)) + One(u \in Tasks(A, f)) <= Cardinality(Tasks(A, f))
    BY <1>1, <2>1
  <2> QED BY <2>2, <2>3
<1>4. /\ Cardinality(Loaders(L, f)) \in Nat
      /\ One(Loads(L, t, f)) + One(Loads(L, u, f)) <= Cardinality(Loaders(L, f))
  <2>1. One(t \in Loaders(L, f)) + One(u \in Loaders(L, f)) <= Cardinality(Loaders(L, f))
    BY <1>1, Sets
  <2>2. /\ One(t \in Loaders(L, f)) = One(Loads(L, t, f))
        /\ One(u \in Loaders(L, f)) = One(Loads(L, u, f))
    BY Sets DEF One
  <2> QED BY <1>1, Sets, <2>1, <2>2
<1>5. /\ Cardinality(Dirs(D, f)) \in Nat
      /\ Cardinality(DirsOf(D, t, f)) + Cardinality(DirsOf(D, u, f)) <= Cardinality(Dirs(D, f))
  <2>1. Dirs(D, f) \in SUBSET (Task \X Dir) /\ IsFiniteSet(Dir)
    BY Sets, SetsFinite
  <2>2. Cardinality(Dirs(D, f)) \in Nat
    BY <2>1, RowIn
  <2>3. Cardinality(Row(Dirs(D, f), Dir, t)) + Cardinality(Row(Dirs(D, f), Dir, u))
          <= Cardinality(Dirs(D, f))
    BY <2>1, RowsFit
  <2> QED BY <2>2, <2>3, Sets
<1>6. /\ Cardinality(Pages(P, f)) \in Nat
      /\ Cardinality(PagesOf(P, t, f)) + Cardinality(PagesOf(P, u, f)) <= Cardinality(Pages(P, f))
  <2>1. Pages(P, f) \in SUBSET (Task \X Page) /\ IsFiniteSet(Page)
    BY Sets, SetsFinite
  <2>2. Cardinality(Pages(P, f)) \in Nat
    BY <2>1, RowIn
  <2>3. Cardinality(Row(Pages(P, f), Page, t)) + Cardinality(Row(Pages(P, f), Page, u))
          <= Cardinality(Pages(P, f))
    BY <2>1, RowsFit
  <2> QED BY <2>2, <2>3, Sets
<1>7. /\ Cardinality(DirsOf(D, t, f)) \in Nat /\ Cardinality(PagesOf(P, t, f)) \in Nat
      /\ Cardinality(DirsOf(D, u, f)) \in Nat /\ Cardinality(PagesOf(P, u, f)) \in Nat
  BY OfCounts
<1>8. /\ One(T[t] = f) \in Nat /\ One(A[t] = f) \in Nat /\ One(Loads(L, t, f)) \in Nat
      /\ One(T[u] = f) \in Nat /\ One(A[u] = f) \in Nat /\ One(Loads(L, u, f)) \in Nat
      /\ One(f \in X) \in Nat
  BY DEF One
<1> QED BY <1>2, <1>3, <1>4, <1>5, <1>6, <1>7, <1>8 DEF Of, Total

LEMMA TotalHas ==
    ASSUME NEW T, NEW D, NEW P, NEW A, NEW L, NEW X, NEW f, NEW t \in Task
    PROVE  /\ Total(T, D, P, A, L, X, f) \in Nat
           /\ Of(T, D, P, A, L, t, f) + One(f \in X) <= Total(T, D, P, A, L, X, f)
<1>1. ASSUME NEW S \in SUBSET Task
      PROVE  Cardinality(S) \in Nat /\ One(t \in S) <= Cardinality(S)
  <2>1. Cardinality(S) \in Nat /\ (Cardinality(S) = 0 => S = {})
    BY SetsFinite, SomeCounts
  <2> QED BY <2>1 DEF One
<1>2. ASSUME NEW K, IsFiniteSet(K), NEW S \in SUBSET (Task \X K)
      PROVE  Cardinality(S) \in Nat /\ Cardinality(Row(S, K, t)) <= Cardinality(S)
  <2>1. /\ IsFiniteSet(S) /\ Cardinality(S) \in Nat
        /\ {t} \X Row(S, K, t) \in SUBSET S
        /\ Cardinality({t} \X Row(S, K, t)) = Cardinality(Row(S, K, t))
    BY <1>2, RowIn
  <2>2. Cardinality({t} \X Row(S, K, t)) <= Cardinality(S)
    BY <2>1, FS_Subset
  <2> QED BY <2>1, <2>2
<1>3. /\ Cardinality(Tasks(T, f)) \in Nat /\ One(T[t] = f) <= Cardinality(Tasks(T, f))
      /\ Cardinality(Tasks(A, f)) \in Nat /\ One(A[t] = f) <= Cardinality(Tasks(A, f))
  <2>1. One(t \in Tasks(T, f)) = One(T[t] = f) /\ One(t \in Tasks(A, f)) = One(A[t] = f)
    BY DEF One, Tasks
  <2>2. Tasks(T, f) \in SUBSET Task /\ Tasks(A, f) \in SUBSET Task
    BY DEF Tasks
  <2> QED BY <1>1, <2>1, <2>2
<1>4. /\ Cardinality(Loaders(L, f)) \in Nat
      /\ One(Loads(L, t, f)) <= Cardinality(Loaders(L, f))
  <2>1. One(t \in Loaders(L, f)) = One(Loads(L, t, f))
    BY Sets DEF One
  <2> QED BY <1>1, <2>1, Sets
<1>5. /\ Cardinality(Dirs(D, f)) \in Nat
      /\ Cardinality(DirsOf(D, t, f)) <= Cardinality(Dirs(D, f))
  <2>1. /\ Cardinality(Dirs(D, f)) \in Nat
        /\ Cardinality(Row(Dirs(D, f), Dir, t)) <= Cardinality(Dirs(D, f))
    BY <1>2, SetsFinite, Sets
  <2> QED BY <2>1, Sets
<1>6. /\ Cardinality(Pages(P, f)) \in Nat
      /\ Cardinality(PagesOf(P, t, f)) <= Cardinality(Pages(P, f))
  <2>1. /\ Cardinality(Pages(P, f)) \in Nat
        /\ Cardinality(Row(Pages(P, f), Page, t)) <= Cardinality(Pages(P, f))
    BY <1>2, SetsFinite, Sets
  <2> QED BY <2>1, Sets
<1>7. Cardinality(DirsOf(D, t, f)) \in Nat /\ Cardinality(PagesOf(P, t, f)) \in Nat
  BY OfCounts
<1>8. /\ One(T[t] = f) \in Nat /\ One(A[t] = f) \in Nat /\ One(Loads(L, t, f)) \in Nat
      /\ One(f \in X) \in Nat
  BY DEF One
<1> QED BY <1>3, <1>4, <1>5, <1>6, <1>7, <1>8 DEF Of, Total

(* The tables of all tasks but t refer to the same frames.                 *)
OthersKeep(T, D, P, A, L, T2, D2, P2, A2, L2, t) ==
    \A u \in Task \ {t} :
        /\ T2[u] = T[u] /\ A2[u] = A[u] /\ L2[u] = L[u] /\ D2[u] = D[u]
        /\ \A p \in Page : \A f \in Frame : Maps(P2, u, p, f) <=> Maps(P, u, p, f)

LEMMA TotalAfter ==
    ASSUME NEW T, NEW D, NEW P, NEW A, NEW L, NEW X,
           NEW T2, NEW D2, NEW P2, NEW A2, NEW L2, NEW X2, NEW t \in Task,
           OthersKeep(T, D, P, A, L, T2, D2, P2, A2, L2, t), NEW f \in Frame
    PROVE  Total(T2, D2, P2, A2, L2, X2, f) + Of(T, D, P, A, L, t, f) + One(f \in X)
              = Total(T, D, P, A, L, X, f) + Of(T2, D2, P2, A2, L2, t, f) + One(f \in X2)
<1>1. \A u \in Task \ {t} :
        /\ T2[u] = T[u] /\ A2[u] = A[u] /\ L2[u] = L[u] /\ D2[u] = D[u]
        /\ \A p \in Page : Maps(P2, u, p, f) <=> Maps(P, u, p, f)
  BY DEF OthersKeep
<1>2. ASSUME NEW S \in SUBSET Task, NEW R \in SUBSET Task,
             \A u \in Task \ {t} : u \in S <=> u \in R
      PROVE  /\ Cardinality(S) \in Nat /\ Cardinality(R) \in Nat
             /\ Cardinality(R) + One(t \in S) = Cardinality(S) + One(t \in R)
  BY <1>2, SetsFinite, OneCounts
<1>3. /\ Cardinality(Tasks(T, f)) \in Nat /\ Cardinality(Tasks(T2, f)) \in Nat
      /\ Cardinality(Tasks(T2, f)) + One(T[t] = f) = Cardinality(Tasks(T, f)) + One(T2[t] = f)
  <2>1. \A u \in Task \ {t} : u \in Tasks(T, f) <=> u \in Tasks(T2, f)
    BY <1>1 DEF Tasks
  <2>2. (t \in Tasks(T, f) <=> T[t] = f) /\ (t \in Tasks(T2, f) <=> T2[t] = f)
    BY DEF Tasks
  <2>3. Tasks(T, f) \in SUBSET Task /\ Tasks(T2, f) \in SUBSET Task
    BY DEF Tasks
  <2> QED BY <1>2, <2>1, <2>2, <2>3 DEF One
<1>4. /\ Cardinality(Tasks(A, f)) \in Nat /\ Cardinality(Tasks(A2, f)) \in Nat
      /\ Cardinality(Tasks(A2, f)) + One(A[t] = f) = Cardinality(Tasks(A, f)) + One(A2[t] = f)
  <2>1. \A u \in Task \ {t} : u \in Tasks(A, f) <=> u \in Tasks(A2, f)
    BY <1>1 DEF Tasks
  <2>2. (t \in Tasks(A, f) <=> A[t] = f) /\ (t \in Tasks(A2, f) <=> A2[t] = f)
    BY DEF Tasks
  <2>3. Tasks(A, f) \in SUBSET Task /\ Tasks(A2, f) \in SUBSET Task
    BY DEF Tasks
  <2> QED BY <1>2, <2>1, <2>2, <2>3 DEF One
<1>5. /\ Cardinality(Loaders(L, f)) \in Nat /\ Cardinality(Loaders(L2, f)) \in Nat
      /\ Cardinality(Loaders(L2, f)) + One(Loads(L, t, f))
            = Cardinality(Loaders(L, f)) + One(Loads(L2, t, f))
  <2>1. \A u \in Task \ {t} : u \in Loaders(L, f) <=> u \in Loaders(L2, f)
    BY <1>1 DEF Loaders, Loads
  <2>2. /\ t \in Loaders(L, f) <=> Loads(L, t, f)
        /\ t \in Loaders(L2, f) <=> Loads(L2, t, f)
    BY DEF Loaders
  <2>3. Loaders(L, f) \in SUBSET Task /\ Loaders(L2, f) \in SUBSET Task
    BY DEF Loaders
  <2> QED BY <1>2, <2>1, <2>2, <2>3 DEF One
<1>6. /\ Cardinality(Dirs(D, f)) \in Nat /\ Cardinality(Dirs(D2, f)) \in Nat
      /\ Cardinality(Dirs(D2, f)) + Cardinality(DirsOf(D, t, f))
            = Cardinality(Dirs(D, f)) + Cardinality(DirsOf(D2, t, f))
  <2>1. /\ Dirs(D, f) \in SUBSET (Task \X Dir) /\ Dirs(D2, f) \in SUBSET (Task \X Dir)
        /\ IsFiniteSet(Dir)
    BY SetsFinite DEF Dirs
  <2>2. \A u \in Task \ {t} : \A d \in Dir : <<u, d>> \in Dirs(D, f) <=> <<u, d>> \in Dirs(D2, f)
    BY <1>1 DEF Dirs
  <2>3. Cardinality(Dirs(D2, f)) + Cardinality(Row(Dirs(D, f), Dir, t))
          = Cardinality(Dirs(D, f)) + Cardinality(Row(Dirs(D2, f), Dir, t))
    BY <2>1, <2>2, RowCounts
  <2>4. Cardinality(Dirs(D, f)) \in Nat /\ Cardinality(Dirs(D2, f)) \in Nat
    BY <2>1, RowIn
  <2>5. /\ Row(Dirs(D, f), Dir, t) = DirsOf(D, t, f)
        /\ Row(Dirs(D2, f), Dir, t) = DirsOf(D2, t, f)
    BY DEF Row, Dirs, DirsOf
  <2> QED BY <2>3, <2>4, <2>5
<1>7. /\ Cardinality(Pages(P, f)) \in Nat /\ Cardinality(Pages(P2, f)) \in Nat
      /\ Cardinality(Pages(P2, f)) + Cardinality(PagesOf(P, t, f))
            = Cardinality(Pages(P, f)) + Cardinality(PagesOf(P2, t, f))
  <2>1. /\ Pages(P, f) \in SUBSET (Task \X Page) /\ Pages(P2, f) \in SUBSET (Task \X Page)
        /\ IsFiniteSet(Page)
    BY SetsFinite DEF Pages
  <2>2. \A u \in Task \ {t} : \A p \in Page :
          <<u, p>> \in Pages(P, f) <=> <<u, p>> \in Pages(P2, f)
    BY <1>1 DEF Pages
  <2>3. Cardinality(Pages(P2, f)) + Cardinality(Row(Pages(P, f), Page, t))
          = Cardinality(Pages(P, f)) + Cardinality(Row(Pages(P2, f), Page, t))
    BY <2>1, <2>2, RowCounts
  <2>4. Cardinality(Pages(P, f)) \in Nat /\ Cardinality(Pages(P2, f)) \in Nat
    BY <2>1, RowIn
  <2>5. /\ Row(Pages(P, f), Page, t) = PagesOf(P, t, f)
        /\ Row(Pages(P2, f), Page, t) = PagesOf(P2, t, f)
    BY DEF Row, Pages, PagesOf
  <2> QED BY <2>3, <2>4, <2>5
<1>8. /\ Cardinality(DirsOf(D, t, f)) \in Nat /\ Cardinality(PagesOf(P, t, f)) \in Nat
      /\ Cardinality(DirsOf(D2, t, f)) \in Nat /\ Cardinality(PagesOf(P2, t, f)) \in Nat
  BY OfCounts
<1>9. /\ One(T[t] = f) \in Nat /\ One(A[t] = f) \in Nat /\ One(Loads(L, t, f)) \in Nat
      /\ One(T2[t] = f) \in Nat /\ One(A2[t] = f) \in Nat /\ One(Loads(L2, t, f)) \in Nat
      /\ One(f \in X) \in Nat /\ One(f \in X2) \in Nat
  BY DEF One
<1> DEFINE a1 == One(T[t] = f)
           a2 == One(T2[t] = f)
           b1 == One(A[t] = f)
           b2 == One(A2[t] = f)
           l1 == One(Loads(L, t, f))
           l2 == One(Loads(L2, t, f))
           x1 == One(f \in X)
           x2 == One(f \in X2)
<1>10. /\ Of(T, D, P, A, L, t, f)
            = a1 + Cardinality(DirsOf(D, t, f)) + b1 + l1 + Cardinality(PagesOf(P, t, f))
       /\ Of(T2, D2, P2, A2, L2, t, f)
            = a2 + Cardinality(DirsOf(D2, t, f)) + b2 + l2 + Cardinality(PagesOf(P2, t, f))
  BY DEF Of
<1>11. /\ Total(T, D, P, A, L, X, f)
            = Cardinality(Tasks(T, f)) + Cardinality(Dirs(D, f)) + Cardinality(Tasks(A, f))
                + Cardinality(Loaders(L, f)) + x1 + Cardinality(Pages(P, f))
       /\ Total(T2, D2, P2, A2, L2, X2, f)
            = Cardinality(Tasks(T2, f)) + Cardinality(Dirs(D2, f)) + Cardinality(Tasks(A2, f))
                + Cardinality(Loaders(L2, f)) + x2 + Cardinality(Pages(P2, f))
  BY DEF Total
<1> QED BY <1>3, <1>4, <1>5, <1>6, <1>7, <1>8, <1>9, <1>10, <1>11

(* A task with one reference to a frame has no other.                      *)
OfOne(T, D, P, A, L, t, f) ==
    /\ T[t] = f => A[t] # f /\ ~Loads(L, t, f)
    /\ A[t] = f => T[t] # f /\ ~Loads(L, t, f)
    /\ T[t] = f \/ A[t] = f \/ Loads(L, t, f) =>
          (\A d \in Dir : D[t][d] # f) /\ (\A p \in Page : ~Maps(P, t, p, f))
    /\ \A d \in Dir : D[t][d] = f =>
          /\ \A e \in Dir : D[t][e] = f => e = d
          /\ \A p \in Page : ~Maps(P, t, p, f)
    /\ \A p, q \in Page : Maps(P, t, p, f) /\ Maps(P, t, q, f) => p = q

LEMMA OneOf ==
    ASSUME NEW T, NEW D, NEW P, NEW A, NEW L, NEW t \in Task, NEW f,
           Of(T, D, P, A, L, t, f) = 1
    PROVE  OfOne(T, D, P, A, L, t, f)
<1> DEFINE a == One(T[t] = f)
           d == Cardinality(DirsOf(D, t, f))
           b == One(A[t] = f)
           l == One(Loads(L, t, f))
           p == Cardinality(PagesOf(P, t, f))
<1>1. a + d + b + l + p = 1
  BY DEF Of
<1>2. /\ a \in Nat /\ b \in Nat /\ l \in Nat /\ d \in Nat /\ p \in Nat
      /\ T[t] = f => a = 1
      /\ A[t] = f => b = 1
      /\ Loads(L, t, f) => l = 1
  BY OfCounts DEF One
<1>3. /\ DirsOf(D, t, f) \in SUBSET Dir /\ PagesOf(P, t, f) \in SUBSET Page
      /\ IsFiniteSet(Dir) /\ IsFiniteSet(Page)
  BY SetsFinite DEF DirsOf, PagesOf
<1>4. /\ d = 0 => DirsOf(D, t, f) = {}
      /\ \A x \in DirsOf(D, t, f) : d = 1 => DirsOf(D, t, f) = {x}
  BY <1>3, SomeCounts
<1>5. /\ p = 0 => PagesOf(P, t, f) = {}
      /\ \A x \in PagesOf(P, t, f) : p = 1 => PagesOf(P, t, f) = {x}
  BY <1>3, SomeCounts
<1>6. /\ a = 1 => b = 0 /\ l = 0 /\ d = 0 /\ p = 0
      /\ b = 1 => a = 0 /\ l = 0 /\ d = 0 /\ p = 0
      /\ l = 1 => d = 0 /\ p = 0
      /\ d # 0 => d = 1 /\ p = 0
      /\ p # 0 => p = 1
  <2> HIDE DEF a, b, d, l, p
  <2> QED BY <1>1, <1>2
<1>7. /\ T[t] = f => A[t] # f /\ ~Loads(L, t, f)
      /\ A[t] = f => T[t] # f /\ ~Loads(L, t, f)
      /\ T[t] = f \/ A[t] = f \/ Loads(L, t, f) => d = 0 /\ p = 0
  <2> HIDE DEF a, b, d, l, p
  <2> QED BY <1>2, <1>6
<1>8. /\ d = 0 => \A e \in Dir : D[t][e] # f
      /\ p = 0 => \A q \in Page : ~Maps(P, t, q, f)
  BY <1>4, <1>5 DEF DirsOf, PagesOf
<1>9. ASSUME NEW e \in Dir, D[t][e] = f
      PROVE  (\A x \in Dir : D[t][x] = f => x = e) /\ p = 0
  <2>1. e \in DirsOf(D, t, f)
    BY <1>9 DEF DirsOf
  <2>2. d # 0
    BY <1>8, <1>9
  <2>3. DirsOf(D, t, f) = {e} /\ p = 0
    BY <1>4, <1>6, <2>1, <2>2
  <2> QED BY <2>3 DEF DirsOf
<1>10. ASSUME NEW q \in Page, NEW r \in Page, Maps(P, t, q, f), Maps(P, t, r, f)
       PROVE  q = r
  <2>1. q \in PagesOf(P, t, f) /\ r \in PagesOf(P, t, f)
    BY <1>10 DEF PagesOf
  <2>2. p = 1
    BY <1>5, <1>6, <2>1
  <2> QED BY <1>5, <2>1, <2>2
<1> HIDE DEF p, d
<1> QED BY <1>7, <1>8, <1>9, <1>10 DEF OfOne

(* A page table is entered; a page is entered, changed or removed. *)
Has(D, t, d, f) == D[t][d] = f
DirsKeep(D, E, t, d)  == \A e \in Dir \ {d} : E[t][e] = D[t][e]
PagesKeep(P, Q, t, p, f) == \A q \in Page \ {p} : Maps(Q, t, q, f) <=> Maps(P, t, q, f)

LEMMA DirSet ==
    ASSUME NEW D, NEW E, NEW t \in Task, NEW d \in Dir, DirsKeep(D, E, t, d), NEW f
    PROVE  Cardinality(DirsOf(E, t, f)) + One(Has(D, t, d, f))
             = Cardinality(DirsOf(D, t, f)) + One(Has(E, t, d, f))
<1>1. DirsOf(D, t, f) \in SUBSET Dir /\ DirsOf(E, t, f) \in SUBSET Dir /\ IsFiniteSet(Dir)
  BY SetsFinite DEF DirsOf
<1>2. \A e \in Dir \ {d} : e \in DirsOf(D, t, f) <=> e \in DirsOf(E, t, f)
  BY DEF DirsOf, DirsKeep
<1>3. Cardinality(DirsOf(E, t, f)) + One(d \in DirsOf(D, t, f))
        = Cardinality(DirsOf(D, t, f)) + One(d \in DirsOf(E, t, f))
  BY <1>1, <1>2, OneCounts
<1>4. /\ One(d \in DirsOf(D, t, f)) = One(Has(D, t, d, f))
      /\ One(d \in DirsOf(E, t, f)) = One(Has(E, t, d, f))
  BY DEF DirsOf, One, Has
<1> QED BY <1>3, <1>4

LEMMA PageSet ==
    ASSUME NEW P, NEW Q, NEW t \in Task, NEW p \in Page, NEW f, PagesKeep(P, Q, t, p, f)
    PROVE  Cardinality(PagesOf(Q, t, f)) + One(Maps(P, t, p, f))
             = Cardinality(PagesOf(P, t, f)) + One(Maps(Q, t, p, f))
<1>1. PagesOf(P, t, f) \in SUBSET Page /\ PagesOf(Q, t, f) \in SUBSET Page /\ IsFiniteSet(Page)
  BY SetsFinite DEF PagesOf
<1>2. \A q \in Page \ {p} : q \in PagesOf(P, t, f) <=> q \in PagesOf(Q, t, f)
  BY DEF PagesOf, PagesKeep
<1>3. Cardinality(PagesOf(Q, t, f)) + One(p \in PagesOf(P, t, f))
        = Cardinality(PagesOf(P, t, f)) + One(p \in PagesOf(Q, t, f))
  BY <1>1, <1>2, OneCounts
<1>4. /\ One(p \in PagesOf(P, t, f)) = One(Maps(P, t, p, f))
      /\ One(p \in PagesOf(Q, t, f)) = One(Maps(Q, t, p, f))
  BY DEF PagesOf, One
<1> QED BY <1>3, <1>4

-----------------------------------------------------------------------------
(* The invariant. *)
ClearNow(t, f) == Clear(task, dir, pte, args, loading, t, f)
OfNow(t, f)    == Of(task, dir, pte, args, loading, t, f)

LEMMA Sole ==
    ASSUME TypeOK, Counted, NEW f \in Frame, mem_map[f] <= 1, NEW t \in Task,
           ~ClearNow(t, f)
    PROVE  /\ mem_map[f] = 1 /\ f \notin lost
           /\ OfOne(task, dir, pte, args, loading, t, f)
           /\ \A u \in Task \ {t} : ClearNow(u, f)
<1>1. mem_map[f] \in Nat /\ mem_map[f] = Total(task, dir, pte, args, loading, lost, f)
  BY DEF TypeOK, Counted
<1>2. OfNow(t, f) \in Nat /\ OfNow(t, f) # 0
  BY OfCounts DEF OfNow, ClearNow
<1>3. OfNow(t, f) + One(f \in lost) <= mem_map[f]
  BY <1>1, TotalHas DEF OfNow
<1>4. mem_map[f] = 1 /\ OfNow(t, f) = 1 /\ f \notin lost
  BY <1>1, <1>2, <1>3 DEF One
<1>5. ASSUME NEW u \in Task, u # t PROVE ClearNow(u, f)
  <2>1. OfNow(t, f) + OfNow(u, f) + One(f \in lost) <= mem_map[f]
    BY <1>1, <1>5, TotalFits DEF OfNow
  <2>2. OfNow(u, f) \in Nat /\ One(f \in lost) \in Nat
    BY OfCounts DEF OfNow, One
  <2>3. OfNow(u, f) = 0
    BY <1>4, <2>1, <2>2
  <2> QED BY <2>3, OfCounts DEF OfNow, ClearNow
<1>6. OfOne(task, dir, pte, args, loading, t, f)
  BY <1>4, OneOf DEF OfNow
<1> QED BY <1>4, <1>5, <1>6

LEMMA Unused ==
    ASSUME TypeOK, Counted, NEW f \in Frame, mem_map[f] = 0
    PROVE  f \notin lost /\ \A t \in Task : ClearNow(t, f) /\ OfNow(t, f) = 0
<1>1. \A t \in Task : ClearNow(t, f)
  BY Sole
<1>2. \A t \in Task : OfNow(t, f) = 0
  BY <1>1, OfCounts DEF OfNow, ClearNow
<1>3. PICK t \in Task : TRUE
  BY MemoryAssumption
<1>4. OfNow(t, f) + One(f \in lost) <= mem_map[f]
  BY TotalHas DEF OfNow, Counted
<1>5. f \notin lost
  BY <1>2, <1>4 DEF One
<1> QED BY <1>1, <1>2, <1>5

-----------------------------------------------------------------------------
(* A step that changes what the task t has, and nothing of another.        *)
Alone(t) ==
    \A u \in Task \ {t} :
        /\ task'[u] = task[u] /\ args'[u] = args[u] /\ loading'[u] = loading[u]
        /\ dir'[u] = dir[u] /\ pte'[u] = pte[u]
        /\ pc'[u] = pc[u] /\ call'[u] = call[u] /\ executable'[u] = executable[u]

CountStep(t) ==
    \A f \in Frame :
        mem_map'[f] + OfNow(t, f) + One(f \in lost)
           = mem_map[f] + Of(task', dir', pte', args', loading', t, f) + One(f \in lost')

(* What is somebody else's stays so. *)
Untouched(t) ==
    \A f \in Frame : mem_map[f] = 1 /\ ClearNow(t, f) => mem_map'[f] = 1

OwnRow(t) ==
    /\ task'[t] # NULL => mem_map'[task'[t]] = 1
    /\ args'[t] # NULL => mem_map'[args'[t]] = 1
    /\ loading'[t] # NULL => mem_map'[loading'[t].frame] = 1
    /\ \A d \in Dir : dir'[t][d] # NULL => mem_map'[dir'[t][d]] = 1
    /\ \A p \in Page :
          pte'[t][p] # NULL /\ pte'[t][p].w => mem_map'[pte'[t][p].frame] = 1
    /\ \A f \in lost' \ lost : mem_map'[f] = 1

StepOK(t) ==
    TypeOK' /\ Alone(t) /\ CountStep(t) /\ Untouched(t) /\ OwnRow(t) /\ TaskOK(t)'

(* What another has is not what t has, if its counter is 1. *)
LEMMA NotOwn ==
    ASSUME TypeOK, Counted, NEW f \in Frame, mem_map[f] = 1,
           NEW t \in Task, NEW u \in Task, u # t, ~ClearNow(u, f)
    PROVE  ClearNow(t, f)
BY Sole

(* The general case: the others keep what they have, except that some of   *)
(* their pages become read only.                                           *)
OthersStay(t) ==
    \A u \in Task \ {t} :
        /\ task'[u] = task[u] /\ args'[u] = args[u] /\ loading'[u] = loading[u]
        /\ dir'[u] = dir[u]
        /\ pc'[u] = pc[u] /\ call'[u] = call[u] /\ executable'[u] = executable[u]
        /\ \A p \in Page :
              /\ pte'[u][p] # NULL <=> pte[u][p] # NULL
              /\ pte[u][p] # NULL =>
                    /\ pte'[u][p].frame = pte[u][p].frame
                    /\ pte'[u][p].w => pte[u][p].w

OthersOnce(t) ==
    /\ \A u \in Task \ {t} :
          /\ task[u] # NULL => mem_map'[task[u]] = 1
          /\ args[u] # NULL => mem_map'[args[u]] = 1
          /\ loading[u] # NULL => mem_map'[loading[u].frame] = 1
          /\ \A d \in Dir : dir[u][d] # NULL => mem_map'[dir[u][d]] = 1
          /\ \A p \in Page : pte[u][p] # NULL /\ pte'[u][p].w =>
                mem_map'[pte[u][p].frame] = 1
    /\ \A f \in lost : mem_map'[f] = 1

JoinOK(t) ==
    TypeOK' /\ OthersStay(t) /\ CountStep(t) /\ OthersOnce(t) /\ OwnRow(t) /\ TaskOK(t)'

LEMMA JoinStep ==
    ASSUME IInv, NEW t \in Task, JoinOK(t)
    PROVE  IInv'
<1>1. /\ TypeOK /\ Counted /\ OwnedOnce /\ WritableOnce
      /\ TypeOK' /\ OthersStay(t) /\ OthersOnce(t) /\ OwnRow(t)
  BY DEF IInv, JoinOK
<1>2. OthersKeep(task, dir, pte, args, loading, task', dir', pte', args', loading', t)
  BY <1>1 DEF OthersKeep, OthersStay, Maps
<1>3. Counted'
  <2> SUFFICES ASSUME NEW f \in Frame
               PROVE  mem_map'[f] = Total(task', dir', pte', args', loading', lost', f)
    BY DEF Counted
  <2>1. Total(task', dir', pte', args', loading', lost', f) + OfNow(t, f) + One(f \in lost)
          = Total(task, dir, pte, args, loading, lost, f)
              + Of(task', dir', pte', args', loading', t, f) + One(f \in lost')
    BY <1>2, TotalAfter DEF OfNow
  <2>2. mem_map[f] = Total(task, dir, pte, args, loading, lost, f)
    BY <1>1 DEF Counted
  <2>3. mem_map[f] \in Nat /\ mem_map'[f] \in Nat
    BY <1>1 DEF TypeOK
  <2>4. Total(task', dir', pte', args', loading', lost', f) \in Nat
    BY TotalHas
  <2>5. OfNow(t, f) \in Nat /\ Of(task', dir', pte', args', loading', t, f) \in Nat
    BY OfCounts DEF OfNow
  <2>6. One(f \in lost) \in Nat /\ One(f \in lost') \in Nat
    BY DEF One
  <2>7. mem_map'[f] + OfNow(t, f) + One(f \in lost)
          = mem_map[f] + Of(task', dir', pte', args', loading', t, f) + One(f \in lost')
    BY DEF JoinOK, CountStep
  <2> QED BY <2>1, <2>2, <2>3, <2>4, <2>5, <2>6, <2>7
<1>4. ASSUME NEW u \in Task, u # t
      PROVE  /\ task'[u] # NULL => mem_map'[task'[u]] = 1
             /\ args'[u] # NULL => mem_map'[args'[u]] = 1
             /\ loading'[u] # NULL => mem_map'[loading'[u].frame] = 1
             /\ \A d \in Dir : dir'[u][d] # NULL => mem_map'[dir'[u][d]] = 1
             /\ \A p \in Page :
                   pte'[u][p] # NULL /\ pte'[u][p].w => mem_map'[pte'[u][p].frame] = 1
  BY <1>1, <1>4 DEF OthersStay, OthersOnce
<1>5. ASSUME NEW f \in lost' PROVE mem_map'[f] = 1
  BY <1>1 DEF OwnRow, OthersOnce
<1>6. OwnedOnce'
  BY <1>1, <1>4, <1>5 DEF OwnedOnce, OwnRow
<1>7. WritableOnce'
  BY <1>1, <1>4 DEF WritableOnce, OwnRow, Present, FrameOf
<1>8. ASSUME NEW u \in Task PROVE TaskOK(u)'
  <2>1. CASE u = t
    BY <2>1 DEF JoinOK
  <2>2. CASE u # t
    <3>1. /\ task'[u] = task[u] /\ args'[u] = args[u] /\ loading'[u] = loading[u]
          /\ dir'[u] = dir[u]
          /\ pc'[u] = pc[u] /\ call'[u] = call[u] /\ executable'[u] = executable[u]
          /\ \A p \in Page : pte'[u][p] # NULL <=> pte[u][p] # NULL
      BY <1>1, <2>2 DEF OthersStay
    <3>2. TaskOK(u)
      BY DEF IInv
    <3>3. loading[u] # NULL => loading[u].page \in Page
      BY <1>1 DEF TypeOK, Load
    <3> QED BY <3>1, <3>2, <3>3 DEF TaskOK, Tables, Present
  <2> QED BY <2>1, <2>2
<1> QED BY <1>1, <1>3, <1>6, <1>7, <1>8 DEF IInv

LEMMA AloneStep ==
    ASSUME IInv, NEW t \in Task, StepOK(t)
    PROVE  IInv'
<1>1. TypeOK /\ Counted /\ OwnedOnce /\ WritableOnce /\ TypeOK' /\ Alone(t) /\ OwnRow(t)
  BY DEF IInv, StepOK
<1>2. ASSUME NEW f \in Frame, mem_map[f] = 1, ClearNow(t, f)
      PROVE  mem_map'[f] = 1
  BY <1>2 DEF StepOK, Untouched
<1>3. ASSUME NEW u \in Task, u # t
      PROVE  /\ task[u] # NULL => mem_map'[task[u]] = 1
             /\ args[u] # NULL => mem_map'[args[u]] = 1
             /\ loading[u] # NULL => mem_map'[loading[u].frame] = 1
             /\ \A d \in Dir : dir[u][d] # NULL => mem_map'[dir[u][d]] = 1
             /\ \A p \in Page : pte[u][p] # NULL /\ pte'[u][p].w =>
                   mem_map'[pte[u][p].frame] = 1
  <2>1. /\ task'[u] = task[u] /\ args'[u] = args[u] /\ loading'[u] = loading[u]
        /\ dir'[u] = dir[u] /\ pte'[u] = pte[u]
    BY <1>1, <1>3 DEF Alone
  <2>2. ASSUME NEW f \in Frame, mem_map[f] = 1, ~ClearNow(u, f) PROVE mem_map'[f] = 1
    BY <1>1, <1>2, <1>3, <2>2, NotOwn
  <2>3. task[u] # NULL => mem_map'[task[u]] = 1
    <3>1. task[u] # NULL => task[u] \in Frame /\ mem_map[task[u]] = 1
      BY <1>1 DEF TypeOK, OwnedOnce
    <3> QED BY <2>2, <3>1 DEF ClearNow, Clear
  <2>4. args[u] # NULL => mem_map'[args[u]] = 1
    <3>1. args[u] # NULL => args[u] \in Frame /\ mem_map[args[u]] = 1
      BY <1>1 DEF TypeOK, OwnedOnce
    <3> QED BY <2>2, <3>1 DEF ClearNow, Clear
  <2>5. loading[u] # NULL => mem_map'[loading[u].frame] = 1
    <3>1. loading[u] # NULL => loading[u].frame \in Frame /\ mem_map[loading[u].frame] = 1
      BY <1>1 DEF TypeOK, OwnedOnce, Load
    <3> QED BY <2>2, <3>1 DEF ClearNow, Clear, Loads
  <2>6. ASSUME NEW d \in Dir, dir[u][d] # NULL PROVE mem_map'[dir[u][d]] = 1
    <3>1. dir[u][d] \in Frame /\ mem_map[dir[u][d]] = 1
      BY <1>1, <2>6 DEF TypeOK, OwnedOnce
    <3> QED BY <2>2, <3>1 DEF ClearNow, Clear
  <2>7. ASSUME NEW p \in Page, pte[u][p] # NULL, pte[u][p].w
        PROVE  mem_map'[pte[u][p].frame] = 1
    <3>1. pte[u][p].frame \in Frame /\ mem_map[pte[u][p].frame] = 1
      BY <1>1, <2>7 DEF TypeOK, PTE, WritableOnce, Present, FrameOf
    <3>2. ~ClearNow(u, pte[u][p].frame)
      BY <2>7 DEF ClearNow, Clear, Maps
    <3> QED BY <2>2, <3>1, <3>2
  <2> QED BY <2>1, <2>3, <2>4, <2>5, <2>6, <2>7
<1>4. ASSUME NEW f \in lost PROVE mem_map'[f] = 1
  <2>1. f \in Frame /\ mem_map[f] = 1
    BY <1>1 DEF TypeOK, OwnedOnce
  <2>2. ClearNow(t, f)
    BY <1>1, <2>1, Sole
  <2> QED BY <1>2, <2>1, <2>2
<1>5. OthersOnce(t)
  BY <1>3, <1>4 DEF OthersOnce
<1>6. OthersStay(t)
  BY <1>1 DEF Alone, OthersStay
<1>7. JoinOK(t)
  BY <1>5, <1>6 DEF StepOK, JoinOK
<1> QED BY <1>7, JoinStep

-----------------------------------------------------------------------------
(* Contents. *)
LEMMA Contents ==
    /\ Zero \in Content
    /\ \A t \in Task : \A c : Written(t, c) \in Content
    /\ \A e \in Program, p \in Page : File(e, p) \in Content
BY DEF Content, Zero, Written, File

LEMMA ClearedContent ==
    ASSUME content \in [Frame -> Content], ClearFreed
    PROVE  content' \in [Frame -> Content]
BY Contents DEF ClearFreed

(* The parts of what t has of the frame f. *)
Parts(t, f) ==
    /\ OfNow(t, f) = One(task[t] = f) + Cardinality(DirsOf(dir, t, f)) + One(args[t] = f)
                        + One(Loads(loading, t, f)) + Cardinality(PagesOf(pte, t, f))
    /\ Cardinality(DirsOf(dir, t, f)) \in Nat /\ Cardinality(PagesOf(pte, t, f)) \in Nat
    /\ OfNow(t, f) \in Nat /\ OfNow(t, f) <= mem_map[f]
    /\ (\A d \in Dir : dir[t][d] # f) => Cardinality(DirsOf(dir, t, f)) = 0
    /\ (\A p \in Page : ~Maps(pte, t, p, f)) => Cardinality(PagesOf(pte, t, f)) = 0
    /\ ClearNow(t, f) => Cardinality(DirsOf(dir, t, f)) = 0 /\ Cardinality(PagesOf(pte, t, f)) = 0

LEMMA PartsOf ==
    ASSUME TypeOK, Counted, NEW t \in Task, NEW f \in Frame
    PROVE  Parts(t, f)
<1>1. OfNow(t, f) = One(task[t] = f) + Cardinality(DirsOf(dir, t, f)) + One(args[t] = f)
                        + One(Loads(loading, t, f)) + Cardinality(PagesOf(pte, t, f))
  BY DEF OfNow, Of
<1>2. /\ Cardinality(DirsOf(dir, t, f)) \in Nat /\ Cardinality(PagesOf(pte, t, f)) \in Nat
      /\ OfNow(t, f) \in Nat
  BY OfCounts DEF OfNow
<1>3. OfNow(t, f) <= mem_map[f]
  <2>1. OfNow(t, f) + One(f \in lost) <= mem_map[f]
    BY TotalHas DEF OfNow, Counted
  <2>2. mem_map[f] \in Nat
    BY DEF TypeOK
  <2> QED BY <1>2, <2>1, <2>2 DEF One
<1>4. (\A d \in Dir : dir[t][d] # f) => Cardinality(DirsOf(dir, t, f)) = 0
  <2>1. (\A d \in Dir : dir[t][d] # f) => DirsOf(dir, t, f) = {}
    BY DEF DirsOf
  <2> QED BY <2>1, FS_EmptySet
<1>5. (\A p \in Page : ~Maps(pte, t, p, f)) => Cardinality(PagesOf(pte, t, f)) = 0
  <2>1. (\A p \in Page : ~Maps(pte, t, p, f)) => PagesOf(pte, t, f) = {}
    BY DEF PagesOf
  <2> QED BY <2>1, FS_EmptySet
<1> QED BY <1>1, <1>2, <1>3, <1>4, <1>5 DEF Parts, ClearNow, Clear

(* The functions that free page tables count what t has.                   *)
LEMMA ReferencesAre ==
    ASSUME NEW t \in Task, NEW f
    PROVE  References(t, f) = Cardinality(PagesOf(pte, t, f)) + Cardinality(DirsOf(dir, t, f))
<1>1. {p \in Page : Present(t, p) /\ FrameOf(t, p) = f} = PagesOf(pte, t, f)
  BY DEF PagesOf, Maps, Present, FrameOf
<1>2. {d \in Dir : dir[t][d] = f} = DirsOf(dir, t, f)
  BY DEF DirsOf
<1> QED BY <1>1, <1>2 DEF References

(* do_exit: what the task was loading has been given back, and what held   *)
(* the arguments is lost.                                                  *)
LEMMA ExitOK ==
    ASSUME IInv, NEW t \in Task, task[t] # NULL, NEW map, NEW held,
           held \ {NULL} = {args[t]} \ {NULL},
           map \in [Frame -> Int],
           \A f \in Frame : map[f] = mem_map[f] - One(Loads(loading, t, f)),
           DoExit(t, map, held)
    PROVE  StepOK(t)
<1>0. TypeOK /\ Counted /\ OwnedOnce /\ TaskOK(t)
  BY DEF IInv
<1>1. /\ mem_map' = [f \in Frame |-> map[f] - References(t, f)]
      /\ dir' = [dir EXCEPT ![t] = NoTables] /\ pte' = [pte EXCEPT ![t] = NoPages]
      /\ pc' = [pc EXCEPT ![t] = "exiting"] /\ call' = [call EXCEPT ![t] = NULL]
      /\ args' = [args EXCEPT ![t] = NULL] /\ loading' = [loading EXCEPT ![t] = NULL]
      /\ lost' = lost \cup (held \ {NULL}) /\ ClearFreed
      /\ task' = task /\ executable' = executable
  BY DEF DoExit, FreePageTables
<1>2. Alone(t)
  BY <1>0, <1>1 DEF Alone, TypeOK
<1>3. /\ task'[t] = task[t] /\ args'[t] = NULL /\ loading'[t] = NULL
      /\ \A d \in Dir : dir'[t][d] = NULL
      /\ \A p \in Page : pte'[t][p] = NULL
      /\ pc'[t] = "exiting" /\ call'[t] = NULL
  BY <1>0, <1>1 DEF TypeOK, NoTables, NoPages
<1>4. ASSUME NEW f \in Frame
      PROVE  /\ Parts(t, f) /\ mem_map[f] \in Nat
             /\ mem_map'[f] = mem_map[f] - One(Loads(loading, t, f))
                                - Cardinality(PagesOf(pte, t, f)) - Cardinality(DirsOf(dir, t, f))
  <2>1. mem_map'[f] = map[f] - References(t, f)
    BY <1>1
  <2>2. References(t, f) = Cardinality(PagesOf(pte, t, f)) + Cardinality(DirsOf(dir, t, f))
    BY ReferencesAre
  <2>3. Parts(t, f) /\ mem_map[f] \in Nat
    BY <1>0, PartsOf DEF TypeOK
  <2>4. One(Loads(loading, t, f)) \in Nat
    BY DEF One
  <2>5. map[f] = mem_map[f] - One(Loads(loading, t, f))
    OBVIOUS
  <2> QED BY <2>1, <2>2, <2>3, <2>4, <2>5 DEF Parts
<1>5. ASSUME NEW f \in Frame
      PROVE  /\ mem_map'[f] \in Nat
             /\ mem_map[f] = 1 /\ ClearNow(t, f) => mem_map'[f] = 1
             /\ task[t] = f => mem_map'[f] = 1
             /\ args[t] = f => mem_map'[f] = 1 /\ f \notin lost
  <2> DEFINE a == One(task[t] = f)
             b == One(args[t] = f)
             l == One(Loads(loading, t, f))
             d == Cardinality(DirsOf(dir, t, f))
             p == Cardinality(PagesOf(pte, t, f))
  <2>1. a \in Nat /\ b \in Nat /\ l \in Nat /\ d \in Nat /\ p \in Nat
    BY <1>4 DEF One, Parts
  <2>2. a + d + b + l + p <= mem_map[f] /\ mem_map'[f] = mem_map[f] - l - p - d
    BY <1>4 DEF Parts
  <2>3. mem_map'[f] \in Nat
    <3> HIDE DEF a, b, l, d, p
    <3> QED BY <1>4, <2>1, <2>2
  <2>4. ClearNow(t, f) => d = 0 /\ p = 0 /\ l = 0
    BY <1>4 DEF Parts, ClearNow, Clear, One
  <2>5. ASSUME task[t] = f \/ args[t] = f
        PROVE  mem_map[f] = 1 /\ d = 0 /\ p = 0 /\ l = 0 /\ (args[t] = f => f \notin lost)
    <3>1. mem_map[f] = 1
      BY <1>0, <2>5, SetsFinite DEF OwnedOnce, TypeOK
    <3>2. ~ClearNow(t, f)
      BY <2>5 DEF ClearNow, Clear
    <3>3. OfOne(task, dir, pte, args, loading, t, f) /\ f \notin lost
      BY <1>0, <3>1, <3>2, Sole
    <3>4. ~Loads(loading, t, f) /\ (\A e \in Dir : dir[t][e] # f) /\ (\A q \in Page : ~Maps(pte, t, q, f))
      BY <2>5, <3>3 DEF OfOne
    <3> QED BY <1>4, <3>1, <3>3, <3>4 DEF Parts, One
  <2> HIDE DEF a, b, l, d, p
  <2> QED BY <1>4, <2>2, <2>3, <2>4, <2>5
<1>6. TypeOK'
  <2>1. mem_map' \in [Frame -> Nat]
    BY <1>1, <1>5
  <2>2. content' \in [Frame -> Content]
    BY <1>0, <1>1, ClearedContent DEF TypeOK
  <2>3. dir' \in [Task -> [Dir -> Frame \cup {NULL}]]
    BY <1>0, <1>1 DEF TypeOK, NoTables
  <2>4. pte' \in [Task -> [Page -> PTE \cup {NULL}]]
    BY <1>0, <1>1 DEF TypeOK, NoPages
  <2>5. lost' \subseteq Frame
    BY <1>0, <1>1 DEF TypeOK
  <2>6. \A u \in Task, p \in Page : Present(u, p)' => dir'[u][DirOf(p)] # NULL
    BY <1>0, <1>2, <1>3 DEF TypeOK, Alone, Present
  <2> QED BY <1>0, <1>1, <2>1, <2>2, <2>3, <2>4, <2>5, <2>6 DEF TypeOK, Present
<1>7. CountStep(t)
  <2> SUFFICES ASSUME NEW f \in Frame
               PROVE  mem_map'[f] + OfNow(t, f) + One(f \in lost)
                        = mem_map[f] + Of(task', dir', pte', args', loading', t, f)
                            + One(f \in lost')
    BY DEF CountStep
  <2> DEFINE D == Cardinality(DirsOf(dir', t, f))
             P == Cardinality(PagesOf(pte', t, f))
  <2>1. D = 0 /\ P = 0
    <3>1. NULL # f
      BY SetsFinite
    <3>2. DirsOf(dir', t, f) = {} /\ PagesOf(pte', t, f) = {}
      BY <1>3, <3>1 DEF DirsOf, PagesOf, Maps
    <3> QED BY <3>2, FS_EmptySet
  <2>2. One(args'[t] = f) = 0 /\ One(Loads(loading', t, f)) = 0 /\ One(task'[t] = f) = One(task[t] = f)
    BY <1>3, SetsFinite DEF One, Loads
  <2>3. Of(task', dir', pte', args', loading', t, f) = One(task[t] = f)
    <3>1. One(task[t] = f) \in Nat
      BY DEF One
    <3> QED BY <2>1, <2>2, <3>1 DEF Of
  <2>4. One(f \in lost') = One(f \in lost) + One(args[t] = f)
    <3>1. f \in lost' <=> f \in lost \/ f = args[t]
      BY <1>1, SetsFinite
    <3> QED BY <1>5, <3>1 DEF One
  <2>5. /\ One(task[t] = f) \in Nat /\ One(args[t] = f) \in Nat
        /\ One(Loads(loading, t, f)) \in Nat /\ One(f \in lost) \in Nat
    BY DEF One
  <2>6. /\ OfNow(t, f) = One(task[t] = f) + Cardinality(DirsOf(dir, t, f)) + One(args[t] = f)
                           + One(Loads(loading, t, f)) + Cardinality(PagesOf(pte, t, f))
        /\ Cardinality(DirsOf(dir, t, f)) \in Nat /\ Cardinality(PagesOf(pte, t, f)) \in Nat
    BY <1>4 DEF Parts
  <2> QED BY <1>4, <2>3, <2>4, <2>5, <2>6
<1>8. Untouched(t)
  BY <1>5 DEF Untouched
<1>9. OwnRow(t)
  <2>1. task[t] \in Frame
    BY <1>0 DEF TypeOK
  <2>2. \A f \in lost' \ lost : f \in Frame /\ f = args[t]
    BY <1>0, <1>1 DEF TypeOK
  <2> QED BY <1>3, <1>5, <2>1, <2>2 DEF OwnRow
<1>10. TaskOK(t)'
  <2>1. Tables(t)' = {}
    BY <1>3 DEF Tables
  <2> QED BY <1>3, <2>1 DEF TaskOK
<1> QED BY <1>2, <1>6, <1>7, <1>8, <1>9, <1>10 DEF StepOK

-----------------------------------------------------------------------------
(* put_page: a page is entered, and a page table if there was none.        *)
Put(t, p, entry, map) ==
    /\ mem_map' \in [Frame -> Nat]
    /\ \A f \in Frame :
          /\ mem_map'[f] + Cardinality(DirsOf(dir, t, f))
                = map[f] + Cardinality(DirsOf(dir', t, f))
          /\ map[f] # 0 => mem_map'[f] = map[f]
          /\ Cardinality(PagesOf(pte', t, f))
                = Cardinality(PagesOf(pte, t, f)) + One(entry.frame = f)
    /\ dir' \in [Task -> [Dir -> Frame \cup {NULL}]]
    /\ \A d \in Dir : dir'[t][d] = dir[t][d] \/ mem_map'[dir'[t][d]] = 1
    /\ \A d \in Dir : dir[t][d] # NULL => dir'[t][d] # NULL
    /\ dir'[t][DirOf(p)] # NULL
    /\ pte' \in [Task -> [Page -> PTE \cup {NULL}]]
    /\ pte'[t][p] = entry /\ \A q \in Page \ {p} : pte'[t][q] = pte[t][q]
    /\ \A u \in Task \ {t} : dir'[u] = dir[u] /\ pte'[u] = pte[u]

LEMMA TableTaken ==
    ASSUME TypeOK, NEW t \in Task, NEW p \in Page, NEW map \in [Frame -> Nat],
           \A f \in Frame : map[f] = 0 => \A d \in Dir : dir[t][d] # f,
           TakeTable(t, p, map)
    PROVE  /\ mem_map' \in [Frame -> Nat]
           /\ dir' \in [Task -> [Dir -> Frame \cup {NULL}]]
           /\ \A f \in Frame :
                 /\ mem_map'[f] + Cardinality(DirsOf(dir, t, f))
                       = map[f] + Cardinality(DirsOf(dir', t, f))
                 /\ map[f] # 0 => mem_map'[f] = map[f]
           /\ \A d \in Dir : dir'[t][d] = dir[t][d] \/ mem_map'[dir'[t][d]] = 1
           /\ \A d \in Dir : dir[t][d] # NULL => dir'[t][d] # NULL
           /\ dir'[t][DirOf(p)] # NULL
           /\ \A u \in Task \ {t} : dir'[u] = dir[u]
<1>1. DirOf(p) \in Dir /\ NULL \notin Frame
  BY SetsFinite
<1>2. dir \in [Task -> [Dir -> Frame \cup {NULL}]]
  BY DEF TypeOK
<1>3. \A f : Cardinality(DirsOf(dir, t, f)) \in Nat
  BY OfCounts
<1>4. CASE dir[t][DirOf(p)] # NULL
  <2>1. mem_map' = map /\ dir' = dir
    BY <1>4 DEF TakeTable
  <2> QED BY <1>1, <1>2, <1>3, <1>4, <2>1
<1>5. CASE dir[t][DirOf(p)] = NULL
  <2>1. PICK g \in Frame : /\ map[g] = 0 /\ mem_map' = [map EXCEPT ![g] = 1]
                           /\ dir' = [dir EXCEPT ![t][DirOf(p)] = g]
    BY <1>5 DEF TakeTable, FreeIn, Get
  <2>2. /\ dir' \in [Task -> [Dir -> Frame \cup {NULL}]]
        /\ dir'[t][DirOf(p)] = g
        /\ \A d \in Dir \ {DirOf(p)} : dir'[t][d] = dir[t][d]
        /\ \A u \in Task \ {t} : dir'[u] = dir[u]
    BY <1>1, <1>2, <2>1
  <2>3. mem_map' \in [Frame -> Nat] /\ mem_map'[g] = 1
        /\ \A f \in Frame \ {g} : mem_map'[f] = map[f]
    BY <2>1
  <2>4. ASSUME NEW f \in Frame
        PROVE  /\ mem_map'[f] + Cardinality(DirsOf(dir, t, f))
                     = map[f] + Cardinality(DirsOf(dir', t, f))
               /\ map[f] # 0 => mem_map'[f] = map[f]
    <3>1. Cardinality(DirsOf(dir', t, f)) + One(Has(dir, t, DirOf(p), f))
            = Cardinality(DirsOf(dir, t, f)) + One(Has(dir', t, DirOf(p), f))
      <4>1. DirsKeep(dir, dir', t, DirOf(p))
        BY <2>2 DEF DirsKeep
      <4> QED BY <1>1, <4>1, DirSet
    <3>2. One(Has(dir, t, DirOf(p), f)) = 0
      BY <1>1, <1>5 DEF One, Has
    <3>3. /\ Cardinality(DirsOf(dir, t, f)) \in Nat /\ Cardinality(DirsOf(dir', t, f)) \in Nat
      BY OfCounts
    <3>4. CASE f = g
      <4>1. One(Has(dir', t, DirOf(p), f)) = 1
        BY <2>2, <3>4 DEF One, Has
      <4> QED BY <2>1, <2>3, <3>1, <3>2, <3>3, <3>4, <4>1
    <3>5. CASE f # g
      <4>1. One(Has(dir', t, DirOf(p), f)) = 0
        BY <2>2, <3>5 DEF One, Has
      <4>2. mem_map'[f] = map[f] /\ map[f] \in Nat
        BY <2>3, <3>5
      <4> QED BY <3>1, <3>2, <3>3, <4>1, <4>2
    <3> QED BY <3>4, <3>5
  <2> QED BY <1>1, <1>2, <1>5, <2>2, <2>3, <2>4
<1> QED BY <1>4, <1>5

LEMMA PutOK ==
    ASSUME TypeOK, NEW t \in Task, NEW p \in Page, NEW map \in [Frame -> Nat],
           NEW entry \in PTE,
           \A f \in Frame : map[f] = 0 => \A d \in Dir : dir[t][d] # f,
           PutPage(t, p, entry, map), ~Present(t, p)
    PROVE  Put(t, p, entry, map)
<1>1. TakeTable(t, p, map) /\ pte' = [pte EXCEPT ![t][p] = entry]
  BY DEF PutPage
<1>2. pte \in [Task -> [Page -> PTE \cup {NULL}]] /\ pte[t][p] = NULL /\ entry # NULL
  BY SetsFinite DEF TypeOK, Present
<1>3. /\ pte' \in [Task -> [Page -> PTE \cup {NULL}]]
      /\ pte'[t][p] = entry
      /\ \A q \in Page \ {p} : pte'[t][q] = pte[t][q]
      /\ \A u \in Task \ {t} : pte'[u] = pte[u]
  BY <1>1, <1>2
<1>4. ASSUME NEW f \in Frame
      PROVE  Cardinality(PagesOf(pte', t, f))
               = Cardinality(PagesOf(pte, t, f)) + One(entry.frame = f)
  <2>1. Cardinality(PagesOf(pte', t, f)) + One(Maps(pte, t, p, f))
          = Cardinality(PagesOf(pte, t, f)) + One(Maps(pte', t, p, f))
    <3>1. PagesKeep(pte, pte', t, p, f)
      BY <1>3 DEF PagesKeep, Maps
    <3> QED BY <3>1, PageSet
  <2>2. One(Maps(pte, t, p, f)) = 0 /\ One(Maps(pte', t, p, f)) = One(entry.frame = f)
    BY <1>2, <1>3 DEF Maps, One
  <2>3. Cardinality(PagesOf(pte, t, f)) \in Nat /\ Cardinality(PagesOf(pte', t, f)) \in Nat
    BY OfCounts
  <2> QED BY <2>1, <2>2, <2>3
<1>5. /\ mem_map' \in [Frame -> Nat]
      /\ dir' \in [Task -> [Dir -> Frame \cup {NULL}]]
      /\ \A f \in Frame :
            /\ mem_map'[f] + Cardinality(DirsOf(dir, t, f))
                  = map[f] + Cardinality(DirsOf(dir', t, f))
            /\ map[f] # 0 => mem_map'[f] = map[f]
      /\ \A d \in Dir : dir'[t][d] = dir[t][d] \/ mem_map'[dir'[t][d]] = 1
      /\ \A d \in Dir : dir[t][d] # NULL => dir'[t][d] # NULL
      /\ dir'[t][DirOf(p)] # NULL
      /\ \A u \in Task \ {t} : dir'[u] = dir[u]
  BY <1>1, TableTaken
<1> QED BY <1>3, <1>4, <1>5 DEF Put

(* What t has of a frame that has one reference, or none.                  *)
LEMMA RowOnce ==
    ASSUME IInv, NEW t \in Task
    PROVE  /\ task[t] # NULL => task[t] \in Frame /\ mem_map[task[t]] = 1
           /\ args[t] # NULL => args[t] \in Frame /\ mem_map[args[t]] = 1
           /\ loading[t] # NULL => /\ loading[t].frame \in Frame /\ loading[t].page \in Page
                                   /\ mem_map[loading[t].frame] = 1
           /\ \A d \in Dir : dir[t][d] # NULL => dir[t][d] \in Frame /\ mem_map[dir[t][d]] = 1
           /\ \A p \in Page : pte[t][p] # NULL =>
                 /\ pte[t][p] \in PTE /\ pte[t][p].frame \in Frame
                 /\ pte[t][p].w => mem_map[pte[t][p].frame] = 1
                 /\ dir[t][DirOf(p)] # NULL
           /\ \A f \in Frame : mem_map[f] \in Nat
           /\ \A f \in Frame : mem_map[f] <= 1 /\ ~ClearNow(t, f) =>
                 mem_map[f] = 1 /\ f \notin lost /\ OfOne(task, dir, pte, args, loading, t, f)
<1>1. TypeOK /\ Counted /\ OwnedOnce /\ WritableOnce
  BY DEF IInv
<1>2. \A f \in Frame : mem_map[f] <= 1 /\ ~ClearNow(t, f) =>
        mem_map[f] = 1 /\ f \notin lost /\ OfOne(task, dir, pte, args, loading, t, f)
  BY <1>1, Sole
<1>3. \A p \in Page : pte[t][p] # NULL => pte[t][p] \in PTE /\ dir[t][DirOf(p)] # NULL
  BY <1>1 DEF TypeOK, Present
<1>4. \A p \in Page : pte[t][p] # NULL =>
        /\ pte[t][p].frame \in Frame
        /\ pte[t][p].w => mem_map[pte[t][p].frame] = 1
  BY <1>1, <1>3 DEF WritableOnce, Present, FrameOf, PTE
<1>5. /\ task[t] # NULL => task[t] \in Frame /\ mem_map[task[t]] = 1
      /\ args[t] # NULL => args[t] \in Frame /\ mem_map[args[t]] = 1
      /\ \A d \in Dir : dir[t][d] # NULL => dir[t][d] \in Frame /\ mem_map[dir[t][d]] = 1
      /\ \A f \in Frame : mem_map[f] \in Nat
  BY <1>1 DEF OwnedOnce, TypeOK
<1>6. loading[t] # NULL => /\ loading[t].frame \in Frame /\ loading[t].page \in Page
                           /\ mem_map[loading[t].frame] = 1
  BY <1>1 DEF OwnedOnce, TypeOK, Load
<1> QED BY <1>2, <1>3, <1>4, <1>5, <1>6

(* do_no_page enters a page that it has taken now or loaded.               *)
Fetched(t, entry, map) ==
    /\ entry \in PTE /\ map \in [Frame -> Nat]
    /\ mem_map[entry.frame] = 0 \/ Loads(loading, t, entry.frame)
    /\ \A f \in Frame :
          /\ Loads(loading, t, f) => f = entry.frame
          /\ map[f] = IF f = entry.frame THEN 1 ELSE mem_map[f]

LEMMA PutStep ==
    ASSUME IInv, NEW t \in Task, pc[t] \in {"user", "exec", "syscall"},
           NEW p \in Page, NEW entry, NEW map, Fetched(t, entry, map),
           PutPage(t, p, entry, map), ~Present(t, p),
           content' \in [Frame -> Content],
           loading' = [loading EXCEPT ![t] = NULL],
           UNCHANGED <<task, executable, pc, call, args, lost>>
    PROVE  StepOK(t)
<1>0. TypeOK /\ Counted /\ TaskOK(t)
  BY DEF IInv
<1>1. /\ entry \in PTE /\ entry.frame \in Frame /\ map \in [Frame -> Nat]
      /\ mem_map[entry.frame] = 0 \/ Loads(loading, t, entry.frame)
      /\ \A f \in Frame : Loads(loading, t, f) => f = entry.frame
      /\ \A f \in Frame : map[f] = IF f = entry.frame THEN 1 ELSE mem_map[f]
  BY DEF Fetched, PTE
<1>2. Loads(loading, t, entry.frame) => mem_map[entry.frame] = 1
  BY RowOnce DEF Loads
<1>3. ASSUME NEW f \in Frame, map[f] = 0 PROVE \A d \in Dir : dir[t][d] # f
  <2>1. f # entry.frame /\ mem_map[f] = 0
    BY <1>1, <1>3
  <2> QED BY <1>0, <2>1, Unused DEF ClearNow, Clear
<1>4. Put(t, p, entry, map)
  BY <1>0, <1>1, <1>3, PutOK
<1>5. Alone(t)
  BY <1>0, <1>4 DEF Alone, TypeOK, Put
<1>6. loading'[t] = NULL
  BY <1>0 DEF TypeOK
<1>7. ASSUME NEW f \in Frame, mem_map[f] = 1, f # entry.frame
      PROVE  mem_map'[f] = 1
  BY <1>1, <1>4, <1>7 DEF Put
<1>8. mem_map'[entry.frame] = 1
  BY <1>1, <1>4 DEF Put
<1>9. ASSUME NEW f \in Frame,
             f = task[t] \/ f = args[t] \/ (\E d \in Dir : dir[t][d] = f)
               \/ (\E q \in Page : Maps(pte, t, q, f) /\ pte[t][q].w)
      PROVE  mem_map'[f] = 1
  <2>1. mem_map[f] = 1
    BY <1>9, RowOnce, SetsFinite DEF Maps
  <2>2. CASE f # entry.frame
    BY <1>7, <2>1, <2>2
  <2>3. CASE f = entry.frame
    BY <1>8, <2>3
  <2> QED BY <2>2, <2>3
<1>10. TypeOK'
  <2>1. loading' \in [Task -> Load \cup {NULL}]
    BY <1>0 DEF TypeOK
  <2>2. \A u \in Task, q \in Page : Present(u, q)' => dir'[u][DirOf(q)] # NULL
    <3> SUFFICES ASSUME NEW u \in Task, NEW q \in Page, pte'[u][q] # NULL
                 PROVE  dir'[u][DirOf(q)] # NULL
      BY DEF Present
    <3>1. pte[u][q] # NULL => dir[u][DirOf(q)] # NULL
      BY <1>0 DEF TypeOK, Present
    <3>2. DirOf(q) \in Dir
      BY SetsFinite
    <3> QED BY <1>4, <3>1, <3>2 DEF Put
  <2> QED BY <1>0, <1>4, <2>1, <2>2 DEF TypeOK, Put
<1>11. CountStep(t)
  <2> SUFFICES ASSUME NEW f \in Frame
               PROVE  mem_map'[f] + OfNow(t, f) + One(f \in lost)
                        = mem_map[f] + Of(task', dir', pte', args', loading', t, f)
                            + One(f \in lost')
    BY DEF CountStep
  <2> DEFINE a == One(task[t] = f)
             b == One(args[t] = f)
             l == One(Loads(loading, t, f))
             d == Cardinality(DirsOf(dir, t, f))
             q == Cardinality(PagesOf(pte, t, f))
             d2 == Cardinality(DirsOf(dir', t, f))
             q2 == Cardinality(PagesOf(pte', t, f))
             e == One(entry.frame = f)
  <2>1. a \in Nat /\ b \in Nat /\ l \in Nat /\ e \in Nat
    BY DEF One
  <2>2. d \in Nat /\ q \in Nat /\ d2 \in Nat /\ q2 \in Nat
    BY OfCounts
  <2>3. mem_map[f] \in Nat /\ mem_map'[f] \in Nat /\ map[f] \in Nat
    BY <1>0, <1>1, <1>4 DEF TypeOK, Put
  <2>4. mem_map'[f] + d = map[f] + d2 /\ q2 = q + e
    BY <1>4 DEF Put
  <2>5. map[f] + l = mem_map[f] + e
    <3>1. CASE f = entry.frame
      <4>1. CASE Loads(loading, t, f)
        BY <1>1, <1>2, <3>1, <4>1 DEF One
      <4>2. CASE ~Loads(loading, t, f)
        BY <1>1, <3>1, <4>2 DEF One
      <4> QED BY <4>1, <4>2
    <3>2. CASE f # entry.frame
      BY <1>1, <2>3, <3>2 DEF One
    <3> QED BY <3>1, <3>2
  <2>6. OfNow(t, f) = a + d + b + l + q
    BY DEF OfNow, Of
  <2>7. Of(task', dir', pte', args', loading', t, f) = a + d2 + b + 0 + q2
    <3>1. One(Loads(loading', t, f)) = 0
      BY <1>6 DEF One, Loads
    <3>2. task' = task /\ args' = args
      OBVIOUS
    <3> QED BY <3>1, <3>2 DEF Of
  <2>8. One(f \in lost') = One(f \in lost) /\ One(f \in lost) \in Nat
    BY DEF One
  <2> HIDE DEF a, b, l, d, q, d2, q2, e
  <2> QED BY <2>1, <2>2, <2>3, <2>4, <2>5, <2>6, <2>7, <2>8
<1>12. Untouched(t)
  <2> SUFFICES ASSUME NEW f \in Frame, mem_map[f] = 1, ClearNow(t, f)
               PROVE  mem_map'[f] = 1
    BY DEF Untouched
  <2> QED BY <1>7, <1>8
<1>13. OwnRow(t)
  <2>1. task[t] # NULL => task[t] \in Frame /\ mem_map'[task[t]] = 1
    BY <1>9, RowOnce
  <2>2. args[t] # NULL => args[t] \in Frame /\ mem_map'[args[t]] = 1
    BY <1>9, RowOnce
  <2>3. \A d \in Dir : dir'[t][d] # NULL => mem_map'[dir'[t][d]] = 1
    <3> SUFFICES ASSUME NEW d \in Dir, dir'[t][d] # NULL PROVE mem_map'[dir'[t][d]] = 1
      OBVIOUS
    <3>1. dir'[t][d] = dir[t][d] \/ mem_map'[dir'[t][d]] = 1
      BY <1>4 DEF Put
    <3>2. dir[t][d] # NULL => dir[t][d] \in Frame
      BY RowOnce
    <3> QED BY <1>9, <3>1, <3>2
  <2>4. \A q \in Page : pte'[t][q] # NULL /\ pte'[t][q].w => mem_map'[pte'[t][q].frame] = 1
    <3> SUFFICES ASSUME NEW q \in Page, pte'[t][q] # NULL, pte'[t][q].w
                 PROVE  mem_map'[pte'[t][q].frame] = 1
      OBVIOUS
    <3>1. CASE q = p
      BY <1>4, <1>8, <3>1 DEF Put
    <3>2. CASE q # p
      <4>1. pte'[t][q] = pte[t][q]
        BY <1>4, <3>2 DEF Put
      <4>2. pte[t][q].frame \in Frame /\ Maps(pte, t, q, pte[t][q].frame)
        BY <4>1, RowOnce DEF Maps
      <4> QED BY <1>9, <4>1, <4>2
    <3> QED BY <3>1, <3>2
  <2> QED BY <1>6, <2>1, <2>2, <2>3, <2>4 DEF OwnRow
<1>14. TaskOK(t)'
  BY <1>0, <1>6 DEF TaskOK
<1> QED BY <1>5, <1>10, <1>11, <1>12, <1>13, <1>14 DEF StepOK

-----------------------------------------------------------------------------
(* The steps of one task. *)
LEMMA OomOK ==
    ASSUME IInv, NEW t \in Task, task[t] # NULL, loading[t] = NULL, NEW held,
           held \ {NULL} = {args[t]} \ {NULL}, DoExit(t, mem_map, held)
    PROVE  StepOK(t)
<1>1. mem_map \in [Frame -> Int]
  BY DEF IInv, TypeOK
<1>2. \A f \in Frame : mem_map[f] = mem_map[f] - One(Loads(loading, t, f))
  <2>1. \A f \in Frame : One(Loads(loading, t, f)) = 0
    BY DEF Loads, One
  <2> QED BY <1>1, <2>1
<1> QED BY <1>1, <1>2, ExitOK

LEMMA RunsHere ==
    ASSUME IInv, NEW t \in Task
    PROVE  /\ \A l : At(t, l) => pc[t] = l /\ loading[t] = NULL
           /\ \A p : Faults(t, p) =>
                 /\ loading[t] = NULL /\ pc[t] \in {"user", "exec", "syscall"}
                 /\ ~Present(t, p) /\ (p \in FilePage => executable[t] # NULL)
           /\ pc[t] # "none" => task[t] # NULL
           /\ pc[t] \notin {"exec", "execclose"} => args[t] = NULL
           /\ loading[t] # NULL => pc[t] \in {"user", "exec", "syscall"}
BY DEF IInv, TaskOK, At, Runs, Faults

LEMMA ExitSteps ==
    ASSUME IInv, NEW t \in Task, Exit(t)
    PROVE  StepOK(t)
<1>1. pc[t] = "user" /\ loading[t] = NULL
  BY RunsHere DEF Exit
<1>2. args[t] = NULL /\ task[t] # NULL
  BY <1>1, RunsHere
<1> QED BY <1>1, <1>2, OomOK DEF Exit

LEMMA EmptyPageSteps ==
    ASSUME IInv, NEW t \in Task, NEW p \in Page, EmptyPage(t, p)
    PROVE  StepOK(t)
<1>1. /\ loading[t] = NULL /\ pc[t] \in {"user", "exec", "syscall"} /\ ~Present(t, p)
      /\ task[t] # NULL
  BY RunsHere DEF EmptyPage
<1>2. PICK f \in Free :
        IF CanPut(t, p, Get(mem_map, f))
          THEN /\ PutPage(t, p, Entry(f), Get(mem_map, f))
               /\ UNCHANGED <<content, task, executable, pc, call, args, loading, lost>>
          ELSE Oom(t, mem_map)
  BY DEF EmptyPage
<1>3. CASE ~CanPut(t, p, Get(mem_map, f))
  BY <1>1, <1>2, <1>3, OomOK DEF Oom
<1>4. CASE CanPut(t, p, Get(mem_map, f))
  <2>1. f \in Frame /\ mem_map[f] = 0 /\ mem_map \in [Frame -> Nat]
    BY DEF Free, FreeIn, IInv, TypeOK
  <2>2. Fetched(t, Entry(f), Get(mem_map, f))
    <3>1. Entry(f) \in PTE /\ Entry(f).frame = f
      BY <2>1 DEF Entry, PTE
    <3>2. \A g \in Frame : ~Loads(loading, t, g)
      BY <1>1 DEF Loads
    <3>3. /\ Get(mem_map, f) \in [Frame -> Nat]
          /\ \A g \in Frame : Get(mem_map, f)[g] = IF g = f THEN 1 ELSE mem_map[g]
      BY <2>1 DEF Get
    <3> QED BY <2>1, <3>1, <3>2, <3>3 DEF Fetched
  <2>3. content' \in [Frame -> Content] /\ loading' = [loading EXCEPT ![t] = NULL]
    BY <1>1, <1>2, <1>4 DEF IInv, TypeOK
  <2> QED BY <1>1, <1>2, <1>4, <2>2, <2>3, PutStep
<1> QED BY <1>3, <1>4

LEMMA NoFreePageSteps ==
    ASSUME IInv, NEW t \in Task, NEW p \in Page, NoFreePage(t, p)
    PROVE  StepOK(t)
<1>1. loading[t] = NULL /\ pc[t] \in {"user", "exec", "syscall"} /\ task[t] # NULL
  BY RunsHere DEF NoFreePage
<1> QED BY <1>1, OomOK DEF NoFreePage, Oom

LEMMA FinishLoadSteps ==
    ASSUME IInv, NEW t \in Task, FinishLoad(t)
    PROVE  StepOK(t)
<1> DEFINE p == loading[t].page
           f == loading[t].frame
<1>1. loading[t] # NULL
  BY DEF FinishLoad
<1>2. /\ pc[t] \in {"user", "exec", "syscall"} /\ task[t] # NULL /\ ~Present(t, p)
      /\ executable[t] \in Program
      /\ TypeOK
  BY <1>1, RunsHere DEF IInv, TaskOK, TypeOK
<1>3. f \in Frame /\ p \in Page /\ mem_map[f] = 1 /\ mem_map \in [Frame -> Nat]
  BY <1>1, <1>2, RowOnce DEF TypeOK
<1>4. \A g \in Frame : Loads(loading, t, g) <=> g = f
  BY <1>1 DEF Loads
<1>5. CASE CanPut(t, p, mem_map)
  <2>1. /\ PutPage(t, p, Entry(f), mem_map)
        /\ content' = [content EXCEPT ![f] = File(executable[t], p)]
        /\ loading' = [loading EXCEPT ![t] = NULL]
        /\ UNCHANGED <<task, executable, pc, call, args, lost>>
    BY <1>5 DEF FinishLoad
  <2>2. Fetched(t, Entry(f), mem_map)
    <3>1. Entry(f) \in PTE /\ Entry(f).frame = f
      BY <1>3 DEF Entry, PTE
    <3> HIDE DEF f
    <3> QED BY <1>3, <1>4, <3>1 DEF Fetched
  <2>3. content' \in [Frame -> Content]
    BY <1>2, <1>3, <2>1, Contents DEF TypeOK
  <2> QED BY <1>2, <1>3, <2>1, <2>2, <2>3, PutStep
<1>6. CASE ~CanPut(t, p, mem_map)
  <2>1. DoExit(t, FreePage(mem_map, f), {args[t]})
    BY <1>6 DEF FinishLoad, Oom
  <2>2. FreePage(mem_map, f) \in [Frame -> Int]
    BY <1>3 DEF FreePage
  <2>3. \A g \in Frame : FreePage(mem_map, f)[g] = mem_map[g] - One(Loads(loading, t, g))
    <3> SUFFICES ASSUME NEW g \in Frame
                 PROVE  FreePage(mem_map, f)[g] = mem_map[g] - One(Loads(loading, t, g))
      OBVIOUS
    <3>1. mem_map[g] \in Nat /\ FreePage(mem_map, f)[g] = IF g = f THEN mem_map[g] - 1 ELSE mem_map[g]
      BY <1>3 DEF FreePage
    <3>2. One(Loads(loading, t, g)) = IF g = f THEN 1 ELSE 0
      BY <1>4 DEF One
    <3> QED BY <3>1, <3>2
  <2>4. {args[t]} \ {NULL} = {args[t]} \ {NULL}
    OBVIOUS
  <2> QED BY <1>2, <2>1, <2>2, <2>3, <2>4, ExitOK
<1> QED BY <1>5, <1>6

(* A step after which the tables refer to the same frames. *)
SamePages(t) ==
    /\ pte' \in [Task -> [Page -> PTE \cup {NULL}]]
    /\ \A u \in Task \ {t} : pte'[u] = pte[u]
    /\ \A p \in Page :
          /\ pte'[t][p] # NULL <=> pte[t][p] # NULL
          /\ pte[t][p] # NULL =>
                /\ pte'[t][p].frame = pte[t][p].frame
                /\ pte'[t][p].w => pte[t][p].w \/ mem_map[pte[t][p].frame] = 1

OthersGo(t) ==
    \A u \in Task \ {t} :
        pc'[u] = pc[u] /\ call'[u] = call[u] /\ executable'[u] = executable[u]

LEMMA QuietOK ==
    ASSUME IInv, NEW t \in Task,
           UNCHANGED <<mem_map, dir, task, args, loading, lost>>,
           SamePages(t), OthersGo(t), content' \in [Frame -> Content],
           pc' \in [Task -> {"none", "user", "syscall", "exec", "execclose",
                             "exiting", "zombie"}],
           call' \in [Task -> Page \cup {NULL}],
           executable' \in [Task -> Program \cup {NULL}],
           TaskOK(t)'
    PROVE  StepOK(t)
<1>0. TypeOK /\ OwnedOnce /\ WritableOnce
  BY DEF IInv
<1>1. Alone(t)
  BY DEF Alone, SamePages, OthersGo
<1>2. TypeOK'
  <2>1. \A u \in Task, p \in Page : pte'[u][p] # NULL => pte[u][p] # NULL
    BY DEF SamePages
  <2>2. \A u \in Task, p \in Page : Present(u, p)' => dir'[u][DirOf(p)] # NULL
    BY <1>0, <2>1 DEF TypeOK, Present
  <2> QED BY <1>0, <2>2 DEF TypeOK, SamePages
<1>3. CountStep(t)
  <2> SUFFICES ASSUME NEW f \in Frame
               PROVE  mem_map'[f] + OfNow(t, f) + One(f \in lost)
                        = mem_map[f] + Of(task', dir', pte', args', loading', t, f)
                            + One(f \in lost')
    BY DEF CountStep
  <2>1. PagesOf(pte', t, f) = PagesOf(pte, t, f)
    BY DEF PagesOf, Maps, SamePages
  <2>2. Of(task', dir', pte', args', loading', t, f) = OfNow(t, f)
    BY <2>1 DEF Of, OfNow
  <2> QED BY <2>2
<1>4. Untouched(t)
  BY DEF Untouched
<1>5. OwnRow(t)
  <2>1. \A p \in Page : pte'[t][p] # NULL /\ pte'[t][p].w => mem_map'[pte'[t][p].frame] = 1
    BY <1>0 DEF SamePages, WritableOnce, Present, FrameOf
  <2> QED BY <1>0, <2>1 DEF OwnRow, OwnedOnce
<1> QED BY <1>1, <1>2, <1>3, <1>4, <1>5 DEF StepOK

LEMMA PagesStay ==
    ASSUME IInv, NEW t \in Task, pte' = pte
    PROVE  SamePages(t)
BY DEF IInv, TypeOK, SamePages

(* One entry is changed, in its flags. *)
LEMMA FlagsChange ==
    ASSUME IInv, NEW t \in Task, NEW p \in Page, Present(t, p), NEW e \in PTE,
           e.frame = FrameOf(t, p), e.w => pte[t][p].w \/ mem_map[FrameOf(t, p)] = 1,
           pte' = [pte EXCEPT ![t][p] = e]
    PROVE  SamePages(t)
<1>1. pte \in [Task -> [Page -> PTE \cup {NULL}]] /\ NULL \notin PTE
  BY SetsFinite DEF IInv, TypeOK
<1>2. /\ pte' \in [Task -> [Page -> PTE \cup {NULL}]]
      /\ pte'[t][p] = e /\ \A q \in Page \ {p} : pte'[t][q] = pte[t][q]
      /\ \A u \in Task \ {t} : pte'[u] = pte[u]
  BY <1>1
<1> QED BY <1>1, <1>2 DEF SamePages, Present, FrameOf

LEMMA ExitDoneSteps ==
    ASSUME IInv, NEW t \in Task, ExitDone(t)
    PROVE  StepOK(t)
<1>1. pc[t] = "exiting" /\ loading[t] = NULL /\ TypeOK /\ TaskOK(t)
  BY RunsHere DEF ExitDone, IInv
<1>2. /\ executable' = [executable EXCEPT ![t] = NULL] /\ pc' = [pc EXCEPT ![t] = "zombie"]
      /\ UNCHANGED <<mem_map, content, task, dir, pte, call, args, loading, lost>>
  BY DEF ExitDone
<1>3. /\ pc' \in [Task -> {"none", "user", "syscall", "exec", "execclose", "exiting", "zombie"}]
      /\ executable' \in [Task -> Program \cup {NULL}] /\ call' \in [Task -> Page \cup {NULL}]
      /\ content' \in [Frame -> Content] /\ OthersGo(t)
  BY <1>1, <1>2 DEF TypeOK, OthersGo
<1>4. TaskOK(t)'
  BY <1>1, <1>2 DEF TypeOK, TaskOK, Tables
<1> QED BY <1>2, <1>3, <1>4, PagesStay, QuietOK

LEMMA ExecCommitSteps ==
    ASSUME IInv, NEW t \in Task, NEW e \in Program, ExecCommit(t, e)
    PROVE  StepOK(t)
<1>1. pc[t] = "exec" /\ loading[t] = NULL /\ TypeOK /\ TaskOK(t)
  BY RunsHere DEF ExecCommit, IInv
<1>2. /\ executable' = [executable EXCEPT ![t] = e] /\ pc' = [pc EXCEPT ![t] = "execclose"]
      /\ UNCHANGED <<mem_map, content, task, dir, pte, call, args, loading, lost>>
  BY DEF ExecCommit
<1>3. /\ pc' \in [Task -> {"none", "user", "syscall", "exec", "execclose", "exiting", "zombie"}]
      /\ executable' \in [Task -> Program \cup {NULL}] /\ call' \in [Task -> Page \cup {NULL}]
      /\ content' \in [Frame -> Content] /\ OthersGo(t)
  BY <1>1, <1>2 DEF TypeOK, OthersGo
<1>4. TaskOK(t)'
  BY <1>1, <1>2 DEF TypeOK, TaskOK, Tables
<1> QED BY <1>2, <1>3, <1>4, PagesStay, QuietOK

(* A write to a page: its contents, and the flag of its entry. *)
LEMMA WriteOK ==
    ASSUME IInv, NEW t \in Task, NEW p \in Page, Present(t, p), Write(t, p)
    PROVE  content' \in [Frame -> Content] /\ SamePages(t)
<1>1. TypeOK /\ pte[t][p] \in PTE /\ FrameOf(t, p) \in Frame
  BY RowOnce DEF IInv, Present, FrameOf
<1>2. content' \in [Frame -> Content]
  BY <1>1, Contents DEF Write, TypeOK
<1>3. PICK e : e = [pte[t][p] EXCEPT !.dirty = TRUE]
  OBVIOUS
<1>4. e \in PTE /\ e.frame = FrameOf(t, p) /\ e.w = pte[t][p].w
  BY <1>1, <1>3 DEF PTE, FrameOf
<1>5. pte' = [pte EXCEPT ![t][p] = e]
  BY <1>1, <1>3 DEF Write, TypeOK
<1>6. SamePages(t)
  BY <1>4, <1>5, FlagsChange
<1> QED BY <1>2, <1>6

LEMMA UserWriteSteps ==
    ASSUME IInv, NEW t \in Task, NEW p \in Page, UserWrite(t, p)
    PROVE  StepOK(t)
<1>1. pc[t] = "user" /\ loading[t] = NULL /\ TypeOK /\ TaskOK(t)
  BY RunsHere DEF UserWrite, IInv
<1>2. UNCHANGED <<mem_map, task, dir, executable, pc, call, args, loading, lost>>
  BY DEF UserWrite
<1>3. content' \in [Frame -> Content] /\ SamePages(t)
  BY WriteOK DEF UserWrite
<1>4. TaskOK(t)' /\ OthersGo(t)
  BY <1>1, <1>2 DEF TaskOK, Tables, OthersGo
<1> QED BY <1>1, <1>2, <1>3, <1>4, QuietOK DEF TypeOK

LEMMA PutFsSteps ==
    ASSUME IInv, NEW t \in Task, PutFs(t)
    PROVE  StepOK(t)
<1>1. pc[t] = "syscall" /\ loading[t] = NULL /\ TypeOK /\ TaskOK(t)
  BY RunsHere DEF PutFs, IInv
<1>2. call[t] \in Page
  BY <1>1 DEF TaskOK, TypeOK
<1>3. /\ pc' = [pc EXCEPT ![t] = "user"] /\ call' = [call EXCEPT ![t] = NULL]
      /\ UNCHANGED <<mem_map, task, dir, executable, args, loading, lost>>
  BY DEF PutFs
<1>4. content' \in [Frame -> Content] /\ SamePages(t)
  BY <1>2, WriteOK DEF PutFs
<1>5. /\ pc' \in [Task -> {"none", "user", "syscall", "exec", "execclose", "exiting", "zombie"}]
      /\ executable' \in [Task -> Program \cup {NULL}] /\ call' \in [Task -> Page \cup {NULL}]
      /\ OthersGo(t)
  BY <1>1, <1>3 DEF TypeOK, OthersGo
<1>6. TaskOK(t)'
  BY <1>1, <1>3 DEF TypeOK, TaskOK, Tables
<1> QED BY <1>3, <1>4, <1>5, <1>6, QuietOK

(* An entry that is made read only. *)
Barred(e) == [e EXCEPT !.w = FALSE]

LEMMA BarredEntry ==
    ASSUME NEW e \in PTE
    PROVE  Barred(e) \in PTE /\ Barred(e).frame = e.frame /\ Barred(e).w = FALSE
BY DEF Barred, PTE

LEMMA ForkFailsSteps ==
    ASSUME IInv, NEW t \in Task, NEW done, ForkFails(t, done)
    PROVE  StepOK(t)
<1>1. pc[t] = "user" /\ loading[t] = NULL /\ TypeOK /\ TaskOK(t)
  BY RunsHere DEF ForkFails, IInv
<1>2. /\ pte' = [pte EXCEPT ![t] = Protected(t, done)]
      /\ UNCHANGED <<mem_map, content, task, dir, executable, pc, call, args, loading, lost>>
  BY DEF ForkFails
<1>3. SamePages(t)
  <2>1. \A p \in Page : pte[t][p] # NULL =>
          /\ Barred(pte[t][p]) \in PTE /\ Barred(pte[t][p]).frame = pte[t][p].frame
          /\ Barred(pte[t][p]).w = FALSE
    BY RowOnce, BarredEntry
  <2>2. pte'[t] = Protected(t, done)
    BY <1>1, <1>2 DEF TypeOK
  <2>3. \A p \in Page : Protected(t, done)[p] = IF pte[t][p] # NULL /\ DirOf(p) \in done
                                              THEN Barred(pte[t][p]) ELSE pte[t][p]
    BY DEF Protected, Present, Barred
  <2>4. pte' \in [Task -> [Page -> PTE \cup {NULL}]]
    <3>1. \A p \in Page : Protected(t, done)[p] \in PTE \cup {NULL}
      BY <1>1, <2>1, <2>3 DEF TypeOK
    <3>2. Protected(t, done) \in [Page -> PTE \cup {NULL}]
      BY <3>1 DEF Protected
    <3> QED BY <1>1, <1>2, <3>2 DEF TypeOK
  <2>5. \A u \in Task \ {t} : pte'[u] = pte[u]
    BY <1>1, <1>2 DEF TypeOK
  <2>6. NULL \notin PTE
    BY SetsFinite
  <2> QED BY <2>1, <2>2, <2>3, <2>4, <2>5, <2>6 DEF SamePages
<1>4. TaskOK(t)' /\ OthersGo(t)
  BY <1>1, <1>2 DEF TaskOK, Tables, OthersGo
<1> QED BY <1>1, <1>2, <1>3, <1>4, QuietOK DEF TypeOK

(* un_wp_page copies a page that others have too. *)
LEMMA CopyOK ==
    ASSUME IInv, NEW t \in Task, NEW p \in Page, Present(t, p),
           mem_map[FrameOf(t, p)] # 1, NEW g \in Free,
           mem_map' = FreePage(Get(mem_map, g), FrameOf(t, p)),
           content' = [content EXCEPT ![g] = content[FrameOf(t, p)]],
           pte' = [pte EXCEPT ![t][p] = Entry(g)],
           UNCHANGED <<task, dir, executable, args, loading, lost>>,
           OthersGo(t), TaskOK(t)',
           pc' \in [Task -> {"none", "user", "syscall", "exec", "execclose",
                             "exiting", "zombie"}],
           call' \in [Task -> Page \cup {NULL}]
    PROVE  StepOK(t)
<1>0. TypeOK /\ Counted
  BY DEF IInv
<1>1. PICK f : f = FrameOf(t, p)
  OBVIOUS
<1>2. f \in Frame /\ mem_map[f] \in Nat /\ Maps(pte, t, p, f)
  BY <1>0, <1>1, RowOnce DEF Present, FrameOf, Maps, TypeOK
<1>3. mem_map[f] > 1
  BY <1>1, <1>2, RowOnce DEF ClearNow, Clear
<1>4. g \in Frame /\ mem_map[g] = 0 /\ g # f
  BY <1>3 DEF Free, FreeIn
<1>5. /\ mem_map' \in [Frame -> Nat]
      /\ \A x \in Frame : mem_map'[x] = IF x = g THEN 1 ELSE IF x = f THEN mem_map[x] - 1
                                        ELSE mem_map[x]
  BY <1>0, <1>1, <1>2, <1>3, <1>4 DEF FreePage, Get, TypeOK
<1>6. /\ pte' \in [Task -> [Page -> PTE \cup {NULL}]]
      /\ pte'[t][p] = Entry(g) /\ Entry(g).frame = g /\ Entry(g) # NULL
      /\ \A q \in Page \ {p} : pte'[t][q] = pte[t][q]
      /\ \A u \in Task \ {t} : pte'[u] = pte[u]
  <2>1. Entry(g) \in PTE /\ Entry(g).frame = g
    BY <1>4 DEF Entry, PTE
  <2> QED BY <1>0, <2>1, SetsFinite DEF TypeOK
<1>7. Alone(t)
  BY <1>6 DEF Alone, OthersGo
<1>8. TypeOK'
  <2>1. content' \in [Frame -> Content]
    BY <1>0, <1>1, <1>2, <1>4 DEF TypeOK
  <2>2. \A u \in Task, q \in Page : Present(u, q)' => dir'[u][DirOf(q)] # NULL
    BY <1>0, <1>6 DEF TypeOK, Present
  <2> QED BY <1>0, <1>5, <1>6, <2>1, <2>2 DEF TypeOK
<1>9. CountStep(t)
  <2> SUFFICES ASSUME NEW x \in Frame
               PROVE  mem_map'[x] + OfNow(t, x) + One(x \in lost)
                        = mem_map[x] + Of(task', dir', pte', args', loading', t, x)
                            + One(x \in lost')
    BY DEF CountStep
  <2> DEFINE a == One(task[t] = x)
             b == One(args[t] = x)
             l == One(Loads(loading, t, x))
             d == Cardinality(DirsOf(dir, t, x))
             q == Cardinality(PagesOf(pte, t, x))
             q2 == Cardinality(PagesOf(pte', t, x))
             o == One(x \in lost)
  <2>1. a \in Nat /\ b \in Nat /\ l \in Nat /\ o \in Nat /\ d \in Nat /\ q \in Nat /\ q2 \in Nat
    BY OfCounts DEF One
  <2>2. OfNow(t, x) = a + d + b + l + q
    BY DEF OfNow, Of
  <2>3. Of(task', dir', pte', args', loading', t, x) = a + d + b + l + q2
    BY DEF Of
  <2>4. q2 + One(x = f) = q + One(x = g)
    <3>1. PagesKeep(pte, pte', t, p, x)
      BY <1>6 DEF PagesKeep, Maps
    <3>2. q2 + One(Maps(pte, t, p, x)) = q + One(Maps(pte', t, p, x))
      BY <3>1, PageSet
    <3>3. One(Maps(pte, t, p, x)) = One(x = f) /\ One(Maps(pte', t, p, x)) = One(x = g)
      BY <1>2, <1>6 DEF Maps, One
    <3> QED BY <3>2, <3>3
  <2>5. mem_map'[x] + One(x = f) = mem_map[x] + One(x = g) /\ mem_map[x] \in Nat
    BY <1>0, <1>4, <1>5 DEF One, TypeOK
  <2>6. One(x = f) \in Nat /\ One(x = g) \in Nat /\ mem_map'[x] \in Nat /\ One(x \in lost') = o
    BY <1>5 DEF One
  <2> HIDE DEF a, b, l, d, q, q2, o
  <2> QED BY <2>1, <2>2, <2>3, <2>4, <2>5, <2>6
<1>10. ASSUME NEW x \in Frame, mem_map[x] = 1 PROVE mem_map'[x] = 1
  BY <1>3, <1>4, <1>5, <1>10
<1>11. Untouched(t)
  BY <1>10 DEF Untouched
<1>12. OwnRow(t)
  <2>1. \A q \in Page : pte'[t][q] # NULL /\ pte'[t][q].w => mem_map'[pte'[t][q].frame] = 1
    <3> SUFFICES ASSUME NEW q \in Page, pte'[t][q] # NULL, pte'[t][q].w
                 PROVE  mem_map'[pte'[t][q].frame] = 1
      OBVIOUS
    <3>1. CASE q = p
      BY <1>4, <1>5, <1>6, <3>1
    <3>2. CASE q # p
      BY <1>6, <1>10, <3>2, RowOnce
    <3> QED BY <3>1, <3>2
  <2>2. /\ task[t] # NULL => mem_map'[task[t]] = 1
        /\ args[t] # NULL => mem_map'[args[t]] = 1
        /\ loading[t] # NULL => mem_map'[loading[t].frame] = 1
        /\ \A d \in Dir : dir[t][d] # NULL => mem_map'[dir[t][d]] = 1
    BY <1>10, RowOnce
  <2> QED BY <2>1, <2>2 DEF OwnRow
<1> QED BY <1>7, <1>8, <1>9, <1>11, <1>12 DEF StepOK

(* un_wp_page, with what its callers do to pc and call. *)
LEMMA UnWpOK ==
    ASSUME IInv, NEW t \in Task, NEW p \in Page, Present(t, p), UnWpPage(t, p),
           OthersGo(t), TaskOK(t)',
           pc' \in [Task -> {"none", "user", "syscall", "exec", "execclose",
                             "exiting", "zombie"}],
           call' \in [Task -> Page \cup {NULL}]
    PROVE  StepOK(t)
<1>0. TypeOK /\ pte[t][p] \in PTE /\ pte[t][p] # NULL
  BY RowOnce DEF IInv, Present
<1>1. CASE mem_map[FrameOf(t, p)] = 1
  <2>1. /\ pte' = [pte EXCEPT ![t][p].w = TRUE]
        /\ UNCHANGED <<mem_map, content, task, dir, executable, args, loading, lost>>
    BY <1>1 DEF UnWpPage
  <2>2. PICK e : e = [pte[t][p] EXCEPT !.w = TRUE]
    OBVIOUS
  <2>3. e \in PTE /\ e.frame = FrameOf(t, p)
    BY <1>0, <2>2 DEF PTE, FrameOf
  <2>4. pte' = [pte EXCEPT ![t][p] = e]
    BY <1>0, <2>1, <2>2 DEF TypeOK
  <2>5. SamePages(t)
    BY <1>1, <2>3, <2>4, FlagsChange
  <2> QED BY <1>0, <2>1, <2>5, QuietOK DEF TypeOK
<1>2. CASE mem_map[FrameOf(t, p)] # 1
  <2>1. PICK g \in Free :
            /\ mem_map' = FreePage(Get(mem_map, g), FrameOf(t, p))
            /\ content' = [content EXCEPT ![g] = content[FrameOf(t, p)]]
            /\ pte' = [pte EXCEPT ![t][p] = Entry(g)]
            /\ UNCHANGED <<task, dir, executable, args, loading, lost>>
    BY <1>2 DEF UnWpPage
  <2> QED BY <1>2, <2>1, CopyOK
<1> QED BY <1>1, <1>2

LEMMA WpPageSteps ==
    ASSUME IInv, NEW t \in Task, NEW p \in Page, WpPage(t, p)
    PROVE  StepOK(t)
<1>1. /\ pc[t] = "user" /\ loading[t] = NULL /\ TypeOK /\ TaskOK(t)
      /\ Present(t, p) /\ task[t] # NULL /\ args[t] = NULL
  BY RunsHere DEF WpPage, IInv, WriteProtected
<1>2. CASE UnWpFails(t, p)
  BY <1>1, <1>2, OomOK DEF WpPage, Oom
<1>3. CASE ~UnWpFails(t, p)
  <2>1. UnWpPage(t, p) /\ UNCHANGED <<pc, call>>
    BY <1>3 DEF WpPage
  <2>2. UNCHANGED <<task, dir, executable, args, loading, lost>>
    BY <2>1 DEF UnWpPage
  <2>3. OthersGo(t) /\ TaskOK(t)'
    BY <1>1, <2>1, <2>2 DEF OthersGo, TaskOK, Tables
  <2> QED BY <1>1, <2>1, <2>3, UnWpOK DEF TypeOK
<1> QED BY <1>2, <1>3

LEMMA VerifyAreaSteps ==
    ASSUME IInv, NEW t \in Task, NEW p \in Page, VerifyArea(t, p)
    PROVE  StepOK(t)
<1>1. /\ pc[t] = "user" /\ loading[t] = NULL /\ TypeOK /\ TaskOK(t)
      /\ task[t] # NULL /\ args[t] = NULL
  BY RunsHere DEF VerifyArea, IInv
<1>2. CASE WriteProtected(t, p) /\ UnWpFails(t, p)
  BY <1>1, <1>2, OomOK DEF VerifyArea, Oom
<1>3. CASE ~(WriteProtected(t, p) /\ UnWpFails(t, p))
  <2>1. /\ pc' = [pc EXCEPT ![t] = "syscall"] /\ call' = [call EXCEPT ![t] = p]
        /\ IF WriteProtected(t, p) THEN UnWpPage(t, p)
           ELSE UNCHANGED <<mem_map, content, task, dir, pte, executable, args, loading, lost>>
    BY <1>3 DEF VerifyArea
  <2>2. UNCHANGED <<task, dir, executable, args, loading, lost>>
    BY <2>1 DEF UnWpPage
  <2>3. /\ OthersGo(t)
        /\ pc' \in [Task -> {"none", "user", "syscall", "exec", "execclose", "exiting", "zombie"}]
        /\ call' \in [Task -> Page \cup {NULL}]
        /\ pc'[t] = "syscall" /\ call'[t] = p
    BY <1>1, <2>1, <2>2 DEF OthersGo, TypeOK
  <2>4. TaskOK(t)'
    BY <1>1, <2>2, <2>3, SetsFinite DEF TaskOK, Tables
  <2>5. CASE WriteProtected(t, p)
    BY <2>1, <2>3, <2>4, <2>5, UnWpOK DEF WriteProtected
  <2>6. CASE ~WriteProtected(t, p)
    BY <1>1, <2>1, <2>3, <2>4, <2>6, PagesStay, QuietOK DEF TypeOK
  <2> QED BY <2>5, <2>6
<1> QED BY <1>2, <1>3

(* A frame is taken, to be loaded or for the arguments of execve.          *)
Taken(t, f) ==
    /\ f \in Frame /\ mem_map[f] = 0 /\ mem_map' = Get(mem_map, f)
    /\ UNCHANGED <<content, task, dir, pte, executable, call, lost>>
    /\ OthersGo(t) /\ TaskOK(t)'
    /\ \A u \in Task \ {t} : args'[u] = args[u] /\ loading'[u] = loading[u]
    /\ args'[t] = args[t] \/ args'[t] = f
    /\ loading'[t] = loading[t] \/ (loading'[t] # NULL /\ loading'[t].frame = f)
    /\ args' \in [Task -> Frame \cup {NULL}]
    /\ loading' \in [Task -> Load \cup {NULL}]
    /\ pc' \in [Task -> {"none", "user", "syscall", "exec", "execclose", "exiting", "zombie"}]
    /\ \A x \in Frame : One(args'[t] = x) + One(Loads(loading', t, x))
                           = One(args[t] = x) + One(Loads(loading, t, x)) + One(x = f)

LEMMA TakeOK ==
    ASSUME IInv, NEW t \in Task, NEW f, Taken(t, f)
    PROVE  StepOK(t)
<1>0. TypeOK /\ f \in Frame /\ mem_map[f] = 0
  BY DEF IInv, Taken
<1>1. /\ mem_map' \in [Frame -> Nat]
      /\ \A x \in Frame : mem_map'[x] = IF x = f THEN 1 ELSE mem_map[x]
  BY <1>0 DEF Get, TypeOK, Taken
<1>2. Alone(t)
  BY DEF Alone, OthersGo, Taken
<1>3. TypeOK'
  BY <1>0, <1>1 DEF TypeOK, Present, Taken
<1>4. ASSUME NEW x \in Frame, mem_map[x] = 1 PROVE mem_map'[x] = 1
  BY <1>0, <1>1, <1>4
<1>5. CountStep(t)
  <2> SUFFICES ASSUME NEW x \in Frame
               PROVE  mem_map'[x] + OfNow(t, x) + One(x \in lost)
                        = mem_map[x] + Of(task', dir', pte', args', loading', t, x)
                            + One(x \in lost')
    BY DEF CountStep
  <2> DEFINE a == One(task[t] = x)
             b == One(args[t] = x)
             l == One(Loads(loading, t, x))
             b2 == One(args'[t] = x)
             l2 == One(Loads(loading', t, x))
             e == One(x = f)
             d == Cardinality(DirsOf(dir, t, x))
             q == Cardinality(PagesOf(pte, t, x))
             o == One(x \in lost)
  <2>1. /\ a \in Nat /\ b \in Nat /\ l \in Nat /\ o \in Nat /\ d \in Nat /\ q \in Nat
        /\ b2 \in Nat /\ l2 \in Nat /\ e \in Nat
    BY OfCounts DEF One
  <2>2. OfNow(t, x) = a + d + b + l + q
    BY DEF OfNow, Of
  <2>3. Of(task', dir', pte', args', loading', t, x) = a + d + b2 + l2 + q
    BY DEF Of, Taken
  <2>4. b2 + l2 = b + l + e
    BY DEF Taken
  <2>5. mem_map'[x] = mem_map[x] + e /\ mem_map[x] \in Nat
    BY <1>0, <1>1 DEF One, TypeOK
  <2>6. One(x \in lost') = o /\ One(x \in lost) = o
    BY DEF One, Taken
  <2> HIDE DEF a, b, l, d, q, b2, l2, e, o
  <2> QED BY <2>1, <2>2, <2>3, <2>4, <2>5, <2>6
<1>6. Untouched(t)
  BY <1>4 DEF Untouched
<1>7. OwnRow(t)
  <2>1. /\ task[t] # NULL => mem_map'[task[t]] = 1
        /\ \A d \in Dir : dir[t][d] # NULL => mem_map'[dir[t][d]] = 1
    BY <1>4, RowOnce DEF Taken
  <2>2. args'[t] # NULL => mem_map'[args'[t]] = 1
    BY <1>0, <1>1, <1>4, RowOnce DEF Taken
  <2>3. loading'[t] # NULL => mem_map'[loading'[t].frame] = 1
    BY <1>0, <1>1, <1>4, RowOnce DEF Taken
  <2>4. \A p \in Page : pte[t][p] # NULL /\ pte[t][p].w => mem_map'[pte[t][p].frame] = 1
    BY <1>4, RowOnce DEF Taken
  <2> QED BY <2>1, <2>2, <2>3, <2>4 DEF OwnRow, Taken
<1> QED BY <1>2, <1>3, <1>5, <1>6, <1>7 DEF StepOK, Taken

LEMMA StartLoadSteps ==
    ASSUME IInv, NEW t \in Task, NEW p \in Page, StartLoad(t, p)
    PROVE  StepOK(t)
<1>1. /\ pc[t] \in {"user", "exec", "syscall"} /\ loading[t] = NULL /\ ~Present(t, p)
      /\ executable[t] # NULL /\ TypeOK /\ TaskOK(t)
  BY RunsHere DEF StartLoad, IInv, OnDemand
<1>2. PICK f \in Free :
         /\ mem_map' = Get(mem_map, f)
         /\ loading' = [loading EXCEPT ![t] = [page |-> p, frame |-> f]]
  BY DEF StartLoad
<1>3. UNCHANGED <<content, task, dir, pte, executable, pc, call, args, lost>>
  BY DEF StartLoad
<1>4. f \in Frame
  BY DEF Free, FreeIn
<1>5. PICK r : r = [page |-> p, frame |-> f]
  OBVIOUS
<1>6. r \in Load /\ r.page = p /\ r.frame = f
  BY <1>4, <1>5 DEF Load
<1>7. /\ loading' \in [Task -> Load \cup {NULL}]
      /\ loading'[t] = r /\ \A u \in Task \ {t} : loading'[u] = loading[u]
  BY <1>1, <1>2, <1>5, <1>6 DEF TypeOK
<1>8. r # NULL
  BY <1>6, SetsFinite
<1>9. ASSUME NEW x \in Frame
      PROVE  One(args'[t] = x) + One(Loads(loading', t, x))
               = One(args[t] = x) + One(Loads(loading, t, x)) + One(x = f)
  <2>1. One(Loads(loading', t, x)) = One(x = f) /\ One(Loads(loading, t, x)) = 0
    BY <1>1, <1>6, <1>7, <1>8 DEF Loads, One
  <2>2. One(args'[t] = x) = One(args[t] = x) /\ One(args[t] = x) \in Nat /\ One(x = f) \in Nat
    BY <1>3 DEF One
  <2> QED BY <2>1, <2>2
<1>10. TaskOK(t)' /\ OthersGo(t)
  BY <1>1, <1>3, <1>6, <1>7 DEF TaskOK, Tables, Present, OthersGo
<1>11. Taken(t, f)
  BY <1>1, <1>2, <1>3, <1>4, <1>6, <1>7, <1>8, <1>9, <1>10 DEF Taken, TypeOK, Free, FreeIn
<1> QED BY <1>11, TakeOK

LEMMA ExecStartSteps ==
    ASSUME IInv, NEW t \in Task, ExecStart(t)
    PROVE  StepOK(t)
<1>1. pc[t] = "user" /\ loading[t] = NULL /\ args[t] = NULL /\ TypeOK /\ TaskOK(t)
  BY RunsHere DEF ExecStart, IInv
<1>2. PICK f \in Free : mem_map' = Get(mem_map, f) /\ args' = [args EXCEPT ![t] = f]
  BY DEF ExecStart
<1>3. /\ pc' = [pc EXCEPT ![t] = "exec"]
      /\ UNCHANGED <<content, task, dir, pte, executable, call, loading, lost>>
  BY DEF ExecStart
<1>4. f \in Frame /\ f # NULL
  BY SetsFinite DEF Free, FreeIn
<1>5. /\ args' \in [Task -> Frame \cup {NULL}] /\ args'[t] = f
      /\ \A u \in Task \ {t} : args'[u] = args[u]
      /\ pc' \in [Task -> {"none", "user", "syscall", "exec", "execclose", "exiting", "zombie"}]
      /\ pc'[t] = "exec" /\ OthersGo(t)
  BY <1>1, <1>2, <1>3, <1>4 DEF TypeOK, OthersGo
<1>6. ASSUME NEW x \in Frame
      PROVE  One(args'[t] = x) + One(Loads(loading', t, x))
               = One(args[t] = x) + One(Loads(loading, t, x)) + One(x = f)
  <2>1. One(args'[t] = x) = One(x = f) /\ One(args[t] = x) = 0
    BY <1>1, <1>5, SetsFinite DEF One
  <2>2. /\ One(Loads(loading', t, x)) = One(Loads(loading, t, x))
        /\ One(Loads(loading, t, x)) \in Nat /\ One(x = f) \in Nat
    BY <1>3 DEF One, Loads
  <2> QED BY <2>1, <2>2
<1>7. TaskOK(t)'
  BY <1>1, <1>3, <1>4, <1>5 DEF TaskOK, Tables
<1>8. Taken(t, f)
  BY <1>1, <1>2, <1>3, <1>4, <1>5, <1>6, <1>7 DEF Taken, TypeOK, Free, FreeIn
<1> QED BY <1>8, TakeOK

(* A frame with one reference is given back: the arguments or the stack.   *)
Given(t, f) ==
    /\ f \in Frame /\ mem_map[f] = 1 /\ ~ClearNow(t, f) /\ f \in {args[t], task[t]}
    /\ mem_map' = FreePage(mem_map, f) /\ loading[t] = NULL
    /\ UNCHANGED <<content, dir, pte, executable, call, loading, lost>>
    /\ OthersGo(t) /\ TaskOK(t)'
    /\ \A u \in Task \ {t} : args'[u] = args[u] /\ task'[u] = task[u]
    /\ args'[t] \in {args[t], NULL} /\ args'[t] # f
    /\ task'[t] \in {task[t], NULL} /\ task'[t] # f
    /\ args' \in [Task -> Frame \cup {NULL}]
    /\ task' \in [Task -> Frame \cup {NULL}]
    /\ pc' \in [Task -> {"none", "user", "syscall", "exec", "execclose", "exiting", "zombie"}]
    /\ \A x \in Frame : One(args'[t] = x) + One(task'[t] = x) + One(x = f)
                           = One(args[t] = x) + One(task[t] = x)

LEMMA GiveOK ==
    ASSUME IInv, NEW t \in Task, NEW f \in Frame, Given(t, f)
    PROVE  StepOK(t)
<1>0. TypeOK /\ OfOne(task, dir, pte, args, loading, t, f)
  BY RowOnce DEF IInv, Given
<1>1. /\ mem_map' \in [Frame -> Nat]
      /\ \A x \in Frame : mem_map'[x] = IF x = f THEN 0 ELSE mem_map[x]
  BY <1>0 DEF FreePage, TypeOK, Given
<1>2. Alone(t)
  BY DEF Alone, OthersGo, Given
<1>3. TypeOK'
  BY <1>0, <1>1 DEF TypeOK, Present, Given
<1>4. ASSUME NEW x \in Frame, mem_map[x] = 1, x # f PROVE mem_map'[x] = 1
  BY <1>1, <1>4
<1>5. CountStep(t)
  <2> SUFFICES ASSUME NEW x \in Frame
               PROVE  mem_map'[x] + OfNow(t, x) + One(x \in lost)
                        = mem_map[x] + Of(task', dir', pte', args', loading', t, x)
                            + One(x \in lost')
    BY DEF CountStep
  <2> DEFINE a == One(task[t] = x)
             b == One(args[t] = x)
             l == One(Loads(loading, t, x))
             a2 == One(task'[t] = x)
             b2 == One(args'[t] = x)
             e == One(x = f)
             d == Cardinality(DirsOf(dir, t, x))
             q == Cardinality(PagesOf(pte, t, x))
             o == One(x \in lost)
  <2>1. /\ a \in Nat /\ b \in Nat /\ l \in Nat /\ o \in Nat /\ d \in Nat /\ q \in Nat
        /\ a2 \in Nat /\ b2 \in Nat /\ e \in Nat
    BY OfCounts DEF One
  <2>2. OfNow(t, x) = a + d + b + l + q
    BY DEF OfNow, Of
  <2>3. Of(task', dir', pte', args', loading', t, x) = a2 + d + b2 + l + q
    BY DEF Of, Given
  <2>4. b2 + a2 + e = b + a
    BY DEF Given
  <2>5. mem_map'[x] + e = mem_map[x] /\ mem_map[x] \in Nat /\ mem_map'[x] \in Nat
    BY <1>0, <1>1 DEF One, TypeOK, Given
  <2>6. One(x \in lost') = o /\ One(x \in lost) = o
    BY DEF One, Given
  <2> HIDE DEF a, b, l, d, q, a2, b2, e, o
  <2> QED BY <2>1, <2>2, <2>3, <2>4, <2>5, <2>6
<1>6. Untouched(t)
  <2> SUFFICES ASSUME NEW x \in Frame, mem_map[x] = 1, ClearNow(t, x)
               PROVE  mem_map'[x] = 1
    BY DEF Untouched
  <2> QED BY <1>4 DEF Given
<1>7. OwnRow(t)
  <2>1. task'[t] # NULL => mem_map'[task'[t]] = 1
    BY <1>4, RowOnce DEF Given
  <2>2. args'[t] # NULL => mem_map'[args'[t]] = 1
    BY <1>4, RowOnce DEF Given
  <2>3. (\A d \in Dir : dir[t][d] # f) /\ (\A p \in Page : ~Maps(pte, t, p, f))
    BY <1>0 DEF OfOne, Given
  <2>4. \A d \in Dir : dir[t][d] # NULL => mem_map'[dir[t][d]] = 1
    BY <1>4, <2>3, RowOnce
  <2>5. \A p \in Page : pte[t][p] # NULL /\ pte[t][p].w => mem_map'[pte[t][p].frame] = 1
    BY <1>4, <2>3, RowOnce DEF Maps
  <2> QED BY <2>1, <2>2, <2>4, <2>5 DEF OwnRow, Given
<1> QED BY <1>2, <1>3, <1>5, <1>6, <1>7 DEF StepOK, Given

LEMMA ExecErrorSteps ==
    ASSUME IInv, NEW t \in Task, ExecError(t)
    PROVE  StepOK(t)
<1>1. pc[t] = "exec" /\ loading[t] = NULL /\ TypeOK /\ TaskOK(t)
  BY RunsHere DEF ExecError, IInv
<1>2. PICK f : f = args[t]
  OBVIOUS
<1>3. f # NULL /\ f \in Frame /\ mem_map[f] = 1 /\ ~ClearNow(t, f)
  BY <1>1, <1>2, RowOnce DEF TaskOK, ClearNow, Clear
<1>4. task[t] # f
  BY <1>2, <1>3, RowOnce DEF OfOne
<1>5. /\ mem_map' = FreePage(mem_map, f) /\ args' = [args EXCEPT ![t] = NULL]
      /\ pc' = [pc EXCEPT ![t] = "user"]
      /\ UNCHANGED <<content, task, dir, pte, executable, call, loading, lost>>
  BY <1>2 DEF ExecError
<1>6. /\ args' \in [Task -> Frame \cup {NULL}] /\ args'[t] = NULL
      /\ \A u \in Task \ {t} : args'[u] = args[u]
      /\ pc' \in [Task -> {"none", "user", "syscall", "exec", "execclose", "exiting", "zombie"}]
      /\ pc'[t] = "user" /\ OthersGo(t)
  BY <1>1, <1>5 DEF TypeOK, OthersGo
<1>7. ASSUME NEW x \in Frame
      PROVE  One(args'[t] = x) + One(task'[t] = x) + One(x = f)
               = One(args[t] = x) + One(task[t] = x)
  <2>1. One(args'[t] = x) = 0 /\ One(args[t] = x) = One(x = f)
    BY <1>2, <1>6, SetsFinite DEF One
  <2>2. One(task'[t] = x) = One(task[t] = x) /\ One(task[t] = x) \in Nat /\ One(x = f) \in Nat
    BY <1>5 DEF One
  <2> QED BY <2>1, <2>2
<1>8. TaskOK(t)'
  BY <1>1, <1>5, <1>6 DEF TaskOK, Tables
<1>9. Given(t, f)
  BY <1>1, <1>2, <1>3, <1>4, <1>5, <1>6, <1>7, <1>8 DEF Given, TypeOK
<1> QED BY <1>3, <1>9, GiveOK

LEMMA ReleaseSteps ==
    ASSUME IInv, NEW t \in Task, Release(t)
    PROVE  StepOK(t)
<1>1. pc[t] = "zombie" /\ loading[t] = NULL /\ TypeOK /\ TaskOK(t)
  BY RunsHere DEF Release, IInv
<1>2. PICK f : f = task[t]
  OBVIOUS
<1>3. f # NULL /\ f \in Frame /\ mem_map[f] = 1 /\ ~ClearNow(t, f) /\ args[t] = NULL
  BY <1>1, <1>2, RowOnce DEF TaskOK, ClearNow, Clear
<1>4. /\ mem_map' = FreePage(mem_map, f) /\ task' = [task EXCEPT ![t] = NULL]
      /\ pc' = [pc EXCEPT ![t] = "none"]
      /\ UNCHANGED <<content, dir, pte, executable, call, args, loading, lost>>
  BY <1>2 DEF Release
<1>5. /\ task' \in [Task -> Frame \cup {NULL}] /\ task'[t] = NULL
      /\ \A u \in Task \ {t} : task'[u] = task[u]
      /\ pc' \in [Task -> {"none", "user", "syscall", "exec", "execclose", "exiting", "zombie"}]
      /\ pc'[t] = "none" /\ OthersGo(t)
  BY <1>1, <1>4 DEF TypeOK, OthersGo
<1>6. ASSUME NEW x \in Frame
      PROVE  One(args'[t] = x) + One(task'[t] = x) + One(x = f)
               = One(args[t] = x) + One(task[t] = x)
  <2>1. One(task'[t] = x) = 0 /\ One(task[t] = x) = One(x = f)
    BY <1>2, <1>5, SetsFinite DEF One
  <2>2. One(args'[t] = x) = One(args[t] = x) /\ One(args[t] = x) \in Nat /\ One(x = f) \in Nat
    BY <1>4 DEF One
  <2> QED BY <2>1, <2>2
<1>7. TaskOK(t)'
  BY <1>1, <1>3, <1>4, <1>5 DEF TaskOK, Tables
<1>8. Given(t, f)
  BY <1>1, <1>2, <1>3, <1>4, <1>5, <1>6, <1>7 DEF Given, TypeOK
<1> QED BY <1>3, <1>8, GiveOK

-----------------------------------------------------------------------------
(* The ends of sets of numbers. *)
LEMMA LeastOf ==
    ASSUME NEW S \in SUBSET Nat, S # {}
    PROVE  \E x \in S : \A y \in S : x <= y
<1> DEFINE Less == OpToRel(<, Nat)
<1>1. IsWellFoundedOn(Less, Nat)
  BY NatLessThanWellFounded, Zenon
<1>2. \A i, j \in Nat : j < i => <<j, i>> \in Less
  BY Zenon DEF OpToRel
<1> HIDE DEF Less
<1>3. PICK i \in S : \A j \in S : ~(<<j, i>> \in Less)
  BY <1>1, WFMin, Zenon
<1>4. ASSUME NEW j \in S PROVE i <= j
  <2>1. ~(j < i)
    BY <1>2, <1>3, Zenon
  <2> QED BY <2>1
<1> QED BY <1>4

Above(S, x) == {y \in S : x < y}

LEMMA MostOf ==
    ASSUME NEW S \in SUBSET Nat, S # {}, IsFiniteSet(S)
    PROVE  \E x \in S : \A y \in S : y <= x
<1>1. \A x \in S : IsFiniteSet(Above(S, x)) /\ Cardinality(Above(S, x)) \in Nat
  <2>1. \A x \in S : Above(S, x) \in SUBSET S
    BY DEF Above
  <2> QED BY <2>1, FS_Subset, FS_CardinalityType
<1>2. PICK T : T = {Cardinality(Above(S, x)) : x \in S}
  OBVIOUS
<1>3. T \in SUBSET Nat /\ T # {}
  BY <1>1, <1>2
<1>4. PICK n \in T : \A m \in T : n <= m
  BY <1>3, LeastOf
<1>5. PICK x \in S : n = Cardinality(Above(S, x))
  BY <1>2
<1>6. ASSUME NEW y \in S, x < y PROVE FALSE
  <2>1. y \in Above(S, x)
    BY <1>6 DEF Above
  <2>2. Above(S, y) \in SUBSET (Above(S, x) \ {y})
    <3>1. \A z \in S : y < z => x < z /\ z # y
      BY <1>6
    <3> QED BY <3>1 DEF Above
  <2>3. /\ IsFiniteSet(Above(S, x) \ {y})
        /\ Cardinality(Above(S, x) \ {y}) = Cardinality(Above(S, x)) - 1
    BY <1>1, <2>1, FS_RemoveElement
  <2>4. Cardinality(Above(S, y)) <= Cardinality(Above(S, x) \ {y})
    BY <2>2, <2>3, FS_Subset
  <2>5. n <= Cardinality(Above(S, y))
    BY <1>2, <1>4
  <2> QED BY <1>1, <1>5, <2>3, <2>4, <2>5
<1>7. \A y \in S : y <= x
  BY <1>6
<1> QED BY <1>7

LEMMA ArgPageIn == ArgPage \in Page /\ DirOf(ArgPage) \in Dir
<1>1. /\ Page \ FilePage \in SUBSET Nat /\ Page \ FilePage # {}
      /\ IsFiniteSet(Page \ FilePage)
  BY MemoryAssumption, FS_Difference
<1>2. \E p \in Page \ FilePage : \A q \in Page \ FilePage : q <= p
  BY <1>1, MostOf
<1>3. ArgPage \in Page
  BY <1>2, Zenon DEF ArgPage
<1> QED BY <1>3, SetsFinite

(* execve replaces what t has: what it had is freed, the arguments are its *)
(* only page.                                                              *)
LEMMA ExecDoneSteps ==
    ASSUME IInv, NEW t \in Task, ExecDone(t)
    PROVE  StepOK(t)
<1>1. pc[t] = "execclose" /\ loading[t] = NULL /\ TypeOK /\ Counted /\ TaskOK(t)
  BY RunsHere DEF ExecDone, IInv
<1>2. PICK map : map = FreePageTables(mem_map, t)
  OBVIOUS
<1>3. task[t] # NULL /\ args[t] # NULL /\ call[t] = NULL
  BY <1>1 DEF TaskOK
<1>4. PICK f, a : f = args[t] /\ a = ArgPage
  OBVIOUS
<1>5. /\ f \in Frame /\ mem_map[f] = 1 /\ ~ClearNow(t, f) /\ a \in Page /\ DirOf(a) \in Dir
      /\ NULL \notin Frame
  BY <1>3, <1>4, RowOnce, ArgPageIn, SetsFinite DEF ClearNow, Clear
<1>6. CASE FreeIn(map) = {}
  BY <1>1, <1>2, <1>3, <1>6, OomOK DEF ExecDone, Oom
<1>7. CASE FreeIn(map) # {}
  <2>1. PICK g \in Frame :
            /\ map[g] = 0
            /\ mem_map' = Get(map, g)
            /\ dir' = [dir EXCEPT ![t] = [NoTables EXCEPT ![DirOf(a)] = g]]
            /\ pte' = [pte EXCEPT ![t] = [NoPages EXCEPT ![a] = [Entry(f) EXCEPT !.dirty = TRUE]]]
            /\ content' = [x \in Frame |-> IF x = f THEN Written(t, Zero)
                                           ELSE IF map[x] = 0 THEN Zero ELSE content[x]]
            /\ args' = [args EXCEPT ![t] = NULL]
            /\ pc' = [pc EXCEPT ![t] = "user"]
            /\ UNCHANGED <<task, executable, call, loading, lost>>
    BY <1>2, <1>4, <1>7 DEF ExecDone, FreeIn
  <2>2. PICK e : e = [Entry(f) EXCEPT !.dirty = TRUE]
    OBVIOUS
  <2>3. e \in PTE /\ e.frame = f /\ e.w /\ e # NULL
    BY <1>5, <2>2, SetsFinite DEF Entry, PTE
  <2>4. /\ dir' \in [Task -> [Dir -> Frame \cup {NULL}]]
        /\ dir'[t] = [NoTables EXCEPT ![DirOf(a)] = g]
        /\ dir'[t][DirOf(a)] = g
        /\ \A d \in Dir \ {DirOf(a)} : dir'[t][d] = NULL
        /\ \A u \in Task \ {t} : dir'[u] = dir[u]
    BY <1>1, <1>5, <2>1 DEF TypeOK, NoTables
  <2>5. /\ pte' \in [Task -> [Page -> PTE \cup {NULL}]]
        /\ pte'[t][a] = e /\ \A p \in Page \ {a} : pte'[t][p] = NULL
        /\ \A u \in Task \ {t} : pte'[u] = pte[u]
    BY <1>1, <1>5, <2>1, <2>2, <2>3 DEF TypeOK, NoPages
  <2>6. ASSUME NEW x \in Frame
        PROVE  /\ map[x] \in Nat
               /\ map[x] + Cardinality(PagesOf(pte, t, x)) + Cardinality(DirsOf(dir, t, x))
                     = mem_map[x]
    <3>1. map[x] = mem_map[x] - (Cardinality(PagesOf(pte, t, x)) + Cardinality(DirsOf(dir, t, x)))
      BY <1>2, ReferencesAre DEF FreePageTables
    <3>2. Parts(t, x) /\ mem_map[x] \in Nat
      BY <1>1, PartsOf DEF TypeOK
    <3>3. /\ One(task[t] = x) \in Nat /\ One(args[t] = x) \in Nat
          /\ One(Loads(loading, t, x)) \in Nat
      BY DEF One
    <3> QED BY <3>1, <3>2, <3>3 DEF Parts
  <2>7. /\ mem_map' \in [Frame -> Nat]
        /\ \A x \in Frame : mem_map'[x] = IF x = g THEN 1 ELSE map[x]
    <3>1. map \in [Frame -> Nat]
      BY <1>2, <2>6 DEF FreePageTables
    <3> QED BY <2>1, <3>1 DEF Get
  <2>8. ASSUME NEW x \in Frame, mem_map[x] = 1,
               ClearNow(t, x) \/ x = f \/ x = task[t]
        PROVE  map[x] = 1 /\ x # g
    <3>1. OfOne(task, dir, pte, args, loading, t, x) \/ ClearNow(t, x)
      BY <2>8, RowOnce
    <3>2. (\A d \in Dir : dir[t][d] # x) /\ (\A p \in Page : ~Maps(pte, t, p, x))
      BY <1>4, <2>8, <3>1 DEF OfOne, ClearNow, Clear
    <3>3. Cardinality(DirsOf(dir, t, x)) = 0 /\ Cardinality(PagesOf(pte, t, x)) = 0
      BY <1>1, <3>2, PartsOf DEF Parts
    <3> QED BY <2>1, <2>6, <2>8, <3>3
  <2>9. map[f] = 1 /\ f # g
    BY <1>5, <2>8
  <2>10. task[t] \in Frame /\ mem_map[task[t]] = 1 /\ map[task[t]] = 1 /\ task[t] # g
    BY <1>3, <2>8, RowOnce
  <2>11. /\ args' \in [Task -> Frame \cup {NULL}] /\ args'[t] = NULL
         /\ \A u \in Task \ {t} : args'[u] = args[u]
         /\ pc' \in [Task -> {"none", "user", "syscall", "exec", "execclose", "exiting", "zombie"}]
         /\ pc'[t] = "user" /\ \A u \in Task \ {t} : pc'[u] = pc[u]
    BY <1>1, <2>1 DEF TypeOK
  <2>12. Alone(t)
    BY <2>1, <2>4, <2>5, <2>11 DEF Alone
  <2>13. TypeOK'
    <3>1. content' \in [Frame -> Content]
      BY <1>1, <2>1, Contents DEF TypeOK
    <3>2. \A u \in Task, p \in Page : Present(u, p)' => dir'[u][DirOf(p)] # NULL
      BY <1>1, <1>5, <2>4, <2>5 DEF TypeOK, Present
    <3> QED BY <1>1, <2>1, <2>4, <2>5, <2>7, <2>11, <3>1, <3>2 DEF TypeOK
  <2>14. CountStep(t)
    <3> SUFFICES ASSUME NEW x \in Frame
                 PROVE  mem_map'[x] + OfNow(t, x) + One(x \in lost)
                          = mem_map[x] + Of(task', dir', pte', args', loading', t, x)
                              + One(x \in lost')
      BY DEF CountStep
    <3> DEFINE k == One(task[t] = x)
               b == One(args[t] = x)
               b2 == One(x = f)
               h == One(x = g)
               d == Cardinality(DirsOf(dir, t, x))
               q == Cardinality(PagesOf(pte, t, x))
               o == One(x \in lost)
    <3>1. /\ k \in Nat /\ b \in Nat /\ o \in Nat /\ d \in Nat /\ q \in Nat /\ h \in Nat
          /\ b2 = b /\ One(x \in lost') = o /\ One(x \in lost) = o
      BY <1>4, <2>1, OfCounts DEF One
    <3>2. OfNow(t, x) = k + d + b + 0 + q
      <4>1. One(Loads(loading, t, x)) = 0
        BY <1>1 DEF One, Loads
      <4> QED BY <4>1 DEF OfNow, Of
    <3>3. Cardinality(DirsOf(dir', t, x)) = h
      <4>1. DirsOf(dir', t, x) = IF x = g THEN {DirOf(a)} ELSE {}
        BY <1>5, <2>4 DEF DirsOf
      <4> QED BY <4>1, FS_EmptySet, FS_Singleton DEF One
    <3>4. Cardinality(PagesOf(pte', t, x)) = b2
      <4>1. PagesOf(pte', t, x) = IF x = f THEN {a} ELSE {}
        BY <1>5, <2>3, <2>5 DEF PagesOf, Maps
      <4> QED BY <4>1, FS_EmptySet, FS_Singleton DEF One
    <3>5. Of(task', dir', pte', args', loading', t, x) = k + h + 0 + 0 + b2
      <4>1. One(Loads(loading', t, x)) = 0 /\ One(args'[t] = x) = 0
        BY <1>1, <1>5, <2>1, <2>11 DEF One, Loads
      <4>2. One(task'[t] = x) = k
        BY <2>1
      <4> QED BY <3>3, <3>4, <4>1, <4>2 DEF Of
    <3>6. mem_map'[x] + d + q = mem_map[x] + h /\ mem_map[x] \in Nat /\ mem_map'[x] \in Nat
      <4>1. map[x] \in Nat /\ map[x] + q + d = mem_map[x]
        BY <2>6
      <4>2. x = g => map[x] = 0 /\ mem_map'[x] = 1 /\ h = 1
        BY <2>1, <2>7 DEF One
      <4>3. x # g => mem_map'[x] = map[x] /\ h = 0
        BY <2>7 DEF One
      <4> HIDE DEF d, q, h
      <4> QED BY <3>1, <4>1, <4>2, <4>3
    <3> HIDE DEF k, b, b2, h, d, q, o
    <3>7. Of(task', dir', pte', args', loading', t, x) = k + h + b
      BY <3>1, <3>5
    <3>8. OfNow(t, x) = k + d + b + q
      BY <3>1, <3>2
    <3>9. mem_map'[x] + (k + d + b + q) + o = mem_map[x] + (k + h + b) + o
      BY <3>1, <3>6
    <3> QED BY <3>1, <3>7, <3>8, <3>9
  <2>15. Untouched(t)
    <3> SUFFICES ASSUME NEW x \in Frame, mem_map[x] = 1, ClearNow(t, x)
                 PROVE  mem_map'[x] = 1
      BY DEF Untouched
    <3> QED BY <2>7, <2>8
  <2>16. OwnRow(t)
    <3>1. mem_map'[task'[t]] = 1 /\ mem_map'[g] = 1 /\ mem_map'[f] = 1
      BY <1>5, <2>1, <2>7, <2>9, <2>10
    <3>2. \A d \in Dir : dir'[t][d] # NULL => mem_map'[dir'[t][d]] = 1
      BY <2>4, <3>1
    <3>3. \A p \in Page : pte'[t][p] # NULL => mem_map'[pte'[t][p].frame] = 1
      BY <2>3, <2>5, <3>1
    <3> QED BY <1>1, <2>1, <2>11, <3>1, <3>2, <3>3 DEF OwnRow
  <2>17. TaskOK(t)'
    BY <1>1, <1>3, <2>1, <2>11 DEF TaskOK, Tables
  <2> QED BY <2>12, <2>13, <2>14, <2>15, <2>16, <2>17 DEF StepOK
<1> QED BY <1>6, <1>7

-----------------------------------------------------------------------------
(* What is a page of u is nothing else of anybody, and no page that another*)
(* can write to.                                                           *)
Owned(v, x) ==
    task[v] = x \/ args[v] = x \/ Loads(loading, v, x) \/ \E d \in Dir : dir[v][d] = x

LEMMA PageNotOwned ==
    ASSUME IInv, NEW u \in Task, NEW p \in Page, NEW x, Maps(pte, u, p, x), NEW v \in Task
    PROVE  /\ x \in Frame /\ mem_map[x] # 0 /\ ~Owned(v, x) /\ x \notin lost
           /\ \A q \in Page : Maps(pte, v, q, x) /\ (pte[v][q].w \/ mem_map[x] = 1)
                 => v = u /\ q = p
<1>1. TypeOK /\ Counted /\ x \in Frame /\ mem_map[x] \in Nat /\ ~ClearNow(u, x)
  BY RowOnce DEF IInv, Maps, ClearNow, Clear, TypeOK
<1>2. mem_map[x] # 0
  BY <1>1, Sole
<1>3. ASSUME mem_map[x] = 1
      PROVE  /\ ~Owned(v, x) /\ x \notin lost
             /\ \A q \in Page : Maps(pte, v, q, x) => v = u /\ q = p
  <2>1. /\ x \notin lost /\ OfOne(task, dir, pte, args, loading, u, x)
        /\ \A w \in Task \ {u} : ClearNow(w, x)
    BY <1>1, <1>3, Sole
  <2>2. CASE v = u
    BY <2>1, <2>2 DEF OfOne, Owned
  <2>3. CASE v # u
    BY <2>1, <2>3 DEF ClearNow, Clear, Owned
  <2> QED BY <2>1, <2>2, <2>3
<1>4. ASSUME mem_map[x] # 1
      PROVE  /\ ~Owned(v, x) /\ x \notin lost
             /\ \A q \in Page : ~(Maps(pte, v, q, x) /\ pte[v][q].w)
  <2>1. x \notin lost
    BY <1>4 DEF IInv, OwnedOnce
  <2>2. ~Owned(v, x)
    BY <1>1, <1>4, RowOnce, SetsFinite DEF Owned, Loads
  <2>3. \A q \in Page : ~(Maps(pte, v, q, x) /\ pte[v][q].w)
    BY <1>4, RowOnce DEF Maps
  <2> QED BY <2>1, <2>2, <2>3
<1> QED BY <1>1, <1>2, <1>3, <1>4

(* What another has stays counted once, in a step that changes no counter  *)
(* of a frame that another has and that is not a page of u.                *)
SharedOnly(t, u) ==
    /\ \A x \in Frame : mem_map[x] = 1 /\ (\A p \in Page : ~Maps(pte, u, p, x))
          => mem_map'[x] = 1
    /\ \A p \in Page : pte[u][p] # NULL /\ pte'[u][p].w => mem_map'[pte[u][p].frame] = 1
    /\ \A v \in Task \ {t} : \A p \in Page : pte'[v][p].w => pte[v][p].w \/ pte[v][p] = NULL

LEMMA SharedOnce ==
    ASSUME IInv, NEW t \in Task, NEW u \in Task, SharedOnly(t, u)
    PROVE  /\ OthersOnce(t)
           /\ \A v \in Task, x \in Frame : Owned(v, x) => mem_map'[x] = 1
           /\ \A v \in Task, p \in Page : v # u /\ pte[v][p] # NULL /\ pte[v][p].w
                 => mem_map'[pte[v][p].frame] = 1
<1>1. ASSUME NEW v \in Task, NEW x \in Frame, Owned(v, x) PROVE mem_map'[x] = 1
  <2>1. mem_map[x] = 1
    BY <1>1, RowOnce, SetsFinite DEF Owned, Loads
  <2>2. \A p \in Page : ~Maps(pte, u, p, x)
    BY <1>1, PageNotOwned
  <2> QED BY <2>1, <2>2 DEF SharedOnly
<1>2. ASSUME NEW v \in Task, NEW p \in Page, v # u, pte[v][p] # NULL, pte[v][p].w
      PROVE  mem_map'[pte[v][p].frame] = 1
  <2>1. PICK x \in Frame : x = pte[v][p].frame /\ mem_map[x] = 1 /\ Maps(pte, v, p, x)
    BY <1>2, RowOnce DEF Maps
  <2>2. \A q \in Page : ~Maps(pte, u, q, x)
    BY <1>2, <2>1, PageNotOwned
  <2> QED BY <2>1, <2>2 DEF SharedOnly
<1>3. ASSUME NEW f \in lost PROVE mem_map'[f] = 1
  <2>1. f \in Frame /\ mem_map[f] = 1
    BY DEF IInv, TypeOK, OwnedOnce
  <2>2. \A p \in Page : ~Maps(pte, u, p, f)
    BY PageNotOwned
  <2> QED BY <2>1, <2>2 DEF SharedOnly
<1>4. ASSUME NEW v \in Task \ {t}
      PROVE  /\ task[v] # NULL => mem_map'[task[v]] = 1
             /\ args[v] # NULL => mem_map'[args[v]] = 1
             /\ loading[v] # NULL => mem_map'[loading[v].frame] = 1
             /\ \A d \in Dir : dir[v][d] # NULL => mem_map'[dir[v][d]] = 1
  BY <1>1, RowOnce DEF Owned, Loads
<1>5. ASSUME NEW v \in Task \ {t}, NEW p \in Page, pte[v][p] # NULL, pte'[v][p].w
      PROVE  mem_map'[pte[v][p].frame] = 1
  <2>1. CASE v = u
    BY <1>5, <2>1 DEF SharedOnly
  <2>2. CASE v # u
    BY <1>2, <1>5, <2>2 DEF SharedOnly
  <2> QED BY <2>1, <2>2
<1>6. OthersOnce(t)
  BY <1>3, <1>4, <1>5 DEF OthersOnce
<1> QED BY <1>1, <1>2, <1>6

LEMMA TryToShareSteps ==
    ASSUME IInv, NEW t \in Task, NEW p \in Page, NEW u \in Task, TryToShare(t, p, u)
    PROVE  IInv'
<1>1. /\ pc[t] \in {"user", "exec", "syscall"} /\ loading[t] = NULL /\ ~Present(t, p)
      /\ task[t] # NULL /\ TypeOK /\ Counted /\ TaskOK(t)
  BY RunsHere DEF TryToShare, IInv
<1>2. u # t /\ pte[u][p] # NULL
  BY DEF TryToShare, LastSharer, Sharers, Clean, Present
<1>3. CASE ~CanPut(t, p, mem_map)
  BY <1>1, <1>3, OomOK, AloneStep DEF TryToShare, Oom
<1>4. CASE CanPut(t, p, mem_map)
  <2>1. PICK f, entry, map : /\ f = pte[u][p].frame
                             /\ entry = Barred(pte[u][p])
                             /\ map = [mem_map EXCEPT ![f] = @ + 1]
    OBVIOUS
  <2>2. /\ TakeTable(t, p, map)
        /\ pte' = [pte EXCEPT ![u][p] = entry, ![t][p] = entry]
        /\ UNCHANGED <<content, task, executable, pc, call, args, loading, lost>>
    BY <1>4, <2>1 DEF TryToShare, FrameOf, Barred
  <2>3. /\ f \in Frame /\ entry \in PTE /\ entry.frame = f /\ entry.w = FALSE /\ entry # NULL
        /\ Maps(pte, u, p, f) /\ DirOf(p) \in Dir
    BY <1>2, <2>1, RowOnce, BarredEntry, SetsFinite DEF Maps
  <2>4. /\ map \in [Frame -> Nat]
        /\ \A x \in Frame : map[x] = IF x = f THEN mem_map[x] + 1 ELSE mem_map[x]
    BY <1>1, <2>1, <2>3 DEF TypeOK
  <2>5. \A x \in Frame : map[x] = 0 => \A d \in Dir : dir[t][d] # x
    <3> SUFFICES ASSUME NEW x \in Frame, map[x] = 0, NEW d \in Dir, dir[t][d] = x
                 PROVE  FALSE
      OBVIOUS
    <3>1. x # NULL /\ mem_map[x] \in Nat
      BY <1>1, SetsFinite DEF TypeOK
    <3>2. mem_map[x] = 1
      BY <3>1, RowOnce
    <3> QED BY <2>4, <3>2
  <2>6. /\ mem_map' \in [Frame -> Nat]
        /\ dir' \in [Task -> [Dir -> Frame \cup {NULL}]]
        /\ \A x \in Frame :
              /\ mem_map'[x] + Cardinality(DirsOf(dir, t, x))
                    = map[x] + Cardinality(DirsOf(dir', t, x))
              /\ map[x] # 0 => mem_map'[x] = map[x]
        /\ \A d \in Dir : dir'[t][d] = dir[t][d] \/ mem_map'[dir'[t][d]] = 1
        /\ \A d \in Dir : dir[t][d] # NULL => dir'[t][d] # NULL
        /\ dir'[t][DirOf(p)] # NULL
        /\ \A v \in Task \ {t} : dir'[v] = dir[v]
    BY <1>1, <2>2, <2>4, <2>5, TableTaken
  <2>7. /\ pte' \in [Task -> [Page -> PTE \cup {NULL}]]
        /\ pte'[t][p] = entry /\ pte'[u][p] = entry
        /\ \A q \in Page \ {p} : pte'[t][q] = pte[t][q] /\ pte'[u][q] = pte[u][q]
        /\ \A v \in Task \ {t, u} : pte'[v] = pte[v]
    BY <1>1, <1>2, <2>2, <2>3 DEF TypeOK
  <2>8. OthersStay(t)
    <3>1. \A q \in Page :
             /\ pte'[u][q] # NULL <=> pte[u][q] # NULL
             /\ pte[u][q] # NULL => /\ pte'[u][q].frame = pte[u][q].frame
                                    /\ pte'[u][q].w => pte[u][q].w
      BY <1>2, <2>1, <2>3, <2>7
    <3>2. ASSUME NEW v \in Task, v # t, v # u PROVE pte'[v] = pte[v]
      BY <2>7, <3>2
    <3>3. \A v \in Task \ {t} : \A q \in Page :
             /\ pte'[v][q] # NULL <=> pte[v][q] # NULL
             /\ pte[v][q] # NULL => /\ pte'[v][q].frame = pte[v][q].frame
                                    /\ pte'[v][q].w => pte[v][q].w
      BY <3>1, <3>2
    <3> QED BY <2>2, <2>6, <3>3 DEF OthersStay
  <2>9. SharedOnly(t, u)
    <3>1. ASSUME NEW x \in Frame, mem_map[x] = 1, \A q \in Page : ~Maps(pte, u, q, x)
          PROVE  mem_map'[x] = 1
      BY <2>3, <2>4, <2>6, <3>1
    <3>2. ASSUME NEW q \in Page, pte[u][q] # NULL, pte'[u][q].w
          PROVE  mem_map'[pte[u][q].frame] = 1
      <4>1. q # p /\ pte[u][q].w
        BY <2>3, <2>7, <3>2
      <4>2. PICK x \in Frame : x = pte[u][q].frame /\ mem_map[x] = 1 /\ Maps(pte, u, q, x)
        BY <3>2, <4>1, RowOnce DEF Maps
      <4>3. x # f
        BY <2>3, <4>1, <4>2, PageNotOwned
      <4> QED BY <2>4, <2>6, <4>2, <4>3
    <3>3. ASSUME NEW v \in Task \ {t}, NEW q \in Page, pte'[v][q].w
          PROVE  pte[v][q].w \/ pte[v][q] = NULL
      BY <2>3, <2>7, <3>3
    <3> QED BY <3>1, <3>2, <3>3 DEF SharedOnly
  <2>10. TypeOK'
    <3>1. \A v \in Task, q \in Page : Present(v, q)' => dir'[v][DirOf(q)] # NULL
      <4> SUFFICES ASSUME NEW v \in Task, NEW q \in Page, pte'[v][q] # NULL
                   PROVE  dir'[v][DirOf(q)] # NULL
        BY DEF Present
      <4>1. pte[v][q] # NULL => dir[v][DirOf(q)] # NULL
        BY <1>1 DEF TypeOK, Present
      <4>2. pte[v][q] # NULL \/ (v = t /\ q = p)
        BY <1>2, <2>7
      <4>3. DirOf(q) \in Dir
        BY SetsFinite
      <4> QED BY <2>6, <4>1, <4>2, <4>3
    <3> QED BY <1>1, <2>2, <2>6, <2>7, <3>1 DEF TypeOK
  <2>11. CountStep(t)
    <3> SUFFICES ASSUME NEW x \in Frame
                 PROVE  mem_map'[x] + OfNow(t, x) + One(x \in lost)
                          = mem_map[x] + Of(task', dir', pte', args', loading', t, x)
                              + One(x \in lost')
      BY DEF CountStep
    <3> DEFINE k == One(task[t] = x)
               b == One(args[t] = x)
               l == One(Loads(loading, t, x))
               h == One(x = f)
               d == Cardinality(DirsOf(dir, t, x))
               q == Cardinality(PagesOf(pte, t, x))
               d2 == Cardinality(DirsOf(dir', t, x))
               q2 == Cardinality(PagesOf(pte', t, x))
               o == One(x \in lost)
    <3>1. /\ k \in Nat /\ b \in Nat /\ l \in Nat /\ o \in Nat /\ h \in Nat
          /\ d \in Nat /\ q \in Nat /\ d2 \in Nat /\ q2 \in Nat
          /\ One(x \in lost') = o /\ One(x \in lost) = o
      BY <2>2, OfCounts DEF One
    <3>2. q2 = q + h
      <4>1. PagesKeep(pte, pte', t, p, x)
        BY <2>7 DEF PagesKeep, Maps
      <4>2. q2 + One(Maps(pte, t, p, x)) = q + One(Maps(pte', t, p, x))
        BY <4>1, PageSet
      <4>3. One(Maps(pte, t, p, x)) = 0 /\ One(Maps(pte', t, p, x)) = h
        BY <1>1, <2>3, <2>7 DEF Maps, One, Present
      <4> QED BY <3>1, <4>2, <4>3
    <3>3. mem_map'[x] + d = mem_map[x] + h + d2
      <4>1. map[x] = mem_map[x] + h /\ mem_map[x] \in Nat
        BY <1>1, <2>4 DEF One, TypeOK
      <4> QED BY <2>6, <4>1
    <3>4. OfNow(t, x) = k + d + b + l + q
      BY DEF OfNow, Of
    <3>5. Of(task', dir', pte', args', loading', t, x) = k + d2 + b + l + q2
      BY <2>2 DEF Of
    <3>6. mem_map[x] \in Nat /\ mem_map'[x] \in Nat
      BY <1>1, <2>6 DEF TypeOK
    <3> HIDE DEF k, b, l, h, d, q, d2, q2, o
    <3>7. mem_map'[x] + (k + d + b + l + q) + o = mem_map[x] + (k + d2 + b + l + q2) + o
      BY <3>1, <3>2, <3>3, <3>6
    <3> QED BY <3>1, <3>4, <3>5, <3>7
  <2>12. /\ OthersOnce(t)
         /\ \A x \in Frame : Owned(t, x) => mem_map'[x] = 1
         /\ \A q \in Page : pte[t][q] # NULL /\ pte[t][q].w => mem_map'[pte[t][q].frame] = 1
    BY <1>2, <2>9, SharedOnce
  <2>13. OwnRow(t)
    <3>1. /\ task[t] # NULL => mem_map'[task[t]] = 1
          /\ args[t] # NULL => mem_map'[args[t]] = 1
          /\ \A d \in Dir : dir[t][d] # NULL => mem_map'[dir[t][d]] = 1
      BY <2>12, RowOnce DEF Owned
    <3>2. \A d \in Dir : dir'[t][d] # NULL => mem_map'[dir'[t][d]] = 1
      BY <2>6, <3>1
    <3>3. \A q \in Page : pte'[t][q] # NULL /\ pte'[t][q].w => mem_map'[pte'[t][q].frame] = 1
      BY <2>3, <2>7, <2>12
    <3> QED BY <1>1, <2>2, <3>1, <3>2, <3>3 DEF OwnRow
  <2>14. TaskOK(t)'
    <3>1. pc[t] \notin {"none", "zombie", "exiting"}
      BY <1>1
    <3> QED BY <1>1, <2>2, <3>1 DEF TaskOK
  <2>15. JoinOK(t)
    BY <2>8, <2>10, <2>11, <2>12, <2>13, <2>14 DEF JoinOK
  <2> QED BY <2>15, JoinStep
<1> QED BY <1>3, <1>4

(* fork: the son has nothing yet, and gets page tables of its own with the *)
(* father's pages.                                                         *)
LEMMA ForkSteps ==
    ASSUME IInv, NEW t \in Task, NEW u \in Task, NEW s \in Free,
           NEW new \in [Tables(t) -> Free], Fork(t, u, s, new)
    PROVE  IInv'
<1>1. /\ pc[t] = "user" /\ task[t] # NULL /\ task[u] = NULL /\ u # t
      /\ TypeOK /\ Counted /\ TaskOK(u)
  BY RunsHere DEF Fork, EmptySlot, IInv
<1>2. /\ pc[u] = "none" /\ args[u] = NULL /\ loading[u] = NULL /\ call[u] = NULL
      /\ Tables(u) = {}
  BY <1>1 DEF TaskOK
<1>3. /\ \A d \in Dir : dir[u][d] = NULL
      /\ \A p \in Page : pte[u][p] = NULL
  <2>1. \A d \in Dir : dir[u][d] = NULL
    BY <1>2 DEF Tables
  <2> QED BY <2>1, RowOnce, SetsFinite
<1>4. /\ \A d, e \in Tables(t) : new[d] # s /\ (new[d] = new[e] => d = e)
      /\ task' = [task EXCEPT ![u] = s]
      /\ executable' = [executable EXCEPT ![u] = executable[t]]
      /\ pc' = [pc EXCEPT ![u] = "user"]
      /\ UNCHANGED <<content, call, args, loading, lost>>
      /\ CopyMem(t, u, new)
  BY DEF Fork
<1>5. /\ s \in Frame /\ mem_map[s] = 0
      /\ \A d \in Tables(t) : new[d] \in Frame /\ mem_map[new[d]] = 0
      /\ NULL \notin Frame /\ NULL \notin PTE
  BY SetsFinite DEF Free, FreeIn
<1>6. PICK N : N = {s} \cup {new[d] : d \in Tables(t)}
  OBVIOUS
<1>7. ASSUME NEW x \in Frame
      PROVE  /\ mem_map'[x] \in Nat
             /\ x \in N => mem_map'[x] = 1 /\ mem_map[x] = 0
             /\ x \notin N => mem_map'[x] = mem_map[x] + Cardinality(PagesOf(pte, t, x))
  <2>1. {p \in Page : Present(t, p) /\ FrameOf(t, p) = x} = PagesOf(pte, t, x)
    BY DEF PagesOf, Maps, Present, FrameOf
  <2>2. mem_map'[x] = IF x \in N THEN 1 ELSE mem_map[x] + Cardinality(PagesOf(pte, t, x))
    BY <1>6, <2>1 DEF Fork
  <2>3. x \in N => mem_map[x] = 0
    BY <1>5, <1>6
  <2>4. mem_map[x] \in Nat /\ Cardinality(PagesOf(pte, t, x)) \in Nat
    BY <1>1, OfCounts DEF TypeOK
  <2> QED BY <2>2, <2>3, <2>4
<1>8. mem_map' \in [Frame -> Nat]
  BY <1>7 DEF Fork
<1>9. /\ dir' \in [Task -> [Dir -> Frame \cup {NULL}]]
      /\ \A d \in Dir : dir'[u][d] = IF dir[t][d] # NULL THEN new[d] ELSE NULL
      /\ \A v \in Task \ {u} : dir'[v] = dir[v]
  <2>1. PICK row : row = [d \in Dir |-> IF d \in Tables(t) THEN new[d] ELSE NULL]
    OBVIOUS
  <2>2. row \in [Dir -> Frame \cup {NULL}]
    BY <1>5, <2>1
  <2>3. dir' = [dir EXCEPT ![u] = row]
    BY <1>4, <2>1 DEF CopyMem
  <2>4. \A d \in Dir : row[d] = IF dir[t][d] # NULL THEN new[d] ELSE NULL
    BY <2>1 DEF Tables
  <2> QED BY <1>1, <2>2, <2>3, <2>4 DEF TypeOK
<1>10. /\ pte' \in [Task -> [Page -> PTE \cup {NULL}]]
       /\ \A p \in Page :
             /\ pte'[t][p] = IF pte[t][p] # NULL THEN Barred(pte[t][p]) ELSE NULL
             /\ pte'[u][p] = IF pte[t][p] # NULL THEN Barred(pte[t][p]) ELSE NULL
       /\ \A v \in Task \ {t, u} : pte'[v] = pte[v]
  <2>1. PICK r1, r2 : /\ r1 = Protected(t, Dir)
                      /\ r2 = [p \in Page |-> IF Present(t, p)
                                                THEN [pte[t][p] EXCEPT !.w = FALSE] ELSE NULL]
    OBVIOUS
  <2>2. pte' = [pte EXCEPT ![t] = r1, ![u] = r2]
    BY <1>4, <2>1 DEF CopyMem
  <2>3. \A p \in Page : /\ r1[p] = IF pte[t][p] # NULL THEN Barred(pte[t][p]) ELSE NULL
                        /\ r2[p] = IF pte[t][p] # NULL THEN Barred(pte[t][p]) ELSE NULL
    BY <2>1, SetsFinite DEF Protected, Present, Barred
  <2>4. \A p \in Page : pte[t][p] # NULL => Barred(pte[t][p]) \in PTE
    BY RowOnce, BarredEntry
  <2>5. r1 \in [Page -> PTE \cup {NULL}] /\ r2 \in [Page -> PTE \cup {NULL}]
    <3>1. \A p \in Page : r1[p] \in PTE \cup {NULL} /\ r2[p] \in PTE \cup {NULL}
      BY <2>3, <2>4
    <3>2. r1 = [p \in Page |-> r1[p]] /\ r2 = [p \in Page |-> r2[p]]
      BY <2>1 DEF Protected
    <3> QED BY <3>1, <3>2
  <2>6. /\ pte'[t] = r1 /\ pte'[u] = r2
        /\ \A v \in Task \ {t, u} : pte'[v] = pte[v]
    BY <1>1, <2>2 DEF TypeOK
  <2>7. pte' \in [Task -> [Page -> PTE \cup {NULL}]]
    BY <1>1, <2>2, <2>5 DEF TypeOK
  <2> QED BY <2>3, <2>6, <2>7
<1>11. \A p \in Page : pte[t][p] # NULL =>
         /\ Barred(pte[t][p]) \in PTE /\ Barred(pte[t][p]) # NULL
         /\ Barred(pte[t][p]).frame = pte[t][p].frame /\ Barred(pte[t][p]).w = FALSE
  <2> SUFFICES ASSUME NEW p \in Page, pte[t][p] # NULL
               PROVE  /\ Barred(pte[t][p]) \in PTE /\ Barred(pte[t][p]) # NULL
                      /\ Barred(pte[t][p]).frame = pte[t][p].frame
                      /\ Barred(pte[t][p]).w = FALSE
    OBVIOUS
  <2>1. pte[t][p] \in PTE
    BY RowOnce
  <2> QED BY <1>5, <2>1, BarredEntry
<1>12. OthersStay(u)
  <2>1. \A p \in Page :
           /\ pte'[t][p] # NULL <=> pte[t][p] # NULL
           /\ pte[t][p] # NULL => /\ pte'[t][p].frame = pte[t][p].frame
                                  /\ pte'[t][p].w => pte[t][p].w
    BY <1>10, <1>11
  <2>2. \A v \in Task \ {u} : \A p \in Page :
           /\ pte'[v][p] # NULL <=> pte[v][p] # NULL
           /\ pte[v][p] # NULL => /\ pte'[v][p].frame = pte[v][p].frame
                                  /\ pte'[v][p].w => pte[v][p].w
    <3> SUFFICES ASSUME NEW v \in Task, v # u, NEW p \in Page
                 PROVE  /\ pte'[v][p] # NULL <=> pte[v][p] # NULL
                        /\ pte[v][p] # NULL => /\ pte'[v][p].frame = pte[v][p].frame
                                               /\ pte'[v][p].w => pte[v][p].w
      OBVIOUS
    <3>1. v # t => pte'[v] = pte[v]
      BY <1>10
    <3> QED BY <2>1, <3>1
  <2>3. \A v \in Task \ {u} : /\ task'[v] = task[v] /\ pc'[v] = pc[v]
                              /\ executable'[v] = executable[v]
    BY <1>1, <1>4 DEF TypeOK
  <2> QED BY <1>4, <1>9, <2>2, <2>3 DEF OthersStay
<1>13. SharedOnly(u, t)
  <2>1. ASSUME NEW x \in Frame, mem_map[x] = 1, \A p \in Page : ~Maps(pte, t, p, x)
        PROVE  mem_map'[x] = 1
    <3>1. Cardinality(PagesOf(pte, t, x)) = 0
      BY <1>1, <2>1, PartsOf DEF Parts
    <3> QED BY <1>7, <2>1, <3>1
  <2>2. \A p \in Page : pte[t][p] # NULL => ~pte'[t][p].w
    BY <1>10, <1>11
  <2>3. \A v \in Task \ {u} : \A p \in Page : pte'[v][p].w => pte[v][p].w \/ pte[v][p] = NULL
    BY <1>12 DEF OthersStay
  <2> QED BY <2>1, <2>2, <2>3 DEF SharedOnly
<1>14. OthersOnce(u)
  BY <1>13, SharedOnce
<1>15. TypeOK'
  <2>1. \A v \in Task, p \in Page : Present(v, p)' => dir'[v][DirOf(p)] # NULL
    <3> SUFFICES ASSUME NEW v \in Task, NEW p \in Page, pte'[v][p] # NULL
                 PROVE  dir'[v][DirOf(p)] # NULL
      BY DEF Present
    <3>1. \A w \in Task : pte[w][p] # NULL => dir[w][DirOf(p)] # NULL
      BY <1>1 DEF TypeOK, Present
    <3>2. DirOf(p) \in Dir
      BY SetsFinite
    <3>3. CASE v = u
      <4>1. pte[t][p] # NULL
        BY <1>10, <3>3
      <4>2. dir[t][DirOf(p)] # NULL /\ DirOf(p) \in Tables(t)
        BY <3>1, <3>2, <4>1 DEF Tables
      <4> QED BY <1>5, <1>9, <3>2, <3>3, <4>2
    <3>4. CASE v # u
      <4>1. pte[v][p] # NULL
        BY <1>12, <3>4 DEF OthersStay
      <4> QED BY <1>9, <3>1, <3>4, <4>1
    <3> QED BY <3>3, <3>4
  <2>2. /\ task' \in [Task -> Frame \cup {NULL}]
        /\ executable' \in [Task -> Program \cup {NULL}]
        /\ pc' \in [Task -> {"none", "user", "syscall", "exec", "execclose", "exiting", "zombie"}]
    BY <1>1, <1>4, <1>5 DEF TypeOK
  <2> QED BY <1>1, <1>4, <1>8, <1>9, <1>10, <2>1, <2>2 DEF TypeOK
<1>16. task'[u] = s /\ pc'[u] = "user"
  BY <1>1, <1>4 DEF TypeOK
<1>17. CountStep(u)
  <2> SUFFICES ASSUME NEW x \in Frame
               PROVE  mem_map'[x] + OfNow(u, x) + One(x \in lost)
                        = mem_map[x] + Of(task', dir', pte', args', loading', u, x)
                            + One(x \in lost')
    BY DEF CountStep
  <2> DEFINE d2 == Cardinality(DirsOf(dir', u, x))
             q == Cardinality(PagesOf(pte, t, x))
             o == One(x \in lost)
  <2>1. ClearNow(u, x) /\ OfNow(u, x) = 0
    <3>1. ClearNow(u, x)
      BY <1>1, <1>2, <1>3, <1>5 DEF ClearNow, Clear, Loads, Maps
    <3> QED BY <3>1, OfCounts DEF ClearNow, OfNow
  <2>2. PagesOf(pte', u, x) = PagesOf(pte, t, x)
    BY <1>10, <1>11 DEF PagesOf, Maps
  <2>3. One(x = s) + d2 = One(x \in N)
    <3>1. CASE x = s
      <4>1. DirsOf(dir', u, x) = {}
        BY <1>4, <1>5, <1>9, <3>1 DEF DirsOf, Tables
      <4> QED BY <1>6, <3>1, <4>1, FS_EmptySet DEF One
    <3>2. CASE x # s /\ x \in N
      <4>1. PICK d \in Tables(t) : x = new[d]
        BY <1>6, <3>2
      <4>2. DirsOf(dir', u, x) = {d}
        BY <1>4, <1>5, <1>9, <4>1 DEF DirsOf, Tables
      <4>3. d2 = 1
        BY <4>2, FS_Singleton
      <4> QED BY <3>2, <4>3 DEF One
    <3>3. CASE x \notin N
      <4>1. DirsOf(dir', u, x) = {}
        BY <1>5, <1>6, <1>9, <3>3 DEF DirsOf, Tables
      <4> QED BY <1>6, <3>3, <4>1, FS_EmptySet DEF One
    <3> QED BY <3>1, <3>2, <3>3
  <2>4. Of(task', dir', pte', args', loading', u, x) = One(x = s) + d2 + 0 + 0 + q
    <3>1. One(args'[u] = x) = 0 /\ One(Loads(loading', u, x)) = 0
      BY <1>2, <1>4, <1>5 DEF One, Loads
    <3>2. One(task'[u] = x) = One(x = s)
      BY <1>16 DEF One
    <3> QED BY <2>2, <3>1, <3>2 DEF Of
  <2>5. mem_map'[x] = mem_map[x] + One(x \in N) + q /\ mem_map[x] \in Nat
    <3>1. mem_map[x] = 0 => q = 0
      <4>1. mem_map[x] = 0 => ClearNow(t, x)
        BY <1>1, Unused
      <4> QED BY <1>1, <4>1, PartsOf DEF Parts
    <3> QED BY <1>1, <1>7, <3>1, OfCounts DEF One, TypeOK
  <2>6. /\ q \in Nat /\ d2 \in Nat /\ o \in Nat /\ One(x = s) \in Nat /\ One(x \in N) \in Nat
        /\ One(x \in lost) = o /\ One(x \in lost') = o
    BY <1>4, OfCounts DEF One
  <2> HIDE DEF d2, q, o
  <2>7. Of(task', dir', pte', args', loading', u, x) = One(x \in N) + q
    BY <2>3, <2>4, <2>6
  <2> QED BY <2>1, <2>5, <2>6, <2>7
<1>18. OwnRow(u)
  <2>1. mem_map'[s] = 1 /\ \A d \in Tables(t) : mem_map'[new[d]] = 1
    BY <1>5, <1>6, <1>7
  <2>2. \A d \in Dir : dir'[u][d] # NULL => mem_map'[dir'[u][d]] = 1
    BY <1>9, <2>1 DEF Tables
  <2>3. \A p \in Page : pte'[u][p] # NULL => ~pte'[u][p].w
    BY <1>10, <1>11
  <2> QED BY <1>2, <1>4, <1>16, <2>1, <2>2, <2>3 DEF OwnRow
<1>19. TaskOK(u)'
  BY <1>2, <1>4, <1>5, <1>16 DEF TaskOK
<1>20. JoinOK(u)
  BY <1>12, <1>14, <1>15, <1>17, <1>18, <1>19 DEF JoinOK
<1> QED BY <1>20, JoinStep

-----------------------------------------------------------------------------
(* Init and the steps. *)
LEMMA StartOK == ASSUME Init PROVE IInv
<1>1. PICK first : first = CHOOSE t \in Task : \A u \in Task : t <= u
  OBVIOUS
<1>2. first \in Task
  <2>1. \E t \in Task : \A u \in Task : t <= u
    BY MemoryAssumption, LeastOf
  <2> QED BY <1>1, <2>1, Zenon
<1>3. PICK stack \in Frame :
         /\ mem_map = [f \in Frame |-> IF f = stack THEN 1 ELSE 0]
         /\ content = [f \in Frame |-> Zero]
         /\ task = [t \in Task |-> IF t = first THEN stack ELSE NULL]
         /\ dir = [t \in Task |-> NoTables]
         /\ pte = [t \in Task |-> NoPages]
         /\ executable = [t \in Task |-> NULL]
         /\ pc = [t \in Task |-> IF t = first THEN "user" ELSE "none"]
         /\ call = [t \in Task |-> NULL]
         /\ args = [t \in Task |-> NULL]
         /\ loading = [t \in Task |-> NULL]
         /\ lost = {}
  BY <1>1 DEF Init
<1>4. NULL \notin Frame /\ NoTables \in [Dir -> Frame \cup {NULL}]
  BY SetsFinite DEF NoTables
<1>5. NoPages \in [Page -> PTE \cup {NULL}]
  BY DEF NoPages
<1>6. TypeOK
  <2>1. content \in [Frame -> Content]
    BY <1>3, Contents
  <2>2. \A t \in Task, p \in Page : ~Present(t, p)
    BY <1>3 DEF Present, NoPages
  <2>3. mem_map \in [Frame -> Nat] /\ task \in [Task -> Frame \cup {NULL}]
    BY <1>3
  <2>4. /\ dir \in [Task -> [Dir -> Frame \cup {NULL}]]
        /\ pte \in [Task -> [Page -> PTE \cup {NULL}]]
    BY <1>3, <1>4, <1>5
  <2>5. /\ executable \in [Task -> Program \cup {NULL}]
        /\ call \in [Task -> Page \cup {NULL}]
        /\ args \in [Task -> Frame \cup {NULL}]
        /\ loading \in [Task -> Load \cup {NULL}]
        /\ lost \subseteq Frame
    BY <1>3
  <2>6. pc \in [Task -> {"none", "user", "syscall", "exec", "execclose", "exiting", "zombie"}]
    BY <1>3
  <2> QED BY <2>1, <2>2, <2>3, <2>4, <2>5, <2>6 DEF TypeOK
<1>7. Counted
  <2> SUFFICES ASSUME NEW f \in Frame
               PROVE  mem_map[f] = Total(task, dir, pte, args, loading, lost, f)
    BY DEF Counted
  <2>1. Tasks(task, f) = IF f = stack THEN {first} ELSE {}
    BY <1>2, <1>3, <1>4 DEF Tasks
  <2>2. Dirs(dir, f) = {} /\ Tasks(args, f) = {} /\ Loaders(loading, f) = {} /\ Pages(pte, f) = {}
    BY <1>3, <1>4 DEF Dirs, Tasks, Loaders, Loads, Pages, Maps, NoTables, NoPages
  <2>3. Cardinality({}) = 0 /\ Cardinality({first}) = 1
    BY FS_EmptySet, FS_Singleton
  <2>4. One(f \in lost) = 0
    BY <1>3 DEF One
  <2>5. Cardinality(Tasks(task, f)) = mem_map[f]
    BY <1>3, <2>1, <2>3
  <2>6. Total(task, dir, pte, args, loading, lost, f) = mem_map[f] + 0 + 0 + 0 + 0 + 0
    BY <2>2, <2>3, <2>4, <2>5 DEF Total
  <2> QED BY <1>6, <2>6 DEF TypeOK
<1>8. OwnedOnce
  BY <1>3 DEF OwnedOnce, NoTables
<1>9. WritableOnce
  BY <1>3 DEF WritableOnce, Present, NoPages
<1>10. ASSUME NEW t \in Task PROVE TaskOK(t)
  <2>1. Tables(t) = {}
    BY <1>3 DEF Tables, NoTables
  <2> QED BY <1>3, <1>4, <2>1 DEF TaskOK
<1> QED BY <1>6, <1>7, <1>8, <1>9, <1>10 DEF IInv

LEMMA StepKeeps ==
    ASSUME IInv, [Next]_vars
    PROVE  IInv'
<1>1. CASE UNCHANGED vars
  <2>1. TypeOK'
    BY <1>1 DEF vars, IInv, TypeOK, Present
  <2>2. Counted' /\ OwnedOnce' /\ WritableOnce'
    BY <1>1 DEF vars, IInv, Counted, OwnedOnce, WritableOnce, Present, FrameOf
  <2>3. \A t \in Task : TaskOK(t)'
    BY <1>1 DEF vars, IInv, TaskOK, Tables, Present
  <2> QED BY <2>1, <2>2, <2>3 DEF IInv
<1>2. CASE Next
  <2>1. PICK t \in Task :
           \/ Exit(t) \/ ExitDone(t) \/ Release(t)
           \/ \E p \in Page : NoPage(t, p) \/ UserWrite(t, p) \/ WpPage(t, p) \/ VerifyArea(t, p)
           \/ FinishLoad(t) \/ PutFs(t) \/ DoFork(t) \/ DoExecve(t)
    BY <1>2 DEF Next
  <2>2. CASE Exit(t) \/ ExitDone(t) \/ Release(t) \/ FinishLoad(t) \/ PutFs(t)
    BY <2>2, ExitSteps, ExitDoneSteps, ReleaseSteps, FinishLoadSteps, PutFsSteps, AloneStep
  <2>3. ASSUME NEW p \in Page, NoPage(t, p) PROVE IInv'
    <3>1. ASSUME NEW u \in Task, TryToShare(t, p, u) PROVE IInv'
      BY <3>1, TryToShareSteps
    <3>2. CASE EmptyPage(t, p) \/ NoFreePage(t, p) \/ StartLoad(t, p)
      BY <3>2, EmptyPageSteps, NoFreePageSteps, StartLoadSteps, AloneStep
    <3> QED BY <2>3, <3>1, <3>2 DEF NoPage
  <2>4. ASSUME NEW p \in Page, UserWrite(t, p) \/ WpPage(t, p) \/ VerifyArea(t, p)
        PROVE  IInv'
    BY <2>4, UserWriteSteps, WpPageSteps, VerifyAreaSteps, AloneStep
  <2>5. CASE DoFork(t)
    <3>1. ASSUME NEW u \in Task, NEW s \in Free, NEW new \in [Tables(t) -> Free],
                 Fork(t, u, s, new)
          PROVE  IInv'
      BY <3>1, ForkSteps
    <3>2. ASSUME NEW done, ForkFails(t, done) PROVE IInv'
      BY <3>2, ForkFailsSteps, AloneStep
    <3> QED BY <2>5, <3>1, <3>2 DEF DoFork
  <2>6. CASE DoExecve(t)
    <3>1. ASSUME NEW e \in Program, ExecCommit(t, e) PROVE IInv'
      BY <3>1, ExecCommitSteps, AloneStep
    <3>2. CASE ExecStart(t) \/ ExecError(t) \/ ExecDone(t)
      BY <3>2, ExecStartSteps, ExecErrorSteps, ExecDoneSteps, AloneStep
    <3> QED BY <2>6, <3>1, <3>2 DEF DoExecve
  <2> QED BY <2>1, <2>2, <2>3, <2>4, <2>5, <2>6
<1> QED BY <1>1, <1>2

(* What the invariant says of owners and mappings. *)
LEMMA MemoryHolds == ASSUME IInv PROVE MemoryInv
<1>1. TypeOK /\ Counted /\ OwnedOnce /\ WritableOnce
  BY DEF IInv
<1>2. ASSUME NEW f \in Frame
      PROVE  /\ Owners(f) = Cardinality(Tasks(task, f)) + Cardinality(Dirs(dir, f))
                              + Cardinality(Tasks(args, f)) + Cardinality(Loaders(loading, f))
                              + One(f \in lost)
             /\ Mappings(f) = Pages(pte, f)
  <2>1. {x \in Task \X Dir : dir[x[1]][x[2]] = f} = Dirs(dir, f)
    BY DEF Dirs
  <2>2. {t \in Task : loading[t] # NULL /\ loading[t].frame = f} = Loaders(loading, f)
    BY DEF Loaders, Loads
  <2>3. {t \in Task : task[t] = f} = Tasks(task, f) /\ {t \in Task : args[t] = f} = Tasks(args, f)
    BY DEF Tasks
  <2>4. Mappings(f) = Pages(pte, f)
    BY DEF Mappings, Pages, Maps, Present, FrameOf
  <2> QED BY <2>1, <2>2, <2>3, <2>4 DEF Owners, One
<1>3. CountsMatch
  <2>1. ASSUME NEW f \in Frame PROVE mem_map[f] = Owners(f) + Cardinality(Mappings(f))
    BY <1>1, <1>2 DEF Counted, Total
  <2>2. \A t \in Task : pc[t] \in {"none", "zombie", "exiting"} => Tables(t) = {}
    BY DEF IInv, TaskOK
  <2> QED BY <2>1, <2>2 DEF CountsMatch
<1>4. Exclusive
  <2> SUFFICES ASSUME NEW t \in Task, NEW p \in Page, Present(t, p), pte[t][p].w
               PROVE  Owners(FrameOf(t, p)) = 0 /\ Mappings(FrameOf(t, p)) = {<<t, p>>}
    BY DEF Exclusive
  <2>1. PICK f : f = FrameOf(t, p)
    OBVIOUS
  <2>2. f \in Frame /\ mem_map[f] = 1 /\ Maps(pte, t, p, f)
    BY <2>1, RowOnce DEF Present, FrameOf, Maps
  <2>3. /\ f \notin lost
        /\ \A v \in Task : /\ ~Owned(v, f)
                           /\ \A q \in Page : Maps(pte, v, q, f) => v = t /\ q = p
    BY <2>2, PageNotOwned
  <2>4. Tasks(task, f) = {} /\ Dirs(dir, f) = {} /\ Tasks(args, f) = {} /\ Loaders(loading, f) = {}
    BY <2>3 DEF Tasks, Dirs, Loaders, Owned
  <2>5. Pages(pte, f) = {<<t, p>>}
    <3>1. \A x \in Task \X Page : x \in Pages(pte, f) <=> x = <<t, p>>
      <4> SUFFICES ASSUME NEW v \in Task, NEW q \in Page
                   PROVE  <<v, q>> \in Pages(pte, f) <=> <<v, q>> = <<t, p>>
        OBVIOUS
      <4>1. <<v, q>> \in Pages(pte, f) <=> Maps(pte, v, q, f)
        BY Sets
      <4> QED BY <2>2, <2>3, <4>1
    <3> QED BY <3>1 DEF Pages
  <2>6. One(f \in lost) = 0 /\ Cardinality({}) = 0
    BY <2>3, FS_EmptySet DEF One
  <2>7. Owners(f) = 0 + 0 + 0 + 0 + 0
    BY <1>2, <2>2, <2>4, <2>6
  <2> QED BY <1>2, <2>1, <2>2, <2>5, <2>7
<1> QED BY <1>1, <1>3, <1>4 DEF MemoryInv

(* mem_map counts what every frame is used for, a process that has ended   *)
(* or not begun has no page tables, and a page that can be written to is   *)
(* nobody else's, whatever fork, exec, exit and page faults did and        *)
(* wherever memory ran out (memory.c:62, 205, 401).                        *)
THEOREM MemoryCorrect == Spec => []MemoryInv
<1>1. Init => IInv
  BY StartOK
<1>2. IInv /\ [Next]_vars => IInv'
  BY StepKeeps
<1>3. IInv => MemoryInv
  BY MemoryHolds
<1> QED BY <1>1, <1>2, <1>3, PTL DEF Spec

-----------------------------------------------------------------------------
(* Isolation.  The pages that are there before and after a step keep their *)
(* contents.                                                               *)
Keeps ==
    \A t \in Task, p \in Page : pte[t][p] # NULL /\ pte'[t][p] # NULL =>
        content'[pte'[t][p].frame] = content[pte[t][p].frame]

(* A step after which the pages that stay are in the same frames.          *)
FramesStay ==
    \A t \in Task, p \in Page : pte[t][p] # NULL /\ pte'[t][p] # NULL =>
        pte'[t][p].frame = pte[t][p].frame

(* What a task frees it counts itself: a page of another is left.          *)
LEMMA OthersLeft ==
    ASSUME IInv, NEW s \in Task, NEW t \in Task, t # s, NEW p \in Page, NEW f,
           Maps(pte, t, p, f)
    PROVE  f \in Frame /\ mem_map[f] - One(Loads(loading, s, f)) - References(s, f) # 0
<1>1. TypeOK /\ Counted /\ f \in Frame /\ mem_map[f] \in Nat
  BY PageNotOwned DEF IInv, TypeOK
<1>2. Parts(s, f)
  BY <1>1, PartsOf
<1>3. OfNow(s, f) + OfNow(t, f) + One(f \in lost) <= mem_map[f]
  BY <1>1, TotalFits DEF OfNow, Counted
<1>4. OfNow(t, f) \in Nat /\ OfNow(t, f) # 0
  BY OfCounts DEF OfNow, Clear
<1>5. References(s, f) = Cardinality(PagesOf(pte, s, f)) + Cardinality(DirsOf(dir, s, f))
  BY ReferencesAre
<1>6. /\ One(task[s] = f) \in Nat /\ One(args[s] = f) \in Nat
      /\ One(Loads(loading, s, f)) \in Nat /\ One(f \in lost) \in Nat
  BY DEF One
<1> DEFINE a == One(task[s] = f)
           b == One(args[s] = f)
           l == One(Loads(loading, s, f))
           o == One(f \in lost)
           d == Cardinality(DirsOf(dir, s, f))
           q == Cardinality(PagesOf(pte, s, f))
<1>7. /\ a \in Nat /\ b \in Nat /\ l \in Nat /\ o \in Nat /\ d \in Nat /\ q \in Nat
      /\ OfNow(s, f) = a + d + b + l + q
  BY <1>2, <1>6 DEF Parts
<1>8. (a + d + b + l + q) + OfNow(t, f) + o <= mem_map[f] /\ References(s, f) = q + d
  BY <1>3, <1>5, <1>7
<1>9. mem_map[f] - l - (q + d) # 0
  <2> DEFINE n == OfNow(t, f)
             m == mem_map[f]
  <2>1. (a + d + b + l + q) + n + o <= m /\ n \in Nat /\ n # 0 /\ m \in Nat
    BY <1>1, <1>4, <1>8
  <2>2. m - l - (q + d) # 0
    <3> HIDE DEF a, b, l, o, d, q, n, m
    <3> QED BY <1>7, <2>1
  <2> QED BY <2>2
<1> QED BY <1>1, <1>8, <1>9

LEMMA ExitKeeps ==
    ASSUME IInv, NEW s \in Task, NEW map, NEW held, DoExit(s, map, held),
           \A f \in Frame : map[f] = mem_map[f] - One(Loads(loading, s, f))
    PROVE  Keeps
<1>1. TypeOK
  BY DEF IInv
<1>2. /\ mem_map' = [f \in Frame |-> map[f] - References(s, f)]
      /\ pte' = [pte EXCEPT ![s] = NoPages] /\ ClearFreed
  BY DEF DoExit, FreePageTables
<1> SUFFICES ASSUME NEW t \in Task, NEW p \in Page, pte[t][p] # NULL, pte'[t][p] # NULL
             PROVE  content'[pte'[t][p].frame] = content[pte[t][p].frame]
  BY DEF Keeps
<1>3. t # s /\ pte'[t] = pte[t]
  BY <1>1, <1>2 DEF TypeOK, NoPages
<1>4. PICK f : f = pte[t][p].frame /\ Maps(pte, t, p, f)
  BY DEF Maps
<1>5. f \in Frame /\ mem_map'[f] # 0
  <2>1. f \in Frame /\ mem_map[f] - One(Loads(loading, s, f)) - References(s, f) # 0
    BY <1>3, <1>4, OthersLeft
  <2>2. mem_map'[f] = map[f] - References(s, f)
    BY <1>2, <2>1
  <2> QED BY <2>1, <2>2
<1> QED BY <1>2, <1>3, <1>4, <1>5 DEF ClearFreed

LEMMA OomKeeps ==
    ASSUME IInv, NEW s \in Task, NEW held, loading[s] = NULL, DoExit(s, mem_map, held)
    PROVE  Keeps
<1>1. \A f \in Frame : mem_map[f] = mem_map[f] - One(Loads(loading, s, f))
  <2>1. \A f \in Frame : One(Loads(loading, s, f)) = 0 /\ mem_map[f] \in Nat
    BY DEF Loads, One, IInv, TypeOK
  <2> QED BY <2>1
<1> QED BY <1>1, ExitKeeps

LEMMA StayKeeps ==
    ASSUME FramesStay,
           \A t \in Task, p \in Page : pte[t][p] # NULL =>
              content'[pte[t][p].frame] = content[pte[t][p].frame]
    PROVE  Keeps
BY DEF FramesStay, Keeps

LEMMA QuietKeeps ==
    ASSUME FramesStay, content' = content
    PROVE  Keeps
BY DEF FramesStay, Keeps

(* A page is entered where there was none. *)
LEMMA PutStays ==
    ASSUME IInv, NEW s \in Task, NEW p \in Page, NEW entry, NEW map,
           PutPage(s, p, entry, map), ~Present(s, p)
    PROVE  FramesStay
BY DEF IInv, TypeOK, PutPage, Present, FramesStay

(* A page is replaced by a copy, or its entry changes. *)
LEMMA UnWpKeeps ==
    ASSUME IInv, NEW s \in Task, NEW p \in Page, WriteProtected(s, p), UnWpPage(s, p)
    PROVE  Keeps
<1>1. TypeOK /\ pte[s][p] \in PTE /\ pte[s][p] # NULL
  BY RowOnce DEF IInv, WriteProtected, Present
<1>2. CASE mem_map[FrameOf(s, p)] = 1
  <2>1. content' = content /\ pte' = [pte EXCEPT ![s][p].w = TRUE]
    BY <1>2 DEF UnWpPage
  <2>2. PICK e : e = [pte[s][p] EXCEPT !.w = TRUE]
    OBVIOUS
  <2>3. e.frame = pte[s][p].frame
    BY <1>1, <2>2 DEF PTE
  <2>4. pte' = [pte EXCEPT ![s][p] = e]
    BY <1>1, <2>1, <2>2 DEF TypeOK
  <2>5. FramesStay
    BY <1>1, <2>3, <2>4 DEF TypeOK, FramesStay
  <2> QED BY <2>1, <2>5, QuietKeeps
<1>3. CASE mem_map[FrameOf(s, p)] # 1
  <2>1. PICK g \in Free : /\ content' = [content EXCEPT ![g] = content[FrameOf(s, p)]]
                          /\ pte' = [pte EXCEPT ![s][p] = Entry(g)]
    BY <1>3 DEF UnWpPage
  <2>2. g \in Frame /\ mem_map[g] = 0
    BY DEF Free, FreeIn
  <2> SUFFICES ASSUME NEW t \in Task, NEW q \in Page, pte[t][q] # NULL, pte'[t][q] # NULL
               PROVE  content'[pte'[t][q].frame] = content[pte[t][q].frame]
    BY DEF Keeps
  <2>3. CASE t = s /\ q = p
    <3>1. pte'[t][q] = Entry(g) /\ Entry(g).frame = g
      BY <1>1, <2>1, <2>3 DEF TypeOK, Entry
    <3> QED BY <1>1, <2>1, <2>2, <2>3, <3>1 DEF TypeOK, FrameOf
  <2>4. CASE ~(t = s /\ q = p)
    <3>1. pte'[t][q] = pte[t][q]
      BY <1>1, <2>1, <2>4 DEF TypeOK
    <3>2. Maps(pte, t, q, pte[t][q].frame)
      BY DEF Maps
    <3>3. pte[t][q].frame # g
      BY <2>2, <3>2, PageNotOwned
    <3> QED BY <1>1, <2>1, <3>1, <3>3 DEF TypeOK
  <2> QED BY <2>3, <2>4
<1> QED BY <1>2, <1>3

(* A write through an entry that allows it changes one page of one task.   *)
LEMMA WriteKeeps ==
    ASSUME IInv, NEW s \in Task, NEW p \in Page, Present(s, p), pte[s][p].w, Write(s, p),
           NEW t \in Task, NEW q \in Page, Changed(t, q)
    PROVE  t = s /\ q = p
<1>1. TypeOK /\ pte[s][p] \in PTE
  BY RowOnce DEF IInv, Present
<1>2. PICK f : f = pte[s][p].frame /\ Maps(pte, s, p, f)
  BY DEF Maps, Present
<1>3. PICK e : e = [pte[s][p] EXCEPT !.dirty = TRUE]
  OBVIOUS
<1>4. e.frame = f
  BY <1>1, <1>2, <1>3 DEF PTE
<1>5. pte' = [pte EXCEPT ![s][p] = e]
  BY <1>1, <1>3 DEF Write, TypeOK
<1>6. pte[t][q] # NULL /\ pte'[t][q].frame = pte[t][q].frame
  BY <1>1, <1>2, <1>4, <1>5 DEF TypeOK, Changed, Present
<1>7. content'[pte[t][q].frame] # content[pte[t][q].frame]
  BY <1>6 DEF Changed, FrameOf
<1>8. pte[t][q].frame = f
  BY <1>1, <1>2, <1>7 DEF Write, FrameOf, TypeOK
<1>9. Maps(pte, t, q, f)
  BY <1>6, <1>8 DEF Maps
<1> QED BY <1>2, <1>9, PageNotOwned

LEMMA LoadKeeps ==
    ASSUME IInv, NEW s \in Task, FinishLoad(s)
    PROVE  Keeps
<1> DEFINE p == loading[s].page
           f == loading[s].frame
<1>1. loading[s] # NULL /\ TypeOK /\ TaskOK(s)
  BY DEF FinishLoad, IInv
<1>2. f \in Frame /\ p \in Page /\ ~Present(s, p) /\ mem_map \in [Frame -> Nat]
  BY <1>1, RowOnce DEF TypeOK, TaskOK
<1>3. \A g \in Frame : Loads(loading, s, g) <=> g = f
  BY <1>1 DEF Loads
<1>4. CASE CanPut(s, p, mem_map)
  <2>1. /\ PutPage(s, p, Entry(f), mem_map)
        /\ content' = [content EXCEPT ![f] = File(executable[s], p)]
    BY <1>4 DEF FinishLoad
  <2>2. FramesStay
    BY <1>2, <2>1, PutStays
  <2>3. ASSUME NEW t \in Task, NEW q \in Page, pte[t][q] # NULL
        PROVE  content'[pte[t][q].frame] = content[pte[t][q].frame]
    <3>1. Maps(pte, t, q, pte[t][q].frame)
      BY <2>3 DEF Maps
    <3>2. pte[t][q].frame # f
      BY <1>2, <1>3, <3>1, PageNotOwned DEF Owned
    <3>3. pte[t][q].frame \in Frame /\ content \in [Frame -> Content]
      BY <1>1, <3>1, PageNotOwned DEF TypeOK
    <3> QED BY <2>1, <3>2, <3>3
  <2> QED BY <2>2, <2>3, StayKeeps
<1>5. CASE ~CanPut(s, p, mem_map)
  <2>1. DoExit(s, FreePage(mem_map, f), {args[s]})
    BY <1>5 DEF FinishLoad, Oom
  <2>2. \A g \in Frame : FreePage(mem_map, f)[g] = mem_map[g] - One(Loads(loading, s, g))
    <3> SUFFICES ASSUME NEW g \in Frame
                 PROVE  FreePage(mem_map, f)[g] = mem_map[g] - One(Loads(loading, s, g))
      OBVIOUS
    <3>1. /\ mem_map[g] \in Nat
          /\ FreePage(mem_map, f)[g] = IF g = f THEN mem_map[g] - 1 ELSE mem_map[g]
      BY <1>2 DEF FreePage
    <3>2. One(Loads(loading, s, g)) = IF g = f THEN 1 ELSE 0
      BY <1>3 DEF One
    <3> QED BY <3>1, <3>2
  <2> HIDE DEF f
  <2> QED BY <2>1, <2>2, ExitKeeps
<1> QED BY <1>4, <1>5

LEMMA ShareKeeps ==
    ASSUME IInv, NEW s \in Task, NEW p \in Page, NEW u \in Task, TryToShare(s, p, u)
    PROVE  Keeps
<1>1. loading[s] = NULL /\ ~Present(s, p) /\ TypeOK
  BY RunsHere DEF TryToShare, IInv
<1>2. u # s /\ pte[u][p] # NULL
  BY DEF TryToShare, LastSharer, Sharers, Clean, Present
<1>3. CASE ~CanPut(s, p, mem_map)
  BY <1>1, <1>3, OomKeeps DEF TryToShare, Oom
<1>4. CASE CanPut(s, p, mem_map)
  <2>1. PICK entry : entry = Barred(pte[u][p])
    OBVIOUS
  <2>2. pte' = [pte EXCEPT ![u][p] = entry, ![s][p] = entry] /\ content' = content
    BY <1>4, <2>1 DEF TryToShare, FrameOf, Barred
  <2>3. entry.frame = pte[u][p].frame
    BY <1>2, <2>1, RowOnce, BarredEntry
  <2>4. FramesStay
    BY <1>1, <1>2, <2>2, <2>3 DEF TypeOK, FramesStay, Present
  <2> QED BY <2>2, <2>4, QuietKeeps
<1> QED BY <1>3, <1>4

LEMMA ForkKeeps ==
    ASSUME IInv, NEW s \in Task, DoFork(s)
    PROVE  Keeps
<1>1. TypeOK /\ \A p \in Page : pte[s][p] # NULL => Barred(pte[s][p]).frame = pte[s][p].frame
  BY RowOnce, BarredEntry DEF IInv
<1>2. ASSUME NEW done
      PROVE  \A p \in Page : pte[s][p] # NULL => Protected(s, done)[p].frame = pte[s][p].frame
  BY <1>1 DEF Protected, Present, Barred
<1>3. ASSUME NEW u \in Task, NEW k \in Free, NEW new \in [Tables(s) -> Free], Fork(s, u, k, new)
      PROVE  Keeps
  <2>1. PICK r : pte' = [pte EXCEPT ![s] = Protected(s, Dir), ![u] = r] /\ content' = content
    BY <1>3 DEF Fork, CopyMem
  <2>2. u # s /\ \A p \in Page : pte[u][p] = NULL
    <3>1. pc[s] = "user" /\ task[s] # NULL /\ task[u] = NULL /\ TaskOK(u)
      BY <1>3, RunsHere DEF Fork, EmptySlot, IInv
    <3>2. Tables(u) = {}
      BY <3>1 DEF TaskOK
    <3>3. \A d \in Dir : dir[u][d] = NULL
      BY <3>2 DEF Tables
    <3> QED BY <3>1, <3>3, RowOnce, SetsFinite
  <2>3. FramesStay
    <3> SUFFICES ASSUME NEW t \in Task, NEW p \in Page, pte[t][p] # NULL
                 PROVE  pte'[t][p].frame = pte[t][p].frame
      BY DEF FramesStay
    <3>1. t # u
      BY <2>2
    <3>2. pte'[t] = IF t = s THEN Protected(s, Dir) ELSE pte[t]
      BY <1>1, <2>1, <2>2, <3>1 DEF TypeOK
    <3> QED BY <1>2, <3>2
  <2> QED BY <2>1, <2>3, QuietKeeps
<1>4. ASSUME NEW done, ForkFails(s, done) PROVE Keeps
  <2>1. pte' = [pte EXCEPT ![s] = Protected(s, done)] /\ content' = content
    BY <1>4 DEF ForkFails
  <2>2. FramesStay
    <3> SUFFICES ASSUME NEW t \in Task, NEW p \in Page, pte[t][p] # NULL
                 PROVE  pte'[t][p].frame = pte[t][p].frame
      BY DEF FramesStay
    <3>1. pte'[t] = IF t = s THEN Protected(s, done) ELSE pte[t]
      BY <1>1, <2>1 DEF TypeOK
    <3> QED BY <1>2, <3>1
  <2> QED BY <2>1, <2>2, QuietKeeps
<1> QED BY <1>3, <1>4 DEF DoFork

(* execve changes the pages of the one that calls it only. *)
LEMMA ExecKeeps ==
    ASSUME IInv, NEW s \in Task, ExecDone(s), NEW t \in Task, NEW p \in Page, Changed(t, p)
    PROVE  t = s
<1> SUFFICES ASSUME t # s PROVE FALSE
  OBVIOUS
<1>1. loading[s] = NULL /\ TypeOK /\ pc[s] = "execclose" /\ TaskOK(s)
  BY RunsHere DEF ExecDone, IInv
<1>2. PICK map : map = FreePageTables(mem_map, s)
  OBVIOUS
<1>3. pte[t][p] # NULL /\ pte'[t][p] # NULL
      /\ content'[pte'[t][p].frame] # content[pte[t][p].frame]
  BY DEF Changed, Present, FrameOf
<1>4. PICK f : f = pte[t][p].frame /\ Maps(pte, t, p, f)
  BY <1>3 DEF Maps
<1>5. f \in Frame /\ ~Owned(s, f)
  BY <1>4, PageNotOwned
<1>6. CASE FreeIn(map) = {}
  <2>1. Keeps
    BY <1>1, <1>2, <1>6, OomKeeps DEF ExecDone, Oom
  <2> QED BY <1>3, <2>1 DEF Keeps
<1>7. CASE FreeIn(map) # {}
  <2>1. PICK row : pte' = [pte EXCEPT ![s] = row]
    BY <1>2, <1>7 DEF ExecDone
  <2>2. content' = [x \in Frame |-> IF x = args[s] THEN Written(s, Zero)
                                    ELSE IF map[x] = 0 THEN Zero ELSE content[x]]
    BY <1>2, <1>7 DEF ExecDone
  <2>3. pte'[t] = pte[t]
    BY <1>1, <2>1 DEF TypeOK
  <2>4. f # args[s]
    BY <1>5 DEF Owned
  <2>5. map[f] # 0
    <3>1. One(Loads(loading, s, f)) = 0 /\ mem_map[f] \in Nat
      BY <1>1, <1>5 DEF Loads, One, TypeOK
    <3>2. mem_map[f] - 0 - References(s, f) # 0
      BY <1>4, <3>1, OthersLeft
    <3> QED BY <1>2, <1>5, <3>1, <3>2 DEF FreePageTables
  <2> QED BY <1>3, <1>4, <1>5, <2>2, <2>3, <2>4, <2>5
<1> QED BY <1>6, <1>7

LEMMA IsolationStep ==
    ASSUME IInv, [Next]_vars
    PROVE  \/ \A t \in Task, p \in Page : Changed(t, p) =>
                 OwnWrite(t, p) \/ \E u \in Task : PutFs(u) /\ ~pte[u][call[u]].w
           \/ UNCHANGED vars
<1>1. Keeps => \A t \in Task, p \in Page : ~Changed(t, p)
  BY DEF Keeps, Changed, Present, FrameOf
<1>2. CASE Next
  <2>1. PICK s \in Task :
           \/ Exit(s) \/ ExitDone(s) \/ Release(s)
           \/ \E p \in Page : NoPage(s, p) \/ UserWrite(s, p) \/ WpPage(s, p) \/ VerifyArea(s, p)
           \/ FinishLoad(s) \/ PutFs(s) \/ DoFork(s) \/ DoExecve(s)
    BY <1>2 DEF Next
  <2>2. CASE Exit(s)
    BY <1>1, <2>2, OomKeeps DEF Exit, At, Runs
  <2>3. ASSUME content' = content, pte' = pte PROVE Keeps
    BY <2>3 DEF Keeps
  <2>4. CASE ExitDone(s) \/ Release(s)
    <3>1. content' = content /\ pte' = pte
      BY <2>4 DEF ExitDone, Release
    <3> QED BY <1>1, <2>3, <3>1
  <2>5. ASSUME NEW p \in Page, NoPage(s, p) PROVE Keeps
    <3>1. CASE EmptyPage(s, p)
      <4>1. loading[s] = NULL /\ ~Present(s, p)
        BY <3>1, RunsHere DEF EmptyPage
      <4>2. PICK f \in Free :
              IF CanPut(s, p, Get(mem_map, f))
                THEN PutPage(s, p, Entry(f), Get(mem_map, f)) /\ content' = content
                ELSE Oom(s, mem_map)
        BY <3>1 DEF EmptyPage
      <4>3. CASE CanPut(s, p, Get(mem_map, f))
        BY <4>1, <4>2, <4>3, PutStays, QuietKeeps
      <4>4. CASE ~CanPut(s, p, Get(mem_map, f))
        BY <4>1, <4>2, <4>4, OomKeeps DEF Oom
      <4> QED BY <4>3, <4>4
    <3>2. CASE NoFreePage(s, p)
      <4>1. loading[s] = NULL
        BY <3>2, RunsHere DEF NoFreePage
      <4> QED BY <3>2, <4>1, OomKeeps DEF NoFreePage, Oom
    <3>3. ASSUME NEW u \in Task, TryToShare(s, p, u) PROVE Keeps
      BY <3>3, ShareKeeps
    <3>4. CASE StartLoad(s, p)
      BY <2>3, <3>4 DEF StartLoad
    <3> QED BY <2>5, <3>1, <3>2, <3>3, <3>4 DEF NoPage
  <2>6. ASSUME NEW p \in Page, WpPage(s, p) \/ VerifyArea(s, p) PROVE Keeps
    <3>1. loading[s] = NULL
      BY <2>6 DEF WpPage, VerifyArea, At, Runs
    <3>2. CASE Oom(s, mem_map)
      BY <3>1, <3>2, OomKeeps DEF Oom
    <3>3. CASE WriteProtected(s, p) /\ UnWpPage(s, p)
      BY <3>3, UnWpKeeps
    <3>4. CASE content' = content /\ pte' = pte
      BY <2>3, <3>4
    <3> QED BY <2>6, <3>2, <3>3, <3>4 DEF WpPage, VerifyArea
  <2>7. ASSUME NEW p \in Page, UserWrite(s, p), NEW t \in Task, NEW q \in Page, Changed(t, q)
        PROVE  OwnWrite(t, q)
    <3>1. Present(s, p) /\ pte[s][p].w /\ Write(s, p)
      BY <2>7 DEF UserWrite
    <3>2. t = s /\ q = p
      BY <2>7, <3>1, WriteKeeps
    <3> QED BY <2>7, <3>2 DEF OwnWrite
  <2>8. ASSUME PutFs(s), pte[s][call[s]].w, NEW t \in Task, NEW q \in Page, Changed(t, q)
        PROVE  OwnWrite(t, q)
    <3>1. Present(s, call[s]) /\ Write(s, call[s]) /\ pc[s] = "syscall" /\ loading[s] = NULL
      BY <2>8, RunsHere DEF PutFs
    <3>2. call[s] \in Page
      BY <3>1 DEF IInv, TaskOK, TypeOK
    <3>3. t = s /\ q = call[s]
      BY <2>8, <3>1, <3>2, WriteKeeps
    <3> QED BY <2>8, <3>3 DEF OwnWrite
  <2>9. CASE FinishLoad(s)
    BY <1>1, <2>9, LoadKeeps
  <2>10. CASE DoFork(s)
    BY <1>1, <2>10, ForkKeeps
  <2>11. CASE DoExecve(s)
    <3>1. CASE ExecDone(s)
      BY <3>1, ExecKeeps DEF OwnWrite
    <3>2. CASE ExecStart(s) \/ ExecError(s) \/ \E e \in Program : ExecCommit(s, e)
      <4>1. content' = content /\ pte' = pte
        BY <3>2 DEF ExecStart, ExecError, ExecCommit
      <4> QED BY <1>1, <2>3, <4>1
    <3> QED BY <2>11, <3>1, <3>2 DEF DoExecve
  <2> QED BY <1>1, <2>1, <2>2, <2>4, <2>5, <2>6, <2>7, <2>8, <2>9, <2>10, <2>11
<1> QED BY <1>2

(* What a process has in its pages is changed by nobody else, except by a  *)
(* system call that writes through an entry that is read only              *)
(* (head.s:38-39, memory.c:289-291).                                       *)
THEOREM PagesAreOwn == Spec => IsolationFromUsers
<1>1. Init => IInv
  BY StartOK
<1>2. IInv /\ [Next]_vars => IInv'
  BY StepKeeps
<1>3. IInv /\ [Next]_vars =>
        [\A t \in Task, p \in Page : Changed(t, p) =>
            OwnWrite(t, p) \/ \E u \in Task : PutFs(u) /\ ~pte[u][call[u]].w]_vars
  BY IsolationStep
<1> QED BY <1>1, <1>2, <1>3, PTL DEF Spec, IsolationFromUsers
=============================================================================
