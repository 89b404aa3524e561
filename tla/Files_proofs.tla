---------------------------- MODULE Files_proofs ----------------------------
(***************************************************************************)
(* What descriptors, open files and a pipe keep, for any number of tasks,  *)
(* of descriptors and of files, and a page of any size.                    *)
(***************************************************************************)
EXTENDS Files, FiniteSetTheorems, FunctionTheorems, SequenceTheorems,
        WellFoundedInduction, TLAPS

(* The tables: F is fd, P pc, I io, C fcount, N finode and K icount.       *)
Kind    == {"pipe", "regular"}
Place   == {"absent", "user", "open", "pipe", "read", "rcopy", "write", "wcopy"}
Io      == [left : Nat, chunk : Nat, at : Nat, done : BOOLEAN]
FdTable == [Task -> [Fd -> File \union {0}]]

Held(F, f) == {u \in Task \X Fd : F[u[1]][u[2]] = f}

OfCall(P, I, p) ==
    IF P[p] = "open" THEN {I[p].chunk}
    ELSE IF P[p] = "pipe" THEN {I[p].chunk, I[p].at} ELSE {}

InCalls(F, P, I) == {f \in File : \E p \in Task : \E d \in OfCall(P, I, p) : F[p][d] = f}

Naming(F, P, I, C, N, i) == {f \in File \ InCalls(F, P, I) : C[f] > 0 /\ N[f] = i}

UsesIn(F, p, D, f) == Cardinality({d \in D : F[p][d] = f})

(* The invariant of the tables: files and inodes are counted exactly; what *)
(* a call of open or pipe under way has taken, nobody else has; and there  *)
(* is nothing in a slot that is not used.                                  *)
TablesOK(F, P, I, C, N, K) ==
    /\ F \in FdTable /\ P \in [Task -> Place] /\ I \in [Task -> Io]
    /\ C \in [File -> Nat] /\ N \in [File -> Kind \union {None}] /\ K \in [Kind -> Nat]

Counted(F, C) == \A f \in File : C[f] = Cardinality(Held(F, f))

OwnFiles(F, P, I) ==
    \A p \in Task :
        /\ \A d \in OfCall(P, I, p) :
              d \in Fd /\ F[p][d] \in File /\ Held(F, F[p][d]) = {<<p, d>>}
        /\ P[p] = "pipe" => I[p].chunk # I[p].at

NothingAbsent(F, P) ==
    \A p \in Task : P[p] = "absent" => \A d \in Fd : F[p][d] = 0

Sound(F, P, I, C, N, K) ==
    /\ TablesOK(F, P, I, C, N, K)
    /\ Counted(F, C) /\ OwnFiles(F, P, I) /\ NothingAbsent(F, P)
    /\ \A i \in Kind : K[i] = Cardinality(Naming(F, P, I, C, N, i))
-----------------------------------------------------------------------------
(* Sets of descriptors and of files. *)
LEMMA Finite ==
    /\ IsFiniteSet(Fd) /\ IsFiniteSet(File) /\ Fd \subseteq Nat /\ File \subseteq Nat
    /\ 0 \notin File /\ 0 \in Fd
<1>1. NrOpen \in Nat \ {0} /\ NrFile \in Nat \ {0}
  BY FilesAssumption
<1>2. IsFiniteSet(0 .. NrOpen - 1) /\ IsFiniteSet(1 .. NrFile)
  BY <1>1, FS_Interval
<1> QED BY <1>1, <1>2 DEF Fd, File

LEMMA Pairs ==
    ASSUME NEW p, NEW D, IsFiniteSet(D)
    PROVE  IsFiniteSet({p} \X D) /\ Cardinality({p} \X D) = Cardinality(D)
<1>1. IsFiniteSet({p}) /\ Cardinality({p}) = 1
  BY FS_Singleton
<1>2. Cardinality(D) \in Nat
  BY FS_CardinalityType
<1>3. IsFiniteSet({p} \X D) /\ Cardinality({p} \X D) = 1 * Cardinality(D)
  BY <1>1, FS_Product
<1> QED BY <1>2, <1>3

LEMMA HeldFinite ==
    ASSUME NEW F, NEW f
    PROVE  /\ IsFiniteSet(Held(F, f)) /\ Cardinality(Held(F, f)) \in Nat
           /\ \A p \in Task, d \in Fd : <<p, d>> \in Held(F, f) <=> F[p][d] = f
           /\ \A u \in Held(F, f) :
                 \E p \in Task, d \in Fd : u = <<p, d>> /\ F[p][d] = f
<1>1. IsFiniteSet(Task \X Fd)
  BY Finite, FilesAssumption, FS_Product
<1>2. Held(F, f) \in SUBSET (Task \X Fd)
  BY DEF Held
<1>3. IsFiniteSet(Held(F, f)) /\ Cardinality(Held(F, f)) \in Nat
  BY <1>1, <1>2, FS_Subset, FS_CardinalityType
<1>4. \A p \in Task, d \in Fd : <<p, d>> \in Held(F, f) <=> F[p][d] = f
  BY DEF Held
<1>5. \A u \in Held(F, f) : \E p \in Task, d \in Fd : u = <<p, d>> /\ F[p][d] = f
  BY DEF Held
<1> QED BY <1>3, <1>4, <1>5

LEMMA UsesFinite ==
    ASSUME NEW F, NEW p \in Task, NEW D \in SUBSET Fd, NEW f
    PROVE  /\ IsFiniteSet({d \in D : F[p][d] = f}) /\ UsesIn(F, p, D, f) \in Nat
           /\ UsesIn(F, p, D, f) <= Cardinality(Held(F, f))
<1> DEFINE S == {d \in D : F[p][d] = f}
<1>1. IsFiniteSet(S) /\ Cardinality(S) \in Nat
  <2>1. S \in SUBSET Fd
    OBVIOUS
  <2> QED BY <2>1, Finite, FS_Subset, FS_CardinalityType
<1>3. {p} \X S \in SUBSET Held(F, f)
  BY DEF Held
<1>4. Cardinality({p} \X S) <= Cardinality(Held(F, f))
  BY <1>3, HeldFinite, FS_Subset
<1>5. Cardinality({p} \X S) = Cardinality(S)
  BY <1>1, Pairs
<1>6. UsesIn(F, p, D, f) = Cardinality(S)
  BY DEF UsesIn
<1> QED BY <1>1, <1>4, <1>5, <1>6

LEMMA UsesSome ==
    ASSUME NEW F, NEW p \in Task, NEW D \in SUBSET Fd, NEW f
    PROVE  UsesIn(F, p, D, f) > 0 <=> \E d \in D : F[p][d] = f
<1> DEFINE S == {d \in D : F[p][d] = f}
<1>1. IsFiniteSet(S) /\ Cardinality(S) \in Nat
  <2>1. S \in SUBSET Fd
    OBVIOUS
  <2> QED BY <2>1, Finite, FS_Subset, FS_CardinalityType
<1>2. Cardinality(S) = 0 <=> S = {}
  BY <1>1, FS_EmptySet
<1>3. UsesIn(F, p, D, f) = Cardinality(S)
  BY DEF UsesIn
<1>4. S = {} <=> ~\E d \in D : F[p][d] = f
  OBVIOUS
<1> HIDE DEF S
<1> QED BY <1>1, <1>2, <1>3, <1>4

LEMMA HeldSome ==
    ASSUME NEW F, NEW C, Counted(F, C), NEW f \in File
    PROVE  /\ C[f] \in Nat
           /\ C[f] > 0 <=> \E p \in Task, d \in Fd : F[p][d] = f
           /\ \A p \in Task : \A D \in SUBSET Fd : UsesIn(F, p, D, f) <= C[f]
<1>1. C[f] = Cardinality(Held(F, f)) /\ C[f] \in Nat
  BY HeldFinite DEF Counted
<1>2. C[f] = 0 <=> Held(F, f) = {}
  BY <1>1, HeldFinite, FS_EmptySet
<1>3. Held(F, f) # {} <=> \E p \in Task, d \in Fd : F[p][d] = f
  <2>1. ASSUME Held(F, f) # {} PROVE \E p \in Task, d \in Fd : F[p][d] = f
    <3>1. PICK u \in Held(F, f) : TRUE
      BY <2>1
    <3> QED BY <3>1, HeldFinite
  <2>2. ASSUME NEW p \in Task, NEW d \in Fd, F[p][d] = f PROVE Held(F, f) # {}
    <3>1. <<p, d>> \in Held(F, f)
      BY <2>2, HeldFinite
    <3> QED BY <3>1
  <2> QED BY <2>1, <2>2
<1>4. ASSUME NEW p \in Task, NEW D \in SUBSET Fd PROVE UsesIn(F, p, D, f) <= C[f]
  <2>1. UsesIn(F, p, D, f) <= Cardinality(Held(F, f))
    BY UsesFinite
  <2> QED BY <1>1, <2>1
<1> QED BY <1>1, <1>2, <1>3, <1>4

(***************************************************************************)
(* The files of calls under way: those of task p, and those of the others. *)
(***************************************************************************)
OwnIn(F, P, I, p)    == {f \in File : \E d \in OfCall(P, I, p) : F[p][d] = f}
OthersIn(F, P, I, p) ==
    {f \in File : \E q \in Task \ {p} : \E d \in OfCall(P, I, q) : F[q][d] = f}

LEMMA Split ==
    ASSUME NEW F, NEW P, NEW I, OwnFiles(F, P, I), NEW p \in Task
    PROVE  /\ InCalls(F, P, I) = OthersIn(F, P, I, p) \union OwnIn(F, P, I, p)
           /\ \A d \in Fd : F[p][d] \notin OthersIn(F, P, I, p)
           /\ OthersIn(F, P, I, p) \intersect OwnIn(F, P, I, p) = {}
<1>1. InCalls(F, P, I) = OthersIn(F, P, I, p) \union OwnIn(F, P, I, p)
  BY DEF InCalls, OthersIn, OwnIn
<1>2. ASSUME NEW d \in Fd, F[p][d] \in OthersIn(F, P, I, p) PROVE FALSE
  <2>1. PICK q \in Task \ {p} : \E e \in OfCall(P, I, q) : F[q][e] = F[p][d]
    BY <1>2 DEF OthersIn
  <2>2. PICK e \in OfCall(P, I, q) : F[q][e] = F[p][d]
    BY <2>1
  <2>3. Held(F, F[q][e]) = {<<q, e>>}
    BY <2>1 DEF OwnFiles
  <2>4. <<p, d>> \in Held(F, F[q][e])
    BY <2>2, HeldFinite
  <2> QED BY <2>1, <2>3, <2>4
<1>3. \A e \in OfCall(P, I, p) : e \in Fd
  BY DEF OwnFiles
<1>4. OthersIn(F, P, I, p) \intersect OwnIn(F, P, I, p) = {}
  BY <1>2, <1>3 DEF OwnIn
<1> QED BY <1>1, <1>2, <1>4

(* The row of one task changes, and names no file of a call of another.    *)
OthersKeep(F, P, I, G, Q, J, p) ==
    /\ \A q \in Task \ {p} :
          /\ \A d \in OfCall(Q, J, q) :
                d \in Fd /\ G[q][d] \in File /\ Held(G, G[q][d]) = {<<q, d>>}
          /\ Q[q] = "pipe" => J[q].chunk # J[q].at
    /\ InCalls(G, Q, J) = OthersIn(F, P, I, p) \union OwnIn(G, Q, J, p)

LEMMA RowChange ==
    ASSUME NEW F \in FdTable, NEW P, NEW I, OwnFiles(F, P, I), NEW p \in Task,
           NEW G \in FdTable, NEW Q, NEW J,
           \A q \in Task \ {p} : G[q] = F[q] /\ Q[q] = P[q] /\ J[q] = I[q],
           \A d \in Fd : G[p][d] \notin OthersIn(F, P, I, p)
    PROVE  OthersKeep(F, P, I, G, Q, J, p)
<1>1. \A q \in Task \ {p} : OfCall(Q, J, q) = OfCall(P, I, q)
  BY DEF OfCall
<1>2. ASSUME NEW q \in Task \ {p}, NEW d \in OfCall(Q, J, q)
      PROVE  d \in Fd /\ G[q][d] \in File /\ Held(G, G[q][d]) = {<<q, d>>}
  <2>1. d \in Fd /\ F[q][d] \in File /\ Held(F, F[q][d]) = {<<q, d>>}
    BY <1>1 DEF OwnFiles
  <2>2. F[q][d] \in OthersIn(F, P, I, p)
    BY <1>1, <2>1 DEF OthersIn
  <2>3. G[q][d] = F[q][d]
    OBVIOUS
  <2> DEFINE f == F[q][d]
  <2>4. ASSUME NEW u \in Held(G, f) PROVE u = <<q, d>>
    <3>1. PICK r \in Task, e \in Fd : u = <<r, e>> /\ G[r][e] = f
      BY HeldFinite
    <3>2. r # p
      BY <2>2, <3>1
    <3>3. F[r][e] = f
      BY <3>1, <3>2
    <3>4. <<r, e>> \in Held(F, f)
      BY <3>3, HeldFinite
    <3> QED BY <2>1, <3>1, <3>4
  <2>5. <<q, d>> \in Held(G, f)
    BY <2>1, <2>3, HeldFinite
  <2> QED BY <2>1, <2>3, <2>4, <2>5
<1>3. \A q \in Task \ {p} : Q[q] = "pipe" => J[q].chunk # J[q].at
  BY DEF OwnFiles
<1>4. InCalls(G, Q, J) = OthersIn(F, P, I, p) \union OwnIn(G, Q, J, p)
  <2>1. InCalls(G, Q, J) = OthersIn(G, Q, J, p) \union OwnIn(G, Q, J, p)
    BY DEF InCalls, OthersIn, OwnIn
  <2>2. \A q \in Task \ {p} : G[q] = F[q]
    OBVIOUS
  <2>3. OthersIn(G, Q, J, p) = OthersIn(F, P, I, p)
    BY <1>1, <2>2 DEF OthersIn
  <2> QED BY <2>1, <2>3
<1> QED BY <1>2, <1>3, <1>4 DEF OthersKeep

(* A row of descriptors: which of them name f.                             *)
LEMMA HeldAfter ==
    ASSUME NEW F \in FdTable, NEW G \in FdTable, NEW p \in Task,
           \A q \in Task \ {p} : G[q] = F[q], NEW f
    PROVE  /\ Held(G, f) = (Held(F, f) \ ({p} \X {d \in Fd : F[p][d] = f}))
                           \union ({p} \X {d \in Fd : G[p][d] = f})
           /\ {p} \X {d \in Fd : F[p][d] = f} \in SUBSET Held(F, f)
<1>1. ASSUME NEW u \in Held(G, f)
      PROVE  u \in (Held(F, f) \ ({p} \X {d \in Fd : F[p][d] = f}))
                   \union ({p} \X {d \in Fd : G[p][d] = f})
  <2>1. PICK q \in Task, d \in Fd : u = <<q, d>> /\ G[q][d] = f
    BY HeldFinite
  <2>2. CASE q = p
    BY <2>1, <2>2
  <2>3. CASE q # p
    <3>1. <<q, d>> \in Held(F, f)
      BY <2>1, <2>3, HeldFinite
    <3> QED BY <2>1, <2>3, <3>1
  <2> QED BY <2>2, <2>3
<1>2. ASSUME NEW u \in Held(F, f), u \notin {p} \X {d \in Fd : F[p][d] = f}
      PROVE  u \in Held(G, f)
  <2>1. PICK q \in Task, d \in Fd : u = <<q, d>> /\ F[q][d] = f
    BY HeldFinite
  <2>2. q # p
    BY <1>2, <2>1
  <2>3. G[q][d] = f
    BY <2>1, <2>2
  <2> QED BY <2>1, <2>3, HeldFinite
<1>3. {p} \X {d \in Fd : G[p][d] = f} \in SUBSET Held(G, f)
  BY DEF Held
<1>4. {p} \X {d \in Fd : F[p][d] = f} \in SUBSET Held(F, f)
  BY DEF Held
<1> QED BY <1>1, <1>2, <1>3, <1>4

LEMMA CountAfter ==
    ASSUME NEW F \in FdTable, NEW G \in FdTable, NEW p \in Task,
           \A q \in Task \ {p} : G[q] = F[q], NEW f
    PROVE  Cardinality(Held(G, f))
           = (Cardinality(Held(F, f)) - UsesIn(F, p, Fd, f)) + UsesIn(G, p, Fd, f)
<1> DEFINE H == Held(F, f)
           A == {p} \X {d \in Fd : F[p][d] = f}
           B == {p} \X {d \in Fd : G[p][d] = f}
<1>1. Held(G, f) = (H \ A) \union B /\ A \in SUBSET H
  BY HeldAfter
<1>2. Fd \in SUBSET Fd
  OBVIOUS
<1>3. /\ IsFiniteSet(A) /\ Cardinality(A) = UsesIn(F, p, Fd, f)
      /\ IsFiniteSet(B) /\ Cardinality(B) = UsesIn(G, p, Fd, f)
  <2>1. {d \in Fd : F[p][d] = f} \in SUBSET Fd /\ {d \in Fd : G[p][d] = f} \in SUBSET Fd
    OBVIOUS
  <2>2. IsFiniteSet({d \in Fd : F[p][d] = f}) /\ IsFiniteSet({d \in Fd : G[p][d] = f})
    BY <2>1, Finite, FS_Subset
  <2> QED BY <2>2, Pairs DEF UsesIn
<1>4. UsesIn(F, p, Fd, f) \in Nat /\ UsesIn(G, p, Fd, f) \in Nat
  BY <1>2, UsesFinite
<1>5. IsFiniteSet(H) /\ Cardinality(H) \in Nat
  BY HeldFinite
<1>6. (H \ A) \intersect B = {}
  <2>1. ASSUME NEW u \in B, u \in H PROVE u \in A
    <3>1. PICK d \in Fd : u = <<p, d>>
      OBVIOUS
    <3>2. F[p][d] = f
      BY <2>1, <3>1, HeldFinite
    <3> QED BY <3>1, <3>2
  <2> QED BY <2>1
<1> HIDE DEF H, A, B
<1>7. H \intersect A = A
  BY <1>1
<1>8. IsFiniteSet(H \ A) /\ Cardinality(H \ A) = Cardinality(H) - Cardinality(A)
  BY <1>5, <1>7, FS_Difference
<1>9. Cardinality((H \ A) \union B)
      = Cardinality(H \ A) + (Cardinality(B) - Cardinality((H \ A) \intersect B))
  BY <1>3, <1>8, FS_Union
<1>10. Cardinality((H \ A) \intersect B) = 0
  BY <1>6, FS_EmptySet
<1>11. Cardinality(Held(G, f)) = (Cardinality(H) - Cardinality(A)) + Cardinality(B)
  BY <1>1, <1>3, <1>4, <1>5, <1>8, <1>9, <1>10
<1> QED BY <1>3, <1>11 DEF H

(* Descriptors of a task are closed.                                       *)
Cleared(F, p, D) ==
    [F EXCEPT ![p] = [d \in Fd |-> IF d \in D THEN 0 ELSE F[p][d]]]

LEMMA Clears ==
    ASSUME NEW F \in FdTable, NEW C \in [File -> Nat], Counted(F, C),
           NEW p \in Task, NEW D \in SUBSET Fd
    PROVE  /\ Cleared(F, p, D) \in FdTable
           /\ \A q \in Task \ {p} : Cleared(F, p, D)[q] = F[q]
           /\ \A d \in Fd : Cleared(F, p, D)[p][d] = IF d \in D THEN 0 ELSE F[p][d]
           /\ \A f \in File :
                 Cardinality(Held(Cleared(F, p, D), f)) = C[f] - UsesIn(F, p, D, f)
<1> DEFINE G == Cleared(F, p, D)
<1>1. F[p] \in [Fd -> File \union {0}]
  BY DEF FdTable
<1>2. [d \in Fd |-> IF d \in D THEN 0 ELSE F[p][d]] \in [Fd -> File \union {0}]
  BY <1>1
<1>3. G \in FdTable /\ \A q \in Task \ {p} : G[q] = F[q]
  BY <1>2 DEF FdTable, Cleared
<1>4. \A d \in Fd : G[p][d] = IF d \in D THEN 0 ELSE F[p][d]
  <2>1. G[p] = [d \in Fd |-> IF d \in D THEN 0 ELSE F[p][d]]
    BY DEF FdTable, Cleared
  <2> QED BY <2>1
<1> HIDE DEF G
<1>5. ASSUME NEW f \in File
      PROVE  Cardinality(Held(G, f)) = C[f] - UsesIn(F, p, D, f)
  <2> DEFINE X == {d \in Fd : F[p][d] = f}
             Y == {d \in D : F[p][d] = f}
  <2>1. Fd \in SUBSET Fd
    OBVIOUS
  <2>2. IsFiniteSet(X) /\ Cardinality(X) = UsesIn(F, p, Fd, f)
    <3>1. X \in SUBSET Fd
      OBVIOUS
    <3> QED BY <3>1, Finite, FS_Subset DEF UsesIn
  <2>3. Cardinality(Y) = UsesIn(F, p, D, f) /\ Y \in SUBSET X
    BY DEF UsesIn
  <2>4. {d \in Fd : G[p][d] = f} = X \ Y
    <3>1. f # 0
      BY Finite
    <3> QED BY <1>4, <3>1
  <2>5. UsesIn(G, p, Fd, f) = Cardinality(X \ Y)
    BY <2>4 DEF UsesIn
  <2> HIDE DEF X, Y
  <2>6. Cardinality(X \ Y) = Cardinality(X) - Cardinality(Y)
    <3>1. X \intersect Y = Y
      BY <2>3
    <3>2. Cardinality(X \ Y) = Cardinality(X) - Cardinality(X \intersect Y)
      BY <2>2, FS_Difference
    <3> QED BY <3>1, <3>2
  <2>7. Cardinality(Held(G, f))
        = (Cardinality(Held(F, f)) - UsesIn(F, p, Fd, f)) + UsesIn(G, p, Fd, f)
    BY <1>3, CountAfter
  <2>8. C[f] = Cardinality(Held(F, f)) /\ C[f] \in Nat
    BY DEF Counted
  <2>9. /\ UsesIn(F, p, Fd, f) \in Nat
        /\ UsesIn(F, p, D, f) \in Nat
    BY <2>1, UsesFinite
  <2> QED BY <2>2, <2>3, <2>5, <2>6, <2>7, <2>8, <2>9
<1> QED BY <1>3, <1>4, <1>5 DEF G

(* close, close on exec, exit: what the task has in D is closed, and the   *)
(* files of which that was all give up their inodes.                       *)
LEMMA Drops ==
    ASSUME NEW F, NEW P, NEW I, NEW C, NEW N, NEW K, Sound(F, P, I, C, N, K),
           NEW p \in Task, P[p] = "user", NEW D \in SUBSET Fd,
           NEW E, E = [f \in File |-> C[f] - UsesIn(F, p, D, f)],
           NEW L, L = [i \in Kind |-> K[i] - Cardinality(
                          {f \in {g \in File : C[g] > 0 /\ C[g] = UsesIn(F, p, D, g)} :
                              N[f] = i})]
    PROVE  /\ Sound(Cleared(F, p, D), P, I, E, N, L)
           /\ \A i \in Kind :
                 Cardinality({f \in {g \in File : C[g] > 0 /\ C[g] = UsesIn(F, p, D, g)} :
                                 N[f] = i}) \in 0 .. K[i]
<1> DEFINE G == Cleared(F, p, D)
           Gone == {g \in File : C[g] > 0 /\ C[g] = UsesIn(F, p, D, g)}
<1>1. /\ F \in FdTable /\ P \in [Task -> Place] /\ I \in [Task -> Io]
      /\ C \in [File -> Nat] /\ N \in [File -> Kind \union {None}] /\ K \in [Kind -> Nat]
      /\ Counted(F, C) /\ OwnFiles(F, P, I) /\ NothingAbsent(F, P)
  BY DEF Sound, TablesOK
<1>2. \A i \in Kind : K[i] = Cardinality(Naming(F, P, I, C, N, i))
  BY DEF Sound
<1>3. /\ G \in FdTable /\ \A q \in Task \ {p} : G[q] = F[q]
      /\ \A d \in Fd : G[p][d] = IF d \in D THEN 0 ELSE F[p][d]
      /\ \A f \in File : Cardinality(Held(G, f)) = C[f] - UsesIn(F, p, D, f)
  BY <1>1, Clears
<1> HIDE DEF G
<1>4. \A f \in File : UsesIn(F, p, D, f) \in Nat /\ UsesIn(F, p, D, f) <= C[f]
  BY <1>1, UsesFinite, HeldSome
<1>5. E \in [File -> Nat] /\ Counted(G, E)
  BY <1>1, <1>3, <1>4 DEF Counted
<1>6. OfCall(P, I, p) = {}
  BY DEF OfCall
<1>7. \A d \in Fd : G[p][d] \notin OthersIn(F, P, I, p)
  <2>1. \A d \in Fd : F[p][d] \notin OthersIn(F, P, I, p)
    BY <1>1, Split
  <2>2. 0 \notin OthersIn(F, P, I, p)
    BY Finite DEF OthersIn
  <2> QED BY <1>3, <2>1, <2>2
<1>8. OthersKeep(F, P, I, G, P, I, p)
  <2>1. \A q \in Task \ {p} : G[q] = F[q] /\ P[q] = P[q] /\ I[q] = I[q]
    BY <1>3
  <2> QED BY <1>1, <1>3, <1>7, <2>1, RowChange
<1>9. OwnFiles(G, P, I)
  BY <1>6, <1>8 DEF OwnFiles, OthersKeep
<1>10. InCalls(G, P, I) = InCalls(F, P, I) /\ InCalls(F, P, I) = OthersIn(F, P, I, p)
  <2>1. OwnIn(G, P, I, p) = {} /\ OwnIn(F, P, I, p) = {}
    BY <1>6 DEF OwnIn
  <2>2. InCalls(F, P, I) = OthersIn(F, P, I, p) \union OwnIn(F, P, I, p)
    BY <1>1, Split
  <2> QED BY <1>8, <2>1, <2>2 DEF OthersKeep
<1>11. NothingAbsent(G, P)
  BY <1>1, <1>3 DEF NothingAbsent
<1>12. \A f \in Gone : f \notin InCalls(F, P, I)
  <2> TAKE f \in Gone
  <2>1. \E d \in D : F[p][d] = f
    <3>1. UsesIn(F, p, D, f) > 0
      OBVIOUS
    <3> QED BY <3>1, UsesSome
  <2>2. \A d \in Fd : F[p][d] \notin OthersIn(F, P, I, p)
    BY <1>1, Split
  <2> QED BY <1>10, <2>1, <2>2
<1>13. ASSUME NEW i \in Kind
       PROVE  /\ Cardinality({f \in Gone : N[f] = i}) \in 0 .. K[i]
              /\ L[i] = Cardinality(Naming(G, P, I, E, N, i)) /\ L[i] \in Nat
  <2> DEFINE A == Naming(F, P, I, C, N, i)
             B == {f \in Gone : N[f] = i}
  <2>1. B \in SUBSET A
    BY <1>12 DEF Naming
  <2>2. Naming(G, P, I, E, N, i) = A \ B
    <3>1. \A f \in File : E[f] > 0 <=> C[f] > 0 /\ f \notin Gone
      <4> TAKE f \in File
      <4>1. E[f] = C[f] - UsesIn(F, p, D, f) /\ C[f] \in Nat
        BY <1>1
      <4> QED BY <1>4, <4>1
    <3> QED BY <1>10, <3>1 DEF Naming
  <2>3. IsFiniteSet(A) /\ A \in SUBSET File
    <3>1. A \in SUBSET File
      BY DEF Naming
    <3> QED BY <3>1, Finite, FS_Subset
  <2>4. K[i] = Cardinality(A) /\ L[i] = K[i] - Cardinality(B)
    BY <1>2
  <2> HIDE DEF A, B
  <2>5. Cardinality(A \ B) = Cardinality(A) - Cardinality(B) /\ IsFiniteSet(A \ B)
    <3>1. A \intersect B = B
      BY <2>1
    <3> QED BY <2>3, <3>1, FS_Difference
  <2>6. Cardinality(A \ B) \in Nat
    BY <2>5, FS_CardinalityType
  <2>7. Cardinality(B) \in Nat /\ Cardinality(B) <= Cardinality(A) /\ Cardinality(A) \in Nat
    BY <2>1, <2>3, FS_Subset, FS_CardinalityType
  <2>8. L[i] = Cardinality(A \ B) /\ Cardinality(B) \in 0 .. K[i]
    BY <2>4, <2>5, <2>6, <2>7
  <2> QED BY <2>2, <2>6, <2>8 DEF B
<1>14. L \in [Kind -> Nat]
  <2>1. \A i \in Kind : L[i] \in Nat
    BY <1>13
  <2> QED BY <2>1
<1>15. TablesOK(G, P, I, E, N, L)
  BY <1>1, <1>3, <1>5, <1>14 DEF TablesOK
<1> QED BY <1>5, <1>9, <1>11, <1>13, <1>15 DEF Sound, G
(* The tables as they are, of a task that is in no call of open or pipe.   *)
LEMMA NoCall ==
    ASSUME NEW F, NEW P, NEW I, OwnFiles(F, P, I),
           NEW p \in Task, P[p] \notin {"open", "pipe"}
    PROVE  /\ OfCall(P, I, p) = {} /\ OwnIn(F, P, I, p) = {}
           /\ InCalls(F, P, I) = OthersIn(F, P, I, p)
           /\ \A d \in Fd : F[p][d] \notin InCalls(F, P, I)
<1>1. OfCall(P, I, p) = {}
  BY DEF OfCall
<1>2. OwnIn(F, P, I, p) = {}
  BY <1>1 DEF OwnIn
<1>3. InCalls(F, P, I) = OthersIn(F, P, I, p)
  BY <1>2, Split
<1> QED BY <1>1, <1>2, <1>3, Split

(* dup: one more descriptor names a file that the task has.                *)
LEMMA Adds ==
    ASSUME NEW F, NEW P, NEW I, NEW C, NEW N, NEW K, Sound(F, P, I, C, N, K),
           NEW p \in Task, P[p] = "user", NEW d \in Fd, F[p][d] # 0,
           NEW e \in Fd, F[p][e] = 0,
           NEW G, G = [F EXCEPT ![p] = [F[p] EXCEPT ![e] = F[p][d]]],
           NEW E, E = [C EXCEPT ![F[p][d]] = @ + 1]
    PROVE  Sound(G, P, I, E, N, K)
<1> DEFINE f == F[p][d]
<1>1. /\ F \in FdTable /\ P \in [Task -> Place] /\ I \in [Task -> Io]
      /\ C \in [File -> Nat] /\ N \in [File -> Kind \union {None}] /\ K \in [Kind -> Nat]
      /\ Counted(F, C) /\ OwnFiles(F, P, I) /\ NothingAbsent(F, P)
  BY DEF Sound, TablesOK
<1>2. F[p] \in [Fd -> File \union {0}] /\ f \in File /\ e # d
  BY <1>1 DEF FdTable
<1>3. /\ G \in FdTable /\ \A q \in Task \ {p} : G[q] = F[q]
      /\ \A c \in Fd : G[p][c] = IF c = e THEN f ELSE F[p][c]
  BY <1>1, <1>2 DEF FdTable
<1> HIDE DEF f
<1>4. ASSUME NEW g \in File
      PROVE  Cardinality(Held(G, g)) = IF g = f THEN C[g] + 1 ELSE C[g]
  <2> DEFINE X == {c \in Fd : F[p][c] = g}
  <2>1. X \in SUBSET Fd /\ IsFiniteSet(X) /\ Cardinality(X) \in Nat
    <3>1. X \in SUBSET Fd
      OBVIOUS
    <3> QED BY <3>1, Finite, FS_Subset, FS_CardinalityType
  <2>2. {c \in Fd : G[p][c] = g} = IF g = f THEN X \union {e} ELSE X
    <3>1. g # 0
      BY Finite
    <3> QED BY <1>3, <3>1
  <2>3. e \notin X
    BY Finite
  <2>4. UsesIn(F, p, Fd, g) = Cardinality(X)
    BY DEF UsesIn
  <2>5. UsesIn(G, p, Fd, g) = IF g = f THEN Cardinality(X \union {e}) ELSE Cardinality(X)
    BY <2>2 DEF UsesIn
  <2> HIDE DEF X
  <2>6. Cardinality(X \union {e}) = Cardinality(X) + 1
    BY <2>1, <2>3, FS_AddElement
  <2>7. Cardinality(Held(G, g))
        = (Cardinality(Held(F, g)) - UsesIn(F, p, Fd, g)) + UsesIn(G, p, Fd, g)
    <3>1. F \in FdTable
      BY <1>1
    <3> QED BY <1>3, <3>1, CountAfter
  <2>8. C[g] = Cardinality(Held(F, g)) /\ C[g] \in Nat
    BY <1>1 DEF Counted
  <2> QED BY <2>1, <2>4, <2>5, <2>6, <2>7, <2>8
<1>5. /\ E \in [File -> Nat] /\ Counted(G, E)
      /\ \A g \in File : E[g] = IF g = f THEN C[g] + 1 ELSE C[g]
  <2>1. \A g \in File : E[g] = IF g = f THEN C[g] + 1 ELSE C[g]
    BY <1>1 DEF f
  <2>2. E \in [File -> Nat]
    BY <1>1, <1>2 DEF f
  <2> QED BY <1>4, <2>1, <2>2 DEF Counted
<1>6. /\ OfCall(P, I, p) = {} /\ InCalls(F, P, I) = OthersIn(F, P, I, p)
      /\ \A c \in Fd : F[p][c] \notin OthersIn(F, P, I, p)
  <2>1. P[p] \notin {"open", "pipe"}
    OBVIOUS
  <2> QED BY <1>1, <2>1, NoCall
<1>7. OthersKeep(F, P, I, G, P, I, p)
  <2>1. \A q \in Task \ {p} : G[q] = F[q] /\ P[q] = P[q] /\ I[q] = I[q]
    BY <1>3
  <2>2. \A c \in Fd : G[p][c] \notin OthersIn(F, P, I, p)
    BY <1>3, <1>6 DEF f
  <2> QED BY <1>1, <1>3, <2>1, <2>2, RowChange
<1>8. OwnFiles(G, P, I)
  BY <1>6, <1>7 DEF OwnFiles, OthersKeep
<1>9. InCalls(G, P, I) = InCalls(F, P, I)
  BY <1>6, <1>7 DEF OthersKeep, OwnIn
<1>10. \A g \in File : E[g] > 0 <=> C[g] > 0
  <2>1. C[f] > 0
    BY <1>1, <1>2, HeldSome DEF f
  <2> QED BY <1>1, <1>5, <2>1
<1>11. \A i \in Kind : Naming(G, P, I, E, N, i) = Naming(F, P, I, C, N, i)
  BY <1>9, <1>10 DEF Naming
<1>12. NothingAbsent(G, P)
  BY <1>1, <1>3 DEF NothingAbsent
<1>13. \A i \in Kind : K[i] = Cardinality(Naming(F, P, I, C, N, i))
  BY DEF Sound
<1> QED BY <1>1, <1>3, <1>5, <1>8, <1>11, <1>12, <1>13 DEF Sound, TablesOK

(* fork: a slot that is not used gets the descriptors of the father.       *)
Inherited(F, p, q) == [F EXCEPT ![q] = F[p]]

LEMMA Forks ==
    ASSUME NEW F, NEW P, NEW I, NEW C, NEW N, NEW K, Sound(F, P, I, C, N, K),
           NEW p \in Task, P[p] = "user", NEW q \in Task, P[q] = "absent"
    PROVE  Sound(Inherited(F, p, q), [P EXCEPT ![q] = "user"], I,
                 [f \in File |-> C[f] + UsesIn(F, p, Fd, f)], N, K)
<1> DEFINE G == Inherited(F, p, q)
           Q == [P EXCEPT ![q] = "user"]
           E == [f \in File |-> C[f] + UsesIn(F, p, Fd, f)]
<1>1. /\ F \in FdTable /\ P \in [Task -> Place] /\ I \in [Task -> Io]
      /\ C \in [File -> Nat] /\ N \in [File -> Kind \union {None}] /\ K \in [Kind -> Nat]
      /\ Counted(F, C) /\ OwnFiles(F, P, I) /\ NothingAbsent(F, P)
  BY DEF Sound, TablesOK
<1>2. F[p] \in [Fd -> File \union {0}]
  BY <1>1 DEF FdTable
<1>3. /\ G \in FdTable /\ \A r \in Task \ {q} : G[r] = F[r]
      /\ G[q] = F[p]
  BY <1>1, <1>2 DEF FdTable, Inherited
<1>4. /\ Q \in [Task -> Place] /\ Q[q] = "user" /\ \A r \in Task \ {q} : Q[r] = P[r]
  BY <1>1 DEF Place
<1> HIDE DEF G, Q
<1>5. Fd \in SUBSET Fd
  OBVIOUS
<1>6. \A f \in File : UsesIn(F, p, Fd, f) \in Nat /\ UsesIn(F, p, Fd, f) <= C[f]
  BY <1>1, <1>5, UsesFinite, HeldSome
<1>7. ASSUME NEW f \in File
      PROVE  Cardinality(Held(G, f)) = C[f] + UsesIn(F, p, Fd, f)
  <2>1. UsesIn(F, q, Fd, f) = 0
    <3>1. {d \in Fd : F[q][d] = f} = {}
      BY <1>1, Finite DEF NothingAbsent
    <3> QED BY <3>1, FS_EmptySet DEF UsesIn
  <2>2. UsesIn(G, q, Fd, f) = UsesIn(F, p, Fd, f)
    BY <1>3 DEF UsesIn
  <2>3. Cardinality(Held(G, f))
        = (Cardinality(Held(F, f)) - UsesIn(F, q, Fd, f)) + UsesIn(G, q, Fd, f)
    <3>1. F \in FdTable
      BY <1>1
    <3> QED BY <1>3, <3>1, CountAfter
  <2>4. C[f] = Cardinality(Held(F, f)) /\ C[f] \in Nat
    BY <1>1 DEF Counted
  <2> QED BY <1>6, <2>1, <2>2, <2>3, <2>4
<1>8. E \in [File -> Nat] /\ Counted(G, E)
  <2>1. \A f \in File : E[f] = C[f] + UsesIn(F, p, Fd, f) /\ C[f] \in Nat
    BY <1>1
  <2>2. \A f \in File : E[f] \in Nat
    BY <1>6, <2>1
  <2>3. E \in [File -> Nat]
    BY <2>2
  <2> QED BY <1>7, <2>1, <2>3 DEF Counted
<1>9. /\ OfCall(P, I, q) = {} /\ InCalls(F, P, I) = OthersIn(F, P, I, q)
      /\ \A d \in Fd : F[p][d] \notin InCalls(F, P, I)
  <2>1. P[p] \notin {"open", "pipe"} /\ P[q] \notin {"open", "pipe"}
    OBVIOUS
  <2> QED BY <1>1, <2>1, NoCall
<1>10. OthersKeep(F, P, I, G, Q, I, q)
  <2>1. \A r \in Task \ {q} : G[r] = F[r] /\ Q[r] = P[r] /\ I[r] = I[r]
    BY <1>3, <1>4
  <2>2. \A d \in Fd : G[q][d] \notin OthersIn(F, P, I, q)
    BY <1>3, <1>9
  <2> QED BY <1>1, <1>3, <2>1, <2>2, RowChange
<1>11. OfCall(Q, I, q) = {}
  BY <1>4 DEF OfCall
<1>12. OwnFiles(G, Q, I)
  BY <1>4, <1>10, <1>11 DEF OwnFiles, OthersKeep
<1>13. InCalls(G, Q, I) = InCalls(F, P, I)
  BY <1>9, <1>10, <1>11 DEF OthersKeep, OwnIn
<1>14. \A f \in File : E[f] > 0 <=> C[f] > 0
  BY <1>1, <1>6
<1>15. \A i \in Kind : Naming(G, Q, I, E, N, i) = Naming(F, P, I, C, N, i)
  BY <1>13, <1>14 DEF Naming
<1>16. NothingAbsent(G, Q)
  BY <1>1, <1>3, <1>4 DEF NothingAbsent
<1>17. \A i \in Kind : K[i] = Cardinality(Naming(F, P, I, C, N, i))
  BY DEF Sound
<1> QED BY <1>1, <1>3, <1>4, <1>8, <1>12, <1>15, <1>16, <1>17 DEF Sound, TablesOK, G, Q
(***************************************************************************)
(* open and pipe: the descriptors D of the task take files that were free. *)
(***************************************************************************)
Taking(F, p, D, g) == [F EXCEPT ![p] = [d \in Fd |-> IF d \in D THEN g[d] ELSE F[p][d]]]

LEMMA Reserves ==
    ASSUME NEW F, NEW P, NEW I, NEW C, NEW N, NEW K, Sound(F, P, I, C, N, K),
           NEW p \in Task, P[p] = "user", NEW D \in SUBSET Fd, NEW g,
           \A d \in D : F[p][d] = 0 /\ g[d] \in File /\ C[g[d]] = 0,
           \A c, d \in D : g[c] = g[d] => c = d,
           NEW Q \in [Task -> Place], NEW J \in [Task -> Io],
           \A q \in Task \ {p} : Q[q] = P[q] /\ J[q] = I[q],
           OfCall(Q, J, p) = D, Q[p] # "absent",
           Q[p] = "pipe" => J[p].chunk # J[p].at,
           NEW E \in [File -> Nat],
           \A f \in File : E[f] = IF \E d \in D : g[d] = f THEN 1 ELSE C[f]
    PROVE  Sound(Taking(F, p, D, g), Q, J, E, N, K)
<1> DEFINE G == Taking(F, p, D, g)
<1>1. /\ F \in FdTable /\ P \in [Task -> Place] /\ I \in [Task -> Io]
      /\ C \in [File -> Nat] /\ N \in [File -> Kind \union {None}] /\ K \in [Kind -> Nat]
      /\ Counted(F, C) /\ OwnFiles(F, P, I) /\ NothingAbsent(F, P)
  BY DEF Sound, TablesOK
<1>2. F[p] \in [Fd -> File \union {0}]
  BY <1>1 DEF FdTable
<1>3. /\ G \in FdTable /\ \A q \in Task \ {p} : G[q] = F[q]
      /\ \A c \in Fd : G[p][c] = IF c \in D THEN g[c] ELSE F[p][c]
  <2>1. [d \in Fd |-> IF d \in D THEN g[d] ELSE F[p][d]] \in [Fd -> File \union {0}]
    BY <1>2
  <2> QED BY <1>1, <2>1 DEF FdTable, Taking
<1> HIDE DEF G
<1>4. \A d \in D : \A c \in Fd : G[p][c] = g[d] <=> c = d
  <2> TAKE d \in D
  <2> TAKE c \in Fd
  <2>1. CASE c \in D
    BY <1>3, <2>1
  <2>2. CASE c \notin D
    <3>1. C[g[d]] = 0 /\ g[d] \in File
      OBVIOUS
    <3>2. F[p][c] # g[d]
      BY <1>1, <3>1, HeldSome
    <3> QED BY <1>3, <2>2, <3>2
  <2> QED BY <2>1, <2>2
<1>5. ASSUME NEW d \in D
      PROVE  Held(G, g[d]) = {<<p, d>>}
  <2>1. C[g[d]] = 0 /\ g[d] \in File
    OBVIOUS
  <2>2. Held(F, g[d]) = {}
    <3>1. Cardinality(Held(F, g[d])) = 0
      BY <1>1, <2>1 DEF Counted
    <3> QED BY <3>1, HeldFinite, FS_EmptySet
  <2>3. {c \in Fd : G[p][c] = g[d]} = {d}
    BY <1>4
  <2>4. Held(G, g[d]) = (Held(F, g[d]) \ ({p} \X {c \in Fd : F[p][c] = g[d]}))
                        \union ({p} \X {c \in Fd : G[p][c] = g[d]})
    BY <1>1, <1>3, HeldAfter
  <2>5. Held(G, g[d]) = {p} \X {d}
    BY <2>2, <2>3, <2>4
  <2> QED BY <2>5
<1>6. ASSUME NEW f \in File
      PROVE  Cardinality(Held(G, f)) = E[f]
  <2>1. CASE \E d \in D : g[d] = f
    <3>1. PICK d \in D : g[d] = f
      BY <2>1
    <3>2. Held(G, f) = {<<p, d>>}
      BY <1>5, <3>1
    <3>3. Cardinality({<<p, d>>}) = 1
      BY FS_Singleton, Zenon
    <3>4. E[f] = 1
      BY <3>1
    <3> QED BY <3>2, <3>3, <3>4
  <2>2. CASE ~\E d \in D : g[d] = f
    <3>1. \A c \in Fd : G[p][c] = f <=> F[p][c] = f
      BY <1>3, <2>2, Finite
    <3>2. UsesIn(G, p, Fd, f) = UsesIn(F, p, Fd, f)
      BY <3>1 DEF UsesIn
    <3>3. UsesIn(F, p, Fd, f) \in Nat
      <4>1. Fd \in SUBSET Fd
        OBVIOUS
      <4> QED BY <4>1, UsesFinite
    <3>4. Cardinality(Held(G, f))
          = (Cardinality(Held(F, f)) - UsesIn(F, p, Fd, f)) + UsesIn(G, p, Fd, f)
      <4>1. F \in FdTable
        BY <1>1
      <4> QED BY <1>3, <4>1, CountAfter
    <3>5. C[f] = Cardinality(Held(F, f)) /\ C[f] \in Nat
      BY <1>1 DEF Counted
    <3> QED BY <2>2, <3>2, <3>3, <3>4, <3>5
  <2> QED BY <2>1, <2>2
<1>7. Counted(G, E)
  BY <1>6 DEF Counted
<1>8. /\ OfCall(P, I, p) = {} /\ InCalls(F, P, I) = OthersIn(F, P, I, p)
      /\ \A c \in Fd : F[p][c] \notin OthersIn(F, P, I, p)
  <2>1. P[p] \notin {"open", "pipe"}
    OBVIOUS
  <2> QED BY <1>1, <2>1, NoCall
<1>9. \A d \in D : g[d] \notin OthersIn(F, P, I, p)
  <2> TAKE d \in D
  <2>1. ASSUME g[d] \in OthersIn(F, P, I, p) PROVE FALSE
    <3>1. PICK q \in Task \ {p} : \E c \in OfCall(P, I, q) : F[q][c] = g[d]
      BY <2>1 DEF OthersIn
    <3>2. PICK c \in OfCall(P, I, q) : F[q][c] = g[d]
      BY <3>1
    <3>3. c \in Fd
      BY <1>1, <3>2 DEF OwnFiles
    <3>4. g[d] \in File /\ C[g[d]] = 0
      OBVIOUS
    <3> QED BY <1>1, <3>2, <3>3, <3>4, HeldSome
  <2> QED BY <2>1
<1>10. OthersKeep(F, P, I, G, Q, J, p)
  <2>1. \A q \in Task \ {p} : G[q] = F[q] /\ Q[q] = P[q] /\ J[q] = I[q]
    BY <1>3
  <2>2. \A c \in Fd : G[p][c] \notin OthersIn(F, P, I, p)
    BY <1>3, <1>8, <1>9
  <2> QED BY <1>1, <1>3, <2>1, <2>2, RowChange
<1>11. OwnFiles(G, Q, J)
  <2>1. \A d \in D : d \in Fd /\ G[p][d] \in File /\ Held(G, G[p][d]) = {<<p, d>>}
    BY <1>3, <1>5
  <2> QED BY <1>10, <2>1 DEF OwnFiles, OthersKeep
<1>12. InCalls(G, Q, J) = InCalls(F, P, I) \union {f \in File : \E d \in D : g[d] = f}
  <2>1. OwnIn(G, Q, J, p) = {f \in File : \E d \in D : g[d] = f}
    BY <1>3 DEF OwnIn
  <2> QED BY <1>8, <1>10, <2>1 DEF OthersKeep
<1>13. \A i \in Kind : Naming(G, Q, J, E, N, i) = Naming(F, P, I, C, N, i)
  <2> TAKE i \in Kind
  <2>1. \A f \in File : (\E d \in D : g[d] = f) => C[f] = 0
    OBVIOUS
  <2> QED BY <1>1, <1>12, <2>1 DEF Naming
<1>14. NothingAbsent(G, Q)
  BY <1>1, <1>3 DEF NothingAbsent
<1>15. \A i \in Kind : K[i] = Cardinality(Naming(F, P, I, C, N, i))
  BY DEF Sound
<1> QED BY <1>1, <1>3, <1>7, <1>11, <1>13, <1>14, <1>15 DEF Sound, TablesOK, G

(* What a call of open or pipe under way has taken.                        *)
LEMMA CallFacts ==
    ASSUME NEW F, NEW C, NEW P, NEW I, Counted(F, C), OwnFiles(F, P, I), NEW p \in Task
    PROVE  /\ OfCall(P, I, p) \in SUBSET Fd
           /\ \A f \in OwnIn(F, P, I, p) :
                 C[f] = 1 /\ UsesIn(F, p, OfCall(P, I, p), f) = 1
           /\ \A f \in File \ OwnIn(F, P, I, p) : UsesIn(F, p, OfCall(P, I, p), f) = 0
<1>1. OfCall(P, I, p) \in SUBSET Fd
  BY DEF OwnFiles
<1>2. ASSUME NEW f \in OwnIn(F, P, I, p)
      PROVE  C[f] = 1 /\ UsesIn(F, p, OfCall(P, I, p), f) = 1
  <2>1. PICK d \in OfCall(P, I, p) : F[p][d] = f
    BY DEF OwnIn
  <2>2. f \in File /\ Held(F, f) = {<<p, d>>}
    BY <2>1 DEF OwnFiles, OwnIn
  <2>3. C[f] = 1
    BY <2>2, FS_Singleton DEF Counted
  <2>4. UsesIn(F, p, OfCall(P, I, p), f) > 0
    BY <1>1, <2>1, UsesSome
  <2>5. /\ UsesIn(F, p, OfCall(P, I, p), f) \in Nat
        /\ UsesIn(F, p, OfCall(P, I, p), f) <= Cardinality(Held(F, f))
    BY <1>1, UsesFinite
  <2>6. Cardinality(Held(F, f)) = 1
    BY <2>2, FS_Singleton
  <2> QED BY <2>3, <2>4, <2>5, <2>6
<1>3. ASSUME NEW f \in File, f \notin OwnIn(F, P, I, p)
      PROVE  UsesIn(F, p, OfCall(P, I, p), f) = 0
  <2>1. ~\E d \in OfCall(P, I, p) : F[p][d] = f
    BY <1>3 DEF OwnIn
  <2>2. UsesIn(F, p, OfCall(P, I, p), f) \in Nat
    BY <1>1, UsesFinite
  <2>3. ~(UsesIn(F, p, OfCall(P, I, p), f) > 0)
    BY <1>1, <2>1, UsesSome
  <2> QED BY <2>2, <2>3
<1> QED BY <1>1, <1>2, <1>3
(* The call fails, and gives back what it had taken.                       *)
LEMMA GivesBack ==
    ASSUME NEW F, NEW P, NEW I, NEW C, NEW N, NEW K, Sound(F, P, I, C, N, K),
           NEW p \in Task, P[p] \in {"open", "pipe"},
           NEW Q \in [Task -> Place], NEW J \in [Task -> Io],
           \A q \in Task \ {p} : Q[q] = P[q] /\ J[q] = I[q], Q[p] = "user"
    PROVE  Sound(Cleared(F, p, OfCall(P, I, p)), Q, J,
                 [f \in File |-> IF UsesIn(F, p, OfCall(P, I, p), f) > 0 THEN 0 ELSE C[f]],
                 N, K)
<1> DEFINE E == [f \in File |-> IF UsesIn(F, p, OfCall(P, I, p), f) > 0 THEN 0 ELSE C[f]]
           D == OfCall(P, I, p)
           G == Cleared(F, p, D)
           Own == OwnIn(F, P, I, p)
<1>1. /\ F \in FdTable /\ P \in [Task -> Place] /\ I \in [Task -> Io]
      /\ C \in [File -> Nat] /\ N \in [File -> Kind \union {None}] /\ K \in [Kind -> Nat]
      /\ Counted(F, C) /\ OwnFiles(F, P, I) /\ NothingAbsent(F, P)
  BY DEF Sound, TablesOK
<1>2. /\ D \in SUBSET Fd
      /\ \A f \in Own : C[f] = 1 /\ UsesIn(F, p, D, f) = 1
      /\ \A f \in File \ Own : UsesIn(F, p, D, f) = 0
  BY <1>1, CallFacts
<1>3. /\ G \in FdTable /\ \A q \in Task \ {p} : G[q] = F[q]
      /\ \A d \in Fd : G[p][d] = IF d \in D THEN 0 ELSE F[p][d]
      /\ \A f \in File : Cardinality(Held(G, f)) = C[f] - UsesIn(F, p, D, f)
  BY <1>1, <1>2, Clears
<1>4. Own \in SUBSET File
  BY DEF OwnIn
<1>5. \A f \in File : E[f] = IF f \in Own THEN 0 ELSE C[f]
  BY <1>2
<1>6. InCalls(F, P, I) = OthersIn(F, P, I, p) \union Own
  BY <1>1, Split
<1>15. E = [f \in File |-> E[f]]
  OBVIOUS
<1> HIDE DEF G, D, E, Own
<1>7. E \in [File -> Nat] /\ Counted(G, E)
  <2>1. \A f \in File : C[f] \in Nat
    BY <1>1
  <2>2. \A f \in File : E[f] = Cardinality(Held(G, f))
    BY <1>2, <1>3, <1>5, <2>1
  <2>3. \A f \in File : E[f] \in Nat
    BY <1>5, <2>1
  <2>4. E \in [File -> Nat]
    BY <1>15, <2>3
  <2> QED BY <2>2, <2>4 DEF Counted
<1>8. OfCall(Q, J, p) = {}
  BY DEF OfCall
<1>9. OthersKeep(F, P, I, G, Q, J, p)
  <2>1. \A q \in Task \ {p} : G[q] = F[q] /\ Q[q] = P[q] /\ J[q] = I[q]
    BY <1>3
  <2>2. \A d \in Fd : F[p][d] \notin OthersIn(F, P, I, p)
    BY <1>1, Split
  <2>3. 0 \notin OthersIn(F, P, I, p)
    BY Finite DEF OthersIn
  <2>4. \A d \in Fd : G[p][d] \notin OthersIn(F, P, I, p)
    BY <1>3, <2>2, <2>3
  <2> QED BY <1>1, <1>3, <2>1, <2>4, RowChange
<1>10. OwnFiles(G, Q, J)
  BY <1>8, <1>9 DEF OwnFiles, OthersKeep
<1>11. InCalls(G, Q, J) = OthersIn(F, P, I, p)
  BY <1>8, <1>9 DEF OthersKeep, OwnIn
<1>12. \A i \in Kind : Naming(G, Q, J, E, N, i) = Naming(F, P, I, C, N, i)
  <2>1. \A f \in File : f \notin InCalls(G, Q, J) /\ E[f] > 0
                        <=> f \notin InCalls(F, P, I) /\ C[f] > 0
    BY <1>5, <1>6, <1>11
  <2> QED BY <2>1 DEF Naming
<1>13. NothingAbsent(G, Q)
  BY <1>1, <1>3 DEF NothingAbsent
<1>14. \A i \in Kind : K[i] = Cardinality(Naming(F, P, I, C, N, i))
  BY DEF Sound
<1>16. Sound(G, Q, J, E, N, K)
  BY <1>1, <1>3, <1>7, <1>10, <1>12, <1>13, <1>14 DEF Sound, TablesOK
<1> QED BY <1>16 DEF E, G, D

(* The call succeeds: what it has taken names an inode from now on.        *)
LEMMA Commits ==
    ASSUME NEW F, NEW P, NEW I, NEW C, NEW N, NEW K, Sound(F, P, I, C, N, K),
           NEW p \in Task, P[p] \in {"open", "pipe"},
           NEW Q \in [Task -> Place], NEW J \in [Task -> Io],
           \A q \in Task \ {p} : Q[q] = P[q] /\ J[q] = I[q], Q[p] = "user",
           NEW k \in Kind, NEW M \in [File -> Kind \union {None}],
           \A f \in File : M[f] = IF f \in OwnIn(F, P, I, p) THEN k ELSE N[f],
           NEW L \in [Kind -> Nat],
           \A i \in Kind : L[i] = IF i = k THEN K[i] + Cardinality(OwnIn(F, P, I, p))
                                  ELSE K[i]
    PROVE  Sound(F, Q, J, C, M, L)
<1> DEFINE Own == OwnIn(F, P, I, p)
<1>1. /\ F \in FdTable /\ P \in [Task -> Place] /\ I \in [Task -> Io]
      /\ C \in [File -> Nat] /\ N \in [File -> Kind \union {None}] /\ K \in [Kind -> Nat]
      /\ Counted(F, C) /\ OwnFiles(F, P, I) /\ NothingAbsent(F, P)
  BY DEF Sound, TablesOK
<1>2. \A f \in Own : C[f] = 1
  BY <1>1, CallFacts
<1>3. /\ InCalls(F, P, I) = OthersIn(F, P, I, p) \union Own
      /\ \A d \in Fd : F[p][d] \notin OthersIn(F, P, I, p)
      /\ OthersIn(F, P, I, p) \intersect Own = {}
  BY <1>1, Split
<1>4. Own \in SUBSET File /\ IsFiniteSet(Own) /\ Cardinality(Own) \in Nat
  <2>1. Own \in SUBSET File
    BY DEF OwnIn
  <2> QED BY <2>1, Finite, FS_Subset, FS_CardinalityType
<1> HIDE DEF Own
<1>5. OfCall(Q, J, p) = {}
  BY DEF OfCall
<1>6. OthersKeep(F, P, I, F, Q, J, p)
  <2>1. \A q \in Task \ {p} : F[q] = F[q] /\ Q[q] = P[q] /\ J[q] = I[q]
    OBVIOUS
  <2> QED BY <1>1, <1>3, <2>1, RowChange
<1>7. OwnFiles(F, Q, J)
  BY <1>5, <1>6 DEF OwnFiles, OthersKeep
<1>8. InCalls(F, Q, J) = OthersIn(F, P, I, p)
  BY <1>5, <1>6 DEF OthersKeep, OwnIn
<1>9. ASSUME NEW i \in Kind
      PROVE  L[i] = Cardinality(Naming(F, Q, J, C, M, i))
  <2> DEFINE A == Naming(F, P, I, C, N, i)
  <2>1. IsFiniteSet(A) /\ Cardinality(A) \in Nat /\ K[i] = Cardinality(A)
    <3>1. A \in SUBSET File
      BY DEF Naming
    <3>2. K[i] = Cardinality(A)
      BY DEF Sound
    <3> QED BY <3>1, <3>2, Finite, FS_Subset, FS_CardinalityType
  <2>2. A \intersect Own = {}
    BY <1>3 DEF Naming
  <2>3. \A f \in File : M[f] = IF f \in Own THEN k ELSE N[f]
    BY DEF Own
  <2>4. Naming(F, Q, J, C, M, i) = IF i = k THEN A \union Own ELSE A
    BY <1>2, <1>3, <1>4, <1>8, <2>3 DEF Naming
  <2>5. L[i] = IF i = k THEN K[i] + Cardinality(Own) ELSE K[i]
    BY DEF Own
  <2> HIDE DEF A
  <2>6. Cardinality(A \union Own) = Cardinality(A) + (Cardinality(Own) - Cardinality(A \intersect Own))
    BY <1>4, <2>1, FS_Union
  <2>7. Cardinality(A \intersect Own) = 0
    BY <2>2, FS_EmptySet
  <2> QED BY <1>4, <2>1, <2>4, <2>5, <2>6, <2>7
<1>10. NothingAbsent(F, Q)
  BY <1>1 DEF NothingAbsent
<1> QED BY <1>1, <1>7, <1>9, <1>10 DEF Sound, TablesOK

(* Calls that touch no table: a task that is in no call of open or pipe    *)
(* goes on, or ends with nothing open.                                     *)
LEMMA Quiet ==
    ASSUME NEW F, NEW P, NEW I, NEW C, NEW N, NEW K, Sound(F, P, I, C, N, K),
           NEW p \in Task, P[p] \notin {"open", "pipe"},
           NEW Q \in [Task -> Place], NEW J \in [Task -> Io],
           \A q \in Task \ {p} : Q[q] = P[q] /\ J[q] = I[q],
           Q[p] \notin {"open", "pipe"},
           Q[p] = "absent" => \A d \in Fd : F[p][d] = 0
    PROVE  Sound(F, Q, J, C, N, K)
<1>1. /\ F \in FdTable /\ P \in [Task -> Place] /\ I \in [Task -> Io]
      /\ C \in [File -> Nat] /\ N \in [File -> Kind \union {None}] /\ K \in [Kind -> Nat]
      /\ Counted(F, C) /\ OwnFiles(F, P, I) /\ NothingAbsent(F, P)
  BY DEF Sound, TablesOK
<1>2. \A q \in Task : OfCall(Q, J, q) = OfCall(P, I, q)
  BY DEF OfCall
<1>3. OwnFiles(F, Q, J)
  <2>1. ASSUME NEW q \in Task, Q[q] = "pipe" PROVE J[q].chunk # J[q].at
    BY <1>1, <2>1 DEF OwnFiles
  <2> QED BY <1>1, <1>2, <2>1 DEF OwnFiles
<1>4. InCalls(F, Q, J) = InCalls(F, P, I)
  BY <1>2 DEF InCalls
<1>5. \A i \in Kind : Naming(F, Q, J, C, N, i) = Naming(F, P, I, C, N, i)
  BY <1>4 DEF Naming
<1>6. NothingAbsent(F, Q)
  BY <1>1 DEF NothingAbsent
<1>7. \A i \in Kind : K[i] = Cardinality(Naming(F, P, I, C, N, i))
  BY DEF Sound
<1> QED BY <1>1, <1>3, <1>5, <1>6, <1>7 DEF Sound, TablesOK
-----------------------------------------------------------------------------
(***************************************************************************)
(* The invariant of the specification, and its steps.                      *)
(***************************************************************************)
Typed ==
    /\ cpu \in Task \union {None} /\ sigpipe \in SUBSET Task /\ asleep \in SUBSET Task
    /\ cloexec \in [Task -> SUBSET Fd]
    /\ head \in 0 .. Page - 1 /\ tail \in 0 .. Page - 1

FilesInv == Sound(fd, pc, io, fcount, finode, icount) /\ Typed

(* Least is what it says, of a set that is not empty. *)
LEMMA LeastIn ==
    ASSUME NEW S \in SUBSET Nat, S # {}
    PROVE  Least(S) \in S /\ \A x \in S : Least(S) <= x
<1> DEFINE Less == OpToRel(<, Nat)
<1>1. IsWellFoundedOn(Less, Nat)
  BY NatLessThanWellFounded, Zenon
<1>2. \A i, j \in Nat : j < i => <<j, i>> \in Less
  BY Zenon DEF OpToRel
<1> HIDE DEF Less
<1>3. PICK i \in S : \A j \in S : ~(<<j, i>> \in Less)
  BY <1>1, WFMin, Zenon
<1>4. ASSUME NEW j \in S PROVE i <= j
  <2>1. ~(j < i)
    BY <1>2, <1>3, Zenon
  <2> QED BY <2>1
<1>5. \E x \in S : \A y \in S : x <= y
  BY <1>4
<1> QED BY <1>5, Zenon DEF Least

(* The ring: positions go round. *)
SizeOf(h, t) == (h + Page - t) % Page

Around(x) == IF x < Page THEN x ELSE x - Page

LEMMA Wraps ==
    /\ Page \in Nat \ {0}
    /\ \A x \in Nat : x < 2 * Page => x % Page = Around(x) /\ Around(x) \in 0 .. Page - 1
    /\ \A x \in 0 .. 2 * Page - 1 : (x + Page) % Page = Around(x)
<1>1. Page \in Nat \ {0}
  BY FilesAssumption
<1>2. \A x \in 0 .. Page - 1 : x % Page = x /\ (x + Page) % Page = x /\ (x + Page + Page) % Page = x
  BY <1>1
<1>3. ASSUME NEW x \in Nat, x < 2 * Page
      PROVE  x % Page = Around(x) /\ Around(x) \in 0 .. Page - 1
  <2>1. CASE x < Page
    BY <1>1, <1>2, <2>1 DEF Around
  <2>2. CASE x >= Page
    <3>1. x - Page \in 0 .. Page - 1 /\ (x - Page) + Page = x
      BY <1>1, <1>3, <2>2
    <3> QED BY <1>1, <1>2, <2>2, <3>1 DEF Around
  <2> QED BY <1>1, <2>1, <2>2
<1>4. ASSUME NEW x \in 0 .. 2 * Page - 1
      PROVE  (x + Page) % Page = Around(x)
  <2>1. CASE x < Page
    BY <1>1, <1>2, <2>1 DEF Around
  <2>2. CASE x >= Page
    <3>1. x - Page \in 0 .. Page - 1 /\ ((x - Page) + Page) + Page = x + Page
      BY <1>1, <2>2
    <3> QED BY <1>1, <1>2, <2>2, <3>1 DEF Around
  <2> QED BY <1>1, <2>1, <2>2
<1> QED BY <1>1, <1>3, <1>4

LEMMA SizeIs ==
    ASSUME NEW h \in 0 .. Page - 1, NEW t \in 0 .. Page - 1
    PROVE  /\ SizeOf(h, t) = IF h >= t THEN h - t ELSE (h + Page) - t
           /\ SizeOf(h, t) \in 0 .. Page - 1
<1>1. Page \in Nat \ {0}
  BY FilesAssumption
<1>2. h + Page - t \in Nat /\ h + Page - t < 2 * Page
  BY <1>1
<1>3. SizeOf(h, t) = Around(h + Page - t) /\ SizeOf(h, t) \in 0 .. Page - 1
  BY <1>2, Wraps DEF SizeOf
<1> QED BY <1>1, <1>3 DEF Around
LEMMA InitInv == Init => FilesInv
<1> SUFFICES ASSUME Init PROVE FilesInv
  OBVIOUS
<1>1. /\ fd \in FdTable /\ pc \in [Task -> Place] /\ io \in [Task -> Io]
      /\ fcount \in [File -> Nat] /\ finode \in [File -> Kind \union {None}]
      /\ icount \in [Kind -> Nat]
  BY Finite DEF Init, FdTable, Place, Io, NoIo, Kind
<1>2. Typed
  <2>1. Page \in Nat \ {0} /\ 0 \in 0 .. Page - 1
    BY FilesAssumption
  <2> QED BY <2>1 DEF Init, Typed
<1>3. \A f \in File : Held(fd, f) = {} /\ fcount[f] = 0
  BY Finite DEF Init, Held
<1>4. Counted(fd, fcount)
  BY <1>3, FS_EmptySet DEF Counted
<1>5. \A p \in Task : OfCall(pc, io, p) = {} /\ pc[p] # "pipe"
  BY DEF Init, OfCall
<1>6. OwnFiles(fd, pc, io) /\ NothingAbsent(fd, pc)
  BY <1>5 DEF OwnFiles, NothingAbsent, Init
<1>7. ASSUME NEW i \in Kind
      PROVE  icount[i] = Cardinality(Naming(fd, pc, io, fcount, finode, i))
  <2>1. Naming(fd, pc, io, fcount, finode, i) = {}
    BY <1>3 DEF Naming
  <2>2. icount[i] = 0
    BY DEF Init, Kind
  <2> QED BY <2>1, <2>2, FS_EmptySet
<1> QED BY <1>1, <1>2, <1>4, <1>6, <1>7 DEF FilesInv, Sound, TablesOK

LEMMA Unfolded ==
    ASSUME FilesInv
    PROVE  /\ fd \in FdTable /\ pc \in [Task -> Place] /\ io \in [Task -> Io]
           /\ fcount \in [File -> Nat] /\ finode \in [File -> Kind \union {None}]
           /\ icount \in [Kind -> Nat] /\ DOMAIN icount = Kind
           /\ Sound(fd, pc, io, fcount, finode, icount) /\ Typed
BY DEF FilesInv, Sound, TablesOK

(* iput of the files that nobody else has.                                 *)
LEMMA Puts ==
    ASSUME FilesInv, NEW p \in Task, pc[p] = "user", NEW D \in SUBSET Fd, Iput(p, D)
    PROVE  /\ Sound(Cleared(fd, p, D), pc, io,
                    [f \in File |-> fcount[f] - Uses(p, D, f)], finode, icount')
           /\ \A i \in Kind : /\ Lost(p, D, i) \in 0 .. icount[i]
                              /\ icount'[i] = icount[i] - Lost(p, D, i)
           /\ asleep' \in SUBSET Task
           /\ head' \in 0 .. Page - 1 /\ tail' \in 0 .. Page - 1
<1>1. \A f : Uses(p, D, f) = UsesIn(fd, p, D, f)
  BY DEF Uses, UsesIn
<1>2. Dropped(p, D) = {g \in File : fcount[g] > 0 /\ fcount[g] = UsesIn(fd, p, D, g)}
  BY <1>1 DEF Dropped
<1>3. \A i \in Kind : Lost(p, D, i) = Cardinality(
          {f \in {g \in File : fcount[g] > 0 /\ fcount[g] = UsesIn(fd, p, D, g)} :
              finode[f] = i})
  BY <1>2 DEF Lost
<1>4. icount' = [i \in Kind |-> icount[i] - Cardinality(
          {f \in {g \in File : fcount[g] > 0 /\ fcount[g] = UsesIn(fd, p, D, g)} :
              finode[f] = i})]
  BY <1>3, Unfolded DEF Iput
<1>5. [f \in File |-> fcount[f] - Uses(p, D, f)]
      = [f \in File |-> fcount[f] - UsesIn(fd, p, D, f)]
  BY <1>1
<1>6. /\ Sound(Cleared(fd, p, D), pc, io,
               [f \in File |-> fcount[f] - UsesIn(fd, p, D, f)], finode, icount')
      /\ \A i \in Kind :
            Cardinality({f \in {g \in File : fcount[g] > 0
                                             /\ fcount[g] = UsesIn(fd, p, D, g)} :
                            finode[f] = i}) \in 0 .. icount[i]
  BY <1>4, Unfolded, Drops
<1>7. \A i \in Kind : icount'[i] = icount[i] - Lost(p, D, i)
  BY <1>3, <1>4
<1>8. /\ asleep' \in SUBSET Task
      /\ head' \in 0 .. Page - 1 /\ tail' \in 0 .. Page - 1
  <2>1. 0 \in 0 .. Page - 1
    BY FilesAssumption
  <2>2. asleep' \in SUBSET Task
    BY Unfolded DEF Iput, Typed
  <2>3. (head' = 0 /\ tail' = 0) \/ UNCHANGED <<head, tail>>
    BY DEF Iput, pipe
  <2> QED BY <2>1, <2>2, <2>3, Unfolded DEF Typed
<1> QED BY <1>3, <1>5, <1>6, <1>7, <1>8

(***************************************************************************)
(* Calls on descriptors. *)
(***************************************************************************)
LEMMA CloseFdsKeeps ==
    ASSUME FilesInv, NEW p \in Task, pc[p] = "user", NEW D \in SUBSET Fd, CloseFds(p, D),
           fd' = Cleared(fd, p, D), UNCHANGED <<pc, io, finode, cpu>>,
           sigpipe' \in SUBSET Task, cloexec' \in [Task -> SUBSET Fd]
    PROVE  FilesInv'
<1>1. Iput(p, D) /\ fcount' = [f \in File |-> fcount[f] - Uses(p, D, f)]
  BY DEF CloseFds
<1>2. Sound(fd', pc', io', fcount', finode', icount')
  BY <1>1, Puts
<1>3. Typed'
  <2>1. cpu' \in Task \union {None}
    BY Unfolded DEF Typed
  <2> QED BY <1>1, <2>1, Puts DEF Typed
<1> QED BY <1>2, <1>3 DEF FilesInv

LEMMA CloseKeeps ==
    ASSUME FilesInv, NEW p \in Task, NEW d \in Fd, Close(p, d)
    PROVE  FilesInv'
<1>1. fd' = Cleared(fd, p, {d})
  <2>1. fd[p] \in [Fd -> File \union {0}]
    BY Unfolded DEF FdTable
  <2>2. [fd[p] EXCEPT ![d] = 0] = [e \in Fd |-> IF e \in {d} THEN 0 ELSE fd[p][e]]
    BY <2>1
  <2>3. fd' = [fd EXCEPT ![p] = [fd[p] EXCEPT ![d] = 0]]
    BY DEF Close
  <2> QED BY <2>2, <2>3 DEF Cleared
<1>2. cloexec' \in [Task -> SUBSET Fd] /\ sigpipe' \in SUBSET Task
  BY Unfolded DEF Close, Typed
<1>3. {d} \in SUBSET Fd
  OBVIOUS
<1> QED BY <1>1, <1>2, <1>3, CloseFdsKeeps DEF Close, User

LEMMA ExecKeeps ==
    ASSUME FilesInv, NEW p \in Task, Exec(p)
    PROVE  FilesInv'
<1> DEFINE D == cloexec[p] \intersect OpenFds(p)
<1>1. fd' = Cleared(fd, p, D)
  <2>1. fd[p] \in [Fd -> File \union {0}]
    BY Unfolded DEF FdTable
  <2>2. [d \in Fd |-> IF d \in cloexec[p] THEN 0 ELSE fd[p][d]]
        = [d \in Fd |-> IF d \in D THEN 0 ELSE fd[p][d]]
    BY DEF OpenFds
  <2>3. fd' = [fd EXCEPT ![p] = [d \in Fd |-> IF d \in cloexec[p] THEN 0 ELSE fd[p][d]]]
    BY DEF Exec
  <2> QED BY <2>2, <2>3 DEF Cleared
<1>2. cloexec' \in [Task -> SUBSET Fd] /\ sigpipe' \in SUBSET Task
  BY Unfolded DEF Exec, Typed
<1>3. D \in SUBSET Fd
  BY DEF OpenFds
<1> HIDE DEF D
<1> QED BY <1>1, <1>2, <1>3, CloseFdsKeeps DEF Exec, User, D

LEMMA ExitKeeps ==
    ASSUME FilesInv, NEW p \in Task, Exit(p)
    PROVE  FilesInv'
<1> DEFINE D == OpenFds(p)
<1>1. fd' = Cleared(fd, p, D)
  <2>1. [d \in Fd |-> 0] = [d \in Fd |-> IF d \in D THEN 0 ELSE fd[p][d]]
    BY DEF OpenFds
  <2> QED BY <2>1 DEF Cleared, Exit
<1>2. D \in SUBSET Fd
  BY DEF OpenFds
<1>3. Iput(p, D) /\ fcount' = [f \in File |-> fcount[f] - Uses(p, D, f)] /\ pc[p] = "user"
  BY DEF CloseFds, Exit
<1>4. Sound(fd', pc, io, fcount', finode, icount')
  BY <1>1, <1>2, <1>3, Puts
<1>5. /\ pc' \in [Task -> Place] /\ pc'[p] = "absent" /\ io' = io /\ finode' = finode
      /\ \A q \in Task \ {p} : pc'[q] = pc[q]
  BY Unfolded DEF Exit, Place
<1>6. \A d \in Fd : fd'[p][d] = 0
  BY Unfolded DEF Exit, FdTable
<1>7. Sound(fd', pc', io', fcount', finode', icount')
  <2>1. io' \in [Task -> Io]
    BY <1>5, Unfolded
  <2> QED BY <1>3, <1>4, <1>5, <1>6, <2>1, Quiet
<1>8. Typed'
  <2>1. cpu' \in Task \union {None} /\ cloexec' \in [Task -> SUBSET Fd] /\ sigpipe' \in SUBSET Task
    BY Unfolded DEF Typed, Exit
  <2> QED BY <1>2, <1>3, <2>1, Puts DEF Typed
<1> QED BY <1>7, <1>8 DEF FilesInv
LEMMA DupKeeps ==
    ASSUME FilesInv, NEW p \in Task, NEW d \in Fd, NEW arg \in Fd, Dup(p, d, arg)
    PROVE  FilesInv'
<1>1. PICK e \in FreeFds(p) :
          /\ fd' = [fd EXCEPT ![p][e] = fd[p][d]]
          /\ fcount' = [fcount EXCEPT ![fd[p][d]] = @ + 1]
          /\ cloexec' = [cloexec EXCEPT ![p] = @ \ {e}]
  BY DEF Dup
<1>2. /\ pc[p] = "user" /\ fd[p][d] # 0
      /\ UNCHANGED <<pc, cpu, sigpipe, asleep, io, finode, icount, head, tail, ring, sent, received>>
  BY DEF Dup, User, OpenFds, pipe
<1>3. e \in Fd /\ fd[p][e] = 0
  BY DEF FreeFds
<1>4. fd' = [fd EXCEPT ![p] = [fd[p] EXCEPT ![e] = fd[p][d]]]
  BY <1>1
<1>5. Sound(fd', pc, io, fcount', finode, icount)
  BY <1>1, <1>2, <1>3, <1>4, Unfolded, Adds
<1>6. Typed'
  <2>1. cloexec' \in [Task -> SUBSET Fd]
    BY <1>1, Unfolded DEF Typed
  <2> QED BY <1>2, <2>1, Unfolded DEF Typed
<1> QED BY <1>2, <1>5, <1>6 DEF FilesInv

LEMMA Dup2Keeps ==
    ASSUME FilesInv, NEW p \in Task, NEW d \in Fd, NEW e \in Fd, Dup2(p, d, e)
    PROVE  FilesInv'
<1> DEFINE G == Cleared(fd, p, {e})
           E == [f \in File |-> fcount[f] - Uses(p, {e}, f)]
<1>1. /\ pc[p] = "user" /\ fd[p][d] # 0 /\ Iput(p, {e})
      /\ UNCHANGED <<pc, cpu, sigpipe, io, finode>>
      /\ cloexec' = [cloexec EXCEPT ![p] = @ \ {e}]
  BY DEF Dup2, User, OpenFds
<1>2. /\ fcount' = [f \in File |-> (fcount[f] - Uses(p, {e}, f))
                                   + (IF d # e /\ f = fd[p][d] THEN 1 ELSE 0)]
      /\ fd' = [fd EXCEPT ![p][e] = IF d = e THEN 0 ELSE fd[p][d]]
  BY DEF Dup2
<1>3. {e} \in SUBSET Fd
  OBVIOUS
<1>4. Sound(G, pc, io, E, finode, icount')
  BY <1>1, <1>3, Puts
<1>5. fd \in FdTable /\ fd[p] \in [Fd -> File \union {0}]
  BY Unfolded DEF FdTable
<1>6. G \in FdTable /\ E \in [File -> Nat]
  BY <1>4 DEF Sound, TablesOK
<1>7. \A c \in Fd : G[p][c] = IF c = e THEN 0 ELSE fd[p][c]
  BY <1>5 DEF FdTable, Cleared
<1>8. \A q \in Task \ {p} : G[q] = fd[q]
  BY <1>5 DEF FdTable, Cleared
<1>9. \A f \in File : E[f] = fcount[f] - Uses(p, {e}, f)
  OBVIOUS
<1> HIDE DEF G, E
<1>10. ASSUME d = e PROVE Sound(fd', pc, io, fcount', finode, icount')
  <2>1. fd' = G
    <3>1. fd' = [fd EXCEPT ![p] = [fd[p] EXCEPT ![e] = 0]]
      BY <1>2, <1>10
    <3>2. [fd[p] EXCEPT ![e] = 0] = [c \in Fd |-> IF c \in {e} THEN 0 ELSE fd[p][c]]
      BY <1>5
    <3> QED BY <3>1, <3>2 DEF G, Cleared
  <2>2. fcount' = E
    <3>1. \A f \in File : fcount'[f] = E[f] + 0
      BY <1>2, <1>9, <1>10
    <3>2. \A f \in File : fcount'[f] = E[f]
      BY <1>6, <3>1
    <3>3. fcount' = [f \in File |-> fcount'[f]]
      BY <1>2
    <3> QED BY <1>6, <3>2, <3>3
  <2> QED BY <1>4, <2>1, <2>2
<1>11. ASSUME d # e PROVE Sound(fd', pc, io, fcount', finode, icount')
  <2>1. G[p][d] = fd[p][d] /\ G[p][e] = 0 /\ G[p] \in [Fd -> File \union {0}]
    BY <1>6, <1>7, <1>11 DEF FdTable
  <2>2. fd' = [G EXCEPT ![p] = [G[p] EXCEPT ![e] = G[p][d]]]
    <3>1. fd' = [fd EXCEPT ![p] = [fd[p] EXCEPT ![e] = fd[p][d]]]
      BY <1>2, <1>11
    <3>2. [fd[p] EXCEPT ![e] = fd[p][d]] = [G[p] EXCEPT ![e] = G[p][d]]
      BY <1>5, <1>7, <2>1
    <3>3. \A r : [fd EXCEPT ![p] = r] = [G EXCEPT ![p] = r]
      BY <1>5, <1>6, <1>8 DEF FdTable
    <3> QED BY <3>1, <3>2, <3>3
  <2>3. fcount' = [E EXCEPT ![G[p][d]] = @ + 1]
    <3>1. \A f \in File : fcount'[f] = E[f] + (IF f = fd[p][d] THEN 1 ELSE 0)
      BY <1>2, <1>9, <1>11
    <3>2. \A f \in File : fcount'[f] = IF f = G[p][d] THEN E[f] + 1 ELSE E[f]
      BY <1>6, <2>1, <3>1
    <3>3. fcount' = [f \in File |-> fcount'[f]]
      BY <1>2
    <3> QED BY <1>6, <3>2, <3>3
  <2> QED BY <1>1, <1>4, <2>1, <2>2, <2>3, Adds
<1>12. Typed'
  <2>1. cpu' \in Task \union {None} /\ cloexec' \in [Task -> SUBSET Fd] /\ sigpipe' \in SUBSET Task
    BY <1>1, Unfolded DEF Typed
  <2> QED BY <1>1, <1>3, <2>1, Puts DEF Typed
<1> QED BY <1>1, <1>10, <1>11, <1>12 DEF FilesInv

LEMMA SetCloexecKeeps ==
    ASSUME FilesInv, NEW p \in Task, NEW d \in Fd, SetCloexec(p, d)
    PROVE  FilesInv'
<1>1. /\ UNCHANGED <<pc, cpu, sigpipe, asleep, io, fd, fcount, finode, icount>>
      /\ UNCHANGED <<head, tail, ring, sent, received>>
  BY DEF SetCloexec, pipe
<1>2. \E ds \in {cloexec[p] \union {d}, cloexec[p] \ {d}} : cloexec' = [cloexec EXCEPT ![p] = ds]
  BY DEF SetCloexec
<1>3. cloexec' \in [Task -> SUBSET Fd]
  BY <1>2, Unfolded DEF Typed
<1> QED BY <1>1, <1>3, Unfolded DEF FilesInv, Typed

LEMMA ForkKeeps ==
    ASSUME FilesInv, NEW p \in Task, NEW q \in Task, Fork(p, q)
    PROVE  FilesInv'
<1>1. /\ pc[p] = "user" /\ pc[q] = "absent"
      /\ pc' = [pc EXCEPT ![q] = "user"] /\ fd' = [fd EXCEPT ![q] = fd[p]]
      /\ cloexec' = [cloexec EXCEPT ![q] = cloexec[p]]
      /\ fcount' = [f \in File |-> fcount[f] + Uses(p, Fd, f)]
      /\ UNCHANGED <<cpu, sigpipe, asleep, io, finode, icount, head, tail, ring, sent, received>>
  BY DEF Fork, User, pipe
<1>2. fd' = Inherited(fd, p, q)
  BY <1>1 DEF Inherited
<1>3. fcount' = [f \in File |-> fcount[f] + UsesIn(fd, p, Fd, f)]
  BY <1>1 DEF Uses, UsesIn
<1>4. Sound(fd', pc', io, fcount', finode, icount)
  <2>1. /\ Sound(fd, pc, io, fcount, finode, icount)
        /\ pc[p] = "user" /\ pc[q] = "absent" /\ pc' = [pc EXCEPT ![q] = "user"]
    BY <1>1, Unfolded
  <2>2. Sound(Inherited(fd, p, q), [pc EXCEPT ![q] = "user"], io,
              [f \in File |-> fcount[f] + UsesIn(fd, p, Fd, f)], finode, icount)
    BY <2>1, Forks
  <2> QED BY <1>2, <1>3, <2>1, <2>2
<1>5. Typed'
  <2>1. cloexec' \in [Task -> SUBSET Fd]
    BY <1>1, Unfolded DEF Typed
  <2> QED BY <1>1, <2>1, Unfolded DEF Typed
<1> QED BY <1>1, <1>4, <1>5 DEF FilesInv
LEMMA HandleSigpipeKeeps ==
    ASSUME FilesInv, NEW p \in Task, HandleSigpipe(p)
    PROVE  FilesInv'
BY Unfolded DEF HandleSigpipe, FilesInv, Typed, tables, pipe

(***************************************************************************)
(* open and pipe. *)
(***************************************************************************)
LEMMA Picks ==
    ASSUME NEW S \in SUBSET Nat, IsFiniteSet(S), NEW n \in {1, 2}, Cardinality(S) >= n
    PROVE  /\ Least(S) \in S
           /\ n = 2 => Least(S \ {Least(S)}) \in S \ {Least(S)}
<1>1. S # {}
  BY FS_EmptySet
<1>2. Least(S) \in S
  BY <1>1, LeastIn
<1>3. ASSUME n = 2 PROVE Least(S \ {Least(S)}) \in S \ {Least(S)}
  <2>1. /\ IsFiniteSet(S \ {Least(S)})
        /\ Cardinality(S \ {Least(S)}) = Cardinality(S) - 1
    BY <1>2, FS_RemoveElement
  <2>2. Cardinality(S) \in Nat
    BY FS_CardinalityType
  <2>3. S \ {Least(S)} # {}
    BY <1>3, <2>1, <2>2, FS_EmptySet
  <2> QED BY <2>3, LeastIn
<1> QED BY <1>2, <1>3

LEMMA OneTaken ==
    ASSUME FilesInv, NEW p \in Task, Reserve(p, 1, "open")
    PROVE  Sound(fd', pc', io', fcount', finode', icount')
<1> DEFINE d == Least(FreeFds(p))
           f == Least(FreeFiles)
           D == {d}
           g == [c \in Fd |-> f]
<1>1. /\ pc[p] = "user" /\ Cardinality(FreeFds(p)) >= 1 /\ Cardinality(FreeFiles) >= 1
      /\ fd' = [fd EXCEPT ![p][d] = f] /\ fcount' = [fcount EXCEPT ![f] = 1]
      /\ io' = [io EXCEPT ![p].chunk = d] /\ pc' = [pc EXCEPT ![p] = "open"]
      /\ UNCHANGED <<finode, icount>>
  BY DEF Reserve, User
<1>2. /\ FreeFds(p) \in SUBSET Fd /\ FreeFiles \in SUBSET File
      /\ FreeFds(p) \in SUBSET Nat /\ FreeFiles \in SUBSET Nat
      /\ IsFiniteSet(FreeFds(p)) /\ IsFiniteSet(FreeFiles)
  <2>1. FreeFds(p) \in SUBSET Fd /\ FreeFiles \in SUBSET File
    BY DEF FreeFds, FreeFiles
  <2> QED BY <2>1, Finite, FS_Subset
<1>3. d \in FreeFds(p) /\ f \in FreeFiles
  BY <1>1, <1>2, Picks
<1>4. d \in Fd /\ d \in Nat /\ fd[p][d] = 0 /\ f \in File /\ fcount[f] = 0
  BY <1>2, <1>3 DEF FreeFds, FreeFiles
<1> HIDE DEF d, f
<1>5. D \in SUBSET Fd /\ (\A c \in D : fd[p][c] = 0 /\ g[c] \in File /\ fcount[g[c]] = 0)
      /\ \A b, c \in D : g[b] = g[c] => b = c
  BY <1>4
<1>6. fd' = Taking(fd, p, D, g)
  <2>1. fd[p] \in [Fd -> File \union {0}]
    BY Unfolded DEF FdTable
  <2>2. [fd[p] EXCEPT ![d] = f] = [c \in Fd |-> IF c \in D THEN g[c] ELSE fd[p][c]]
    BY <2>1
  <2>3. fd' = [fd EXCEPT ![p] = [fd[p] EXCEPT ![d] = f]]
    BY <1>1
  <2> QED BY <2>2, <2>3 DEF Taking
<1>7. /\ pc' \in [Task -> Place] /\ io' \in [Task -> Io] /\ fcount' \in [File -> Nat]
      /\ pc'[p] = "open" /\ io'[p].chunk = d
      /\ \A q \in Task \ {p} : pc'[q] = pc[q] /\ io'[q] = io[q]
  BY <1>1, <1>4, Unfolded DEF Place, Io
<1>8. OfCall(pc', io', p) = D
  BY <1>7 DEF OfCall
<1>9. \A h \in File : fcount'[h] = IF \E c \in D : g[c] = h THEN 1 ELSE fcount[h]
  BY <1>1, <1>4, Unfolded
<1> HIDE DEF D, g
<1>10. Sound(Taking(fd, p, D, g), pc', io', fcount', finode, icount)
  <2>1. Sound(fd, pc, io, fcount, finode, icount) /\ pc[p] = "user"
    BY <1>1, Unfolded
  <2>2. pc'[p] # "absent" /\ pc'[p] # "pipe"
    BY <1>7
  <2> QED BY <1>5, <1>7, <1>8, <1>9, <2>1, <2>2, Reserves
<1> QED BY <1>1, <1>6, <1>10

LEMMA TwoTaken ==
    ASSUME FilesInv, NEW p \in Task, Reserve(p, 2, "pipe")
    PROVE  Sound(fd', pc', io', fcount', finode', icount')
<1> DEFINE d1 == Least(FreeFds(p))
           f1 == Least(FreeFiles)
           d2 == Least(FreeFds(p) \ {d1})
           f2 == Least(FreeFiles \ {f1})
           D  == {d1, d2}
           g  == [c \in Fd |-> IF c = d1 THEN f1 ELSE f2]
<1>1. /\ pc[p] = "user" /\ Cardinality(FreeFds(p)) >= 2 /\ Cardinality(FreeFiles) >= 2
      /\ fd' = [fd EXCEPT ![p][d1] = f1, ![p][d2] = f2]
      /\ fcount' = [fcount EXCEPT ![f1] = 1, ![f2] = 1]
      /\ io' = [io EXCEPT ![p].chunk = d1, ![p].at = d2] /\ pc' = [pc EXCEPT ![p] = "pipe"]
      /\ UNCHANGED <<finode, icount>>
  <2>1. 2 # 1
    OBVIOUS
  <2> QED BY <2>1, Zenon DEF Reserve, User
<1>2. /\ FreeFds(p) \in SUBSET Fd /\ FreeFiles \in SUBSET File
      /\ FreeFds(p) \in SUBSET Nat /\ FreeFiles \in SUBSET Nat
      /\ IsFiniteSet(FreeFds(p)) /\ IsFiniteSet(FreeFiles)
  <2>1. FreeFds(p) \in SUBSET Fd /\ FreeFiles \in SUBSET File
    BY DEF FreeFds, FreeFiles
  <2> QED BY <2>1, Finite, FS_Subset
<1>3. /\ d1 \in FreeFds(p) /\ f1 \in FreeFiles
      /\ d2 \in FreeFds(p) \ {d1} /\ f2 \in FreeFiles \ {f1}
  BY <1>1, <1>2, Picks
<1>4. /\ d1 \in Fd /\ d1 \in Nat /\ fd[p][d1] = 0 /\ f1 \in File /\ fcount[f1] = 0
      /\ d2 \in Fd /\ d2 \in Nat /\ fd[p][d2] = 0 /\ f2 \in File /\ fcount[f2] = 0
      /\ d1 # d2 /\ f1 # f2
  BY <1>2, <1>3 DEF FreeFds, FreeFiles
<1> HIDE DEF d1, f1, d2, f2
<1>5. D \in SUBSET Fd /\ (\A c \in D : fd[p][c] = 0 /\ g[c] \in File /\ fcount[g[c]] = 0)
      /\ \A b, c \in D : g[b] = g[c] => b = c
  BY <1>4
<1>6. fd' = Taking(fd, p, D, g)
  <2>1. fd \in FdTable /\ fd[p] \in [Fd -> File \union {0}]
    BY Unfolded DEF FdTable
  <2>2. [fd[p] EXCEPT ![d1] = f1, ![d2] = f2]
        = [c \in Fd |-> IF c \in D THEN g[c] ELSE fd[p][c]]
    BY <1>4, <2>1
  <2>3. fd' = [fd EXCEPT ![p] = [fd[p] EXCEPT ![d1] = f1, ![d2] = f2]]
    BY <1>1, <2>1 DEF FdTable
  <2> QED BY <2>2, <2>3 DEF Taking
<1>7. /\ pc' \in [Task -> Place] /\ io' \in [Task -> Io] /\ fcount' \in [File -> Nat]
      /\ pc'[p] = "pipe" /\ io'[p].chunk = d1 /\ io'[p].at = d2
      /\ \A q \in Task \ {p} : pc'[q] = pc[q] /\ io'[q] = io[q]
  BY <1>1, <1>4, Unfolded DEF Place, Io
<1>8. OfCall(pc', io', p) = D
  BY <1>7 DEF OfCall
<1>9. \A h \in File : fcount'[h] = IF \E c \in D : g[c] = h THEN 1 ELSE fcount[h]
  <2>1. \A h \in File : (\E c \in D : g[c] = h) <=> h = f1 \/ h = f2
    BY <1>4
  <2>2. \A h \in File : fcount'[h] = IF h = f1 \/ h = f2 THEN 1 ELSE fcount[h]
    BY <1>1, <1>4, Unfolded
  <2> QED BY <2>1, <2>2
<1> HIDE DEF D, g
<1>10. Sound(Taking(fd, p, D, g), pc', io', fcount', finode, icount)
  <2>1. Sound(fd, pc, io, fcount, finode, icount) /\ pc[p] = "user"
    BY <1>1, Unfolded
  <2>2. pc'[p] # "absent" /\ io'[p].chunk # io'[p].at
    BY <1>4, <1>7
  <2> QED BY <1>5, <1>7, <1>8, <1>9, <2>1, <2>2, Reserves
<1> QED BY <1>1, <1>6, <1>10
LEMMA TakenTyped ==
    ASSUME FilesInv, NEW p \in Task, NEW n, NEW at, Reserve(p, n, at),
           cloexec' \in [Task -> SUBSET Fd]
    PROVE  Typed'
BY Unfolded DEF Reserve, Typed, pipe

LEMMA OpenKeeps ==
    ASSUME FilesInv, NEW p \in Task, Open(p)
    PROVE  FilesInv'
<1>1. Reserve(p, 1, "open")
  BY DEF Open
<1>2. cloexec' \in [Task -> SUBSET Fd]
  BY Unfolded DEF Open, Typed
<1> QED BY <1>1, <1>2, OneTaken, TakenTyped DEF FilesInv

LEMMA PipeKeeps ==
    ASSUME FilesInv, NEW p \in Task, Pipe(p)
    PROVE  FilesInv'
<1>1. Reserve(p, 2, "pipe")
  BY DEF Pipe
<1>2. cloexec' \in [Task -> SUBSET Fd]
  BY Unfolded DEF Pipe, Typed
<1> QED BY <1>1, <1>2, TwoTaken, TakenTyped DEF FilesInv

LEMMA MineIsOfCall ==
    ASSUME FilesInv, NEW p \in Task
    PROVE  Mine(p) = OfCall(pc, io, p)
<1>1. CASE pc[p] = "open"
  BY <1>1 DEF Mine, OfCall
<1>2. CASE pc[p] = "pipe"
  BY <1>2 DEF Mine, OfCall
<1>3. CASE pc[p] # "open" /\ pc[p] # "pipe"
  BY <1>3 DEF Mine, OfCall
<1> QED BY <1>1, <1>2, <1>3

(* Where the task is once its call has returned. *)
LEMMA Back ==
    ASSUME FilesInv, NEW p \in Task,
           pc' = [pc EXCEPT ![p] = "user"], io' = [io EXCEPT ![p] = NoIo]
    PROVE  /\ pc' \in [Task -> Place] /\ io' \in [Task -> Io] /\ pc'[p] = "user"
           /\ \A q \in Task \ {p} : pc'[q] = pc[q] /\ io'[q] = io[q]
<1>1. NoIo \in Io
  BY DEF NoIo, Io
<1> QED BY <1>1, Unfolded DEF Place

LEMMA GiveBackKeeps ==
    ASSUME FilesInv, NEW p \in Task, GiveBack(p)
    PROVE  FilesInv'
<1> DEFINE D == OfCall(pc, io, p)
<1>1. /\ pc[p] \in {"open", "pipe"}
      /\ pc' = [pc EXCEPT ![p] = "user"] /\ io' = [io EXCEPT ![p] = NoIo]
      /\ fd' = [fd EXCEPT ![p] = [d \in Fd |-> IF d \in Mine(p) THEN 0 ELSE fd[p][d]]]
      /\ fcount' = [f \in File |-> IF Uses(p, Mine(p), f) > 0 THEN 0 ELSE fcount[f]]
      /\ UNCHANGED <<cpu, cloexec, sigpipe, asleep, finode, icount, head, tail, ring, sent, received>>
  BY DEF GiveBack, pipe
<1>2. Mine(p) = D
  BY MineIsOfCall
<1>3. fd' = Cleared(fd, p, D)
  BY <1>1, <1>2 DEF Cleared
<1>4. fcount' = [f \in File |-> IF UsesIn(fd, p, D, f) > 0 THEN 0 ELSE fcount[f]]
  BY <1>1, <1>2 DEF Uses, UsesIn
<1>5. Sound(fd', pc', io', fcount', finode, icount)
  <2>1. Sound(fd, pc, io, fcount, finode, icount)
    BY Unfolded
  <2>2. /\ pc' \in [Task -> Place] /\ io' \in [Task -> Io] /\ pc'[p] = "user"
        /\ \A q \in Task \ {p} : pc'[q] = pc[q] /\ io'[q] = io[q]
    BY <1>1, Back
  <2>3. pc[p] \in {"open", "pipe"}
    BY <1>1
  <2>4. Sound(Cleared(fd, p, D), pc', io',
              [f \in File |-> IF UsesIn(fd, p, D, f) > 0 THEN 0 ELSE fcount[f]],
              finode, icount)
    BY <2>1, <2>2, <2>3, GivesBack
  <2> QED BY <1>3, <1>4, <2>4
<1>6. Typed'
  BY <1>1, Unfolded DEF Typed
<1> QED BY <1>1, <1>5, <1>6 DEF FilesInv

LEMMA OpenedKeeps ==
    ASSUME FilesInv, NEW p \in Task, Opened(p)
    PROVE  FilesInv'
<1> DEFINE d == io[p].chunk
           f == fd[p][d]
<1>1. /\ pc[p] = "open"
      /\ pc' = [pc EXCEPT ![p] = "user"] /\ io' = [io EXCEPT ![p] = NoIo]
      /\ finode' = [finode EXCEPT ![f] = "regular"] /\ fcount' = [fcount EXCEPT ![f] = 1]
      /\ icount' = [icount EXCEPT !["regular"] = @ + 1]
      /\ UNCHANGED <<cpu, sigpipe, asleep, fd, cloexec, head, tail, ring, sent, received>>
  BY DEF Opened, pipe
<1>2. OfCall(pc, io, p) = {d}
  BY <1>1 DEF OfCall
<1>3. OwnFiles(fd, pc, io) /\ Counted(fd, fcount)
  BY DEF FilesInv, Sound
<1>4. d \in Fd /\ f \in File
  BY <1>2, <1>3 DEF OwnFiles
<1>5. OwnIn(fd, pc, io, p) = {f}
  BY <1>2, <1>4 DEF OwnIn
<1> HIDE DEF d, f
<1>6. fcount[f] = 1
  BY <1>3, <1>5, CallFacts
<1>7. fcount' = fcount
  BY <1>1, <1>4, <1>6, Unfolded
<1>8. /\ finode' \in [File -> Kind \union {None}]
      /\ \A h \in File : finode'[h] = IF h \in {f} THEN "regular" ELSE finode[h]
  BY <1>1, <1>4, Unfolded DEF Kind
<1>9. /\ icount' \in [Kind -> Nat]
      /\ \A i \in Kind : icount'[i] = IF i = "regular" THEN icount[i] + 1 ELSE icount[i]
  BY <1>1, Unfolded DEF Kind
<1>10. Cardinality({f}) = 1
  BY FS_Singleton
<1>11. Sound(fd, pc', io', fcount, finode', icount')
  <2>1. Sound(fd, pc, io, fcount, finode, icount) /\ "regular" \in Kind
    BY Unfolded DEF Kind
  <2>2. /\ pc' \in [Task -> Place] /\ io' \in [Task -> Io] /\ pc'[p] = "user"
        /\ \A q \in Task \ {p} : pc'[q] = pc[q] /\ io'[q] = io[q]
    BY <1>1, Back
  <2>3. pc[p] \in {"open", "pipe"}
    BY <1>1
  <2> QED BY <1>5, <1>8, <1>9, <1>10, <2>1, <2>2, <2>3, Commits
<1>12. Typed'
  BY <1>1, Unfolded DEF Typed
<1> QED BY <1>1, <1>7, <1>11, <1>12 DEF FilesInv

LEMMA PipedKeeps ==
    ASSUME FilesInv, NEW p \in Task, Piped(p)
    PROVE  FilesInv'
<1> DEFINE d0 == io[p].chunk
           d1 == io[p].at
           f0 == fd[p][d0]
           f1 == fd[p][d1]
<1>1. /\ pc[p] = "pipe"
      /\ pc' = [pc EXCEPT ![p] = "user"] /\ io' = [io EXCEPT ![p] = NoIo]
      /\ finode' = [finode EXCEPT ![f0] = "pipe", ![f1] = "pipe"]
      /\ icount["pipe"] = 0 /\ icount' = [icount EXCEPT !["pipe"] = 2]
      /\ head' = 0 /\ tail' = 0
      /\ UNCHANGED <<cpu, sigpipe, asleep, fd, cloexec, fcount, ring, sent, received>>
  BY DEF Piped, GetPipeInode
<1>2. OfCall(pc, io, p) = {d0, d1}
  BY <1>1 DEF OfCall
<1>3. OwnFiles(fd, pc, io)
  BY DEF FilesInv, Sound
<1>4. /\ d0 \in Fd /\ f0 \in File /\ Held(fd, f0) = {<<p, d0>>}
      /\ d1 \in Fd /\ f1 \in File /\ Held(fd, f1) = {<<p, d1>>}
      /\ d0 # d1
  BY <1>1, <1>2, <1>3 DEF OwnFiles
<1>6. OwnIn(fd, pc, io, p) = {f0, f1}
  BY <1>2, <1>4 DEF OwnIn
<1> HIDE DEF d0, d1, f0, f1
<1>5. f0 # f1
  <2>1. ASSUME f0 = f1 PROVE FALSE
    <3>1. {<<p, d0>>} = {<<p, d1>>}
      BY <1>4, <2>1
    <3>2. <<p, d0>> = <<p, d1>>
      BY <3>1, Zenon
    <3> QED BY <1>4, <3>2
  <2> QED BY <2>1
<1>7. /\ finode' \in [File -> Kind \union {None}]
      /\ \A h \in File : finode'[h] = IF h \in {f0, f1} THEN "pipe" ELSE finode[h]
  BY <1>1, <1>4, Unfolded DEF Kind
<1>8. Cardinality({f0, f1}) = 2
  <2>1. IsFiniteSet({f0}) /\ Cardinality({f0}) = 1
    BY FS_Singleton
  <2>2. {f0} \union {f1} = {f0, f1} /\ f1 \notin {f0}
    BY <1>5
  <2>3. Cardinality({f0} \union {f1}) = 1 + 1
    BY <2>1, <2>2, FS_AddElement
  <2> QED BY <2>2, <2>3
<1>9. /\ icount' \in [Kind -> Nat]
      /\ \A i \in Kind : icount'[i] = IF i = "pipe" THEN icount[i] + 2 ELSE icount[i]
  BY <1>1, Unfolded DEF Kind
<1>10. Sound(fd, pc', io', fcount, finode', icount')
  <2>1. Sound(fd, pc, io, fcount, finode, icount) /\ "pipe" \in Kind
    BY Unfolded DEF Kind
  <2>2. /\ pc' \in [Task -> Place] /\ io' \in [Task -> Io] /\ pc'[p] = "user"
        /\ \A q \in Task \ {p} : pc'[q] = pc[q] /\ io'[q] = io[q]
    BY <1>1, Back
  <2>3. pc[p] \in {"open", "pipe"}
    BY <1>1
  <2>4. \A h \in File : finode'[h] = IF h \in OwnIn(fd, pc, io, p) THEN "pipe" ELSE finode[h]
    BY <1>6, <1>7
  <2>5. \A i \in Kind : icount'[i] = IF i = "pipe"
                                       THEN icount[i] + Cardinality(OwnIn(fd, pc, io, p))
                                       ELSE icount[i]
    BY <1>6, <1>8, <1>9
  <2> QED BY <1>7, <1>9, <2>1, <2>2, <2>3, <2>4, <2>5, Commits
<1>11. Typed'
  <2>1. 0 \in 0 .. Page - 1
    BY FilesAssumption
  <2> QED BY <1>1, <2>1, Unfolded DEF Typed
<1> QED BY <1>1, <1>10, <1>11 DEF FilesInv
(***************************************************************************)
(* Reading and writing. *)
(***************************************************************************)
Going == {"user", "read", "rcopy", "write", "wcopy"}

LEMMA GoesOn ==
    ASSUME FilesInv, NEW p \in Task, pc[p] \in Going, NEW x \in Going, NEW r \in Io,
           pc' = [pc EXCEPT ![p] = x], io' = [io EXCEPT ![p] = r],
           UNCHANGED <<fd, fcount, finode, icount>>
    PROVE  Sound(fd', pc', io', fcount', finode', icount')
<1>1. /\ pc' \in [Task -> Place] /\ io' \in [Task -> Io] /\ pc'[p] = x
      /\ \A q \in Task \ {p} : pc'[q] = pc[q] /\ io'[q] = io[q]
  BY Unfolded DEF Going, Place
<1>2. /\ pc[p] \notin {"open", "pipe"} /\ pc'[p] \notin {"open", "pipe"} /\ pc'[p] # "absent"
  BY <1>1 DEF Going
<1>3. Sound(fd, pc, io, fcount, finode, icount)
  BY Unfolded
<1>4. Sound(fd, pc', io', fcount, finode, icount)
  BY <1>1, <1>2, <1>3, Quiet
<1> QED BY <1>4

LEMMA StartKeeps ==
    ASSUME FilesInv, NEW p \in Task, NEW d \in Fd, NEW n \in 1 .. MaxCount,
           NEW mode \in {"read", "write"}, Start(p, d, n, mode)
    PROVE  FilesInv'
<1>1. /\ pc[p] = "user" /\ pc' = [pc EXCEPT ![p] = mode] /\ cpu' = p
      /\ io' = [io EXCEPT ![p] = [NoIo EXCEPT !.left = n]]
      /\ UNCHANGED <<sigpipe, asleep, fd, cloexec, fcount, finode, icount>>
      /\ UNCHANGED <<head, tail, ring, sent, received>>
  BY DEF Start, User, tables, pipe
<1>2. [NoIo EXCEPT !.left = n] \in Io
  <2>1. n \in Nat
    BY FilesAssumption
  <2>2. NoIo \in Io
    BY DEF NoIo, Io
  <2> QED BY <2>1, <2>2 DEF Io
<1>3. Sound(fd', pc', io', fcount', finode', icount')
  <2>1. pc[p] \in Going /\ mode \in Going
    BY <1>1 DEF Going
  <2> QED BY <1>1, <1>2, <2>1, GoesOn
<1>4. Typed'
  BY <1>1, Unfolded DEF Typed
<1> QED BY <1>3, <1>4 DEF FilesInv

LEMMA ReturnKeeps ==
    ASSUME FilesInv, NEW p \in Task, pc[p] \in Going, Return(p),
           UNCHANGED <<tables, pipe>>, sigpipe' \in SUBSET Task
    PROVE  FilesInv'
<1>1. /\ pc' = [pc EXCEPT ![p] = "user"] /\ cpu' = None /\ asleep' = {}
      /\ io' = [io EXCEPT ![p] = NoIo]
      /\ UNCHANGED <<fd, cloexec, fcount, finode, icount>>
      /\ UNCHANGED <<head, tail, ring, sent, received>>
  BY DEF Return, tables, pipe
<1>2. NoIo \in Io /\ "user" \in Going
  BY DEF NoIo, Io, Going
<1>3. Sound(fd', pc', io', fcount', finode', icount')
  BY <1>1, <1>2, GoesOn
<1>4. Typed'
  BY <1>1, Unfolded DEF Typed
<1> QED BY <1>3, <1>4 DEF FilesInv

LEMMA SleepKeeps ==
    ASSUME FilesInv, NEW p \in Task, Sleep(p), UNCHANGED <<sigpipe, tables, pipe>>
    PROVE  FilesInv'
BY Unfolded DEF Sleep, tables, pipe, FilesInv, Typed

LEMMA DoneKeeps ==
    ASSUME FilesInv, NEW p \in Task, NEW mode \in {"read", "write"}, Done(p, mode)
    PROVE  FilesInv'
<1>1. pc[p] \in Going /\ Return(p) /\ UNCHANGED <<tables, pipe>> /\ sigpipe' \in SUBSET Task
  BY Unfolded DEF Done, Runs, Going, Typed
<1> QED BY <1>1, ReturnKeeps

LEMMA ReadWaitKeeps ==
    ASSUME FilesInv, NEW p \in Task, ReadWait(p)
    PROVE  FilesInv'
<1>1. pc[p] \in Going /\ UNCHANGED <<sigpipe, tables, pipe>> /\ sigpipe' \in SUBSET Task
  BY Unfolded DEF ReadWait, Runs, Going, Typed
<1>2. Return(p) \/ Sleep(p)
  BY DEF ReadWait
<1> QED BY <1>1, <1>2, ReturnKeeps, SleepKeeps

LEMMA WriteWaitKeeps ==
    ASSUME FilesInv, NEW p \in Task, WriteWait(p)
    PROVE  FilesInv'
<1>1. pc[p] \in Going /\ UNCHANGED <<tables, pipe>>
  BY DEF WriteWait, Runs, Going
<1>2. \/ Return(p) /\ sigpipe' = sigpipe \union {p}
      \/ Sleep(p) /\ UNCHANGED sigpipe
  BY DEF WriteWait
<1>3. sigpipe' \in SUBSET Task
  BY <1>2, Unfolded DEF Typed
<1> QED BY <1>1, <1>2, <1>3, ReturnKeeps, SleepKeeps

(* A chunk: what moves, and how far the ring turns. *)
Moves(p, n, at, from, to) ==
    /\ n \in 1 .. Page /\ at + n <= Page /\ n <= io[p].left
    /\ pc[p] = from /\ pc' = [pc EXCEPT ![p] = to]
    /\ io' = [io EXCEPT ![p].left = @ - n, ![p].chunk = n, ![p].at = at]

LEMMA Smallest ==
    ASSUME NEW a \in Nat, NEW b \in Nat, NEW c \in Nat, a > 0, b > 0, c > 0
    PROVE  LET n == Least({a, b, c}) IN n \in Nat /\ n > 0 /\ n <= a /\ n <= b /\ n <= c
<1> DEFINE S == {a, b, c}
<1>1. S \in SUBSET Nat /\ S # {}
  OBVIOUS
<1>2. Least(S) \in S /\ \A x \in S : Least(S) <= x
  BY <1>1, LeastIn
<1> QED BY <1>2

LEMMA ReadChunkIs ==
    ASSUME FilesInv, NEW p \in Task, ReadChunk(p)
    PROVE  \E n \in 1 .. Page :
              /\ Moves(p, n, tail, "read", "rcopy") /\ n <= SizeOf(head, tail)
              /\ tail' = Around(tail + n)
              /\ cpu' \in IF Faults THEN {p, None} ELSE {p}
              /\ UNCHANGED <<sigpipe, asleep, fd, cloexec, fcount, finode, icount>>
              /\ UNCHANGED <<head, ring, sent, received>>
<1> DEFINE n == Least({Page - tail, io[p].left, Size})
<1>1. Page \in Nat \ {0} /\ tail \in 0 .. Page - 1 /\ head \in 0 .. Page - 1 /\ io[p].left \in Nat
  BY Unfolded, FilesAssumption DEF Typed, Io
<1>2. Size = SizeOf(head, tail) /\ Size \in 0 .. Page - 1
  BY <1>1, SizeIs DEF Size, SizeOf
<1>3. io[p].left > 0 /\ Size > 0 /\ Page - tail > 0 /\ Page - tail \in Nat
  BY <1>1 DEF ReadChunk
<1>4. n \in Nat /\ n > 0 /\ n <= Page - tail /\ n <= io[p].left /\ n <= Size
  BY <1>1, <1>2, <1>3, Smallest
<1>5. /\ pc[p] = "read" /\ Copying(p, n, tail, "rcopy") /\ tail' = (tail + n) % Page
      /\ UNCHANGED <<sigpipe, asleep, fd, cloexec, fcount, finode, icount>>
      /\ UNCHANGED <<head, ring, sent, received>>
  BY DEF ReadChunk, Runs, tables
<1> HIDE DEF n
<1>6. tail + n \in Nat /\ tail + n < 2 * Page /\ n \in 1 .. Page /\ tail + n <= Page
  BY <1>1, <1>4
<1>7. tail' = Around(tail + n)
  BY <1>5, <1>6, Wraps
<1>8. Moves(p, n, tail, "read", "rcopy") /\ cpu' \in IF Faults THEN {p, None} ELSE {p}
  <2>1. /\ pc' = [pc EXCEPT ![p] = "rcopy"] /\ cpu' \in IF Faults THEN {p, None} ELSE {p}
        /\ io' = [io EXCEPT ![p].left = @ - n, ![p].chunk = n, ![p].at = tail]
    BY <1>5 DEF Copying
  <2> QED BY <1>4, <1>5, <1>6, <2>1 DEF Moves
<1> QED BY <1>2, <1>4, <1>5, <1>6, <1>7, <1>8

LEMMA WriteChunkIs ==
    ASSUME FilesInv, NEW p \in Task, WriteChunk(p)
    PROVE  \E n \in 1 .. Page :
              /\ Moves(p, n, head, "write", "wcopy") /\ n <= (Page - 1) - SizeOf(head, tail)
              /\ head' = Around(head + n)
              /\ cpu' \in IF Faults THEN {p, None} ELSE {p}
              /\ UNCHANGED <<sigpipe, asleep, fd, cloexec, fcount, finode, icount>>
              /\ UNCHANGED <<tail, ring, sent, received>>
<1> DEFINE n == Least({Page - head, io[p].left, Room})
<1>1. Page \in Nat \ {0} /\ tail \in 0 .. Page - 1 /\ head \in 0 .. Page - 1 /\ io[p].left \in Nat
  BY Unfolded, FilesAssumption DEF Typed, Io
<1>2. Room = (Page - 1) - SizeOf(head, tail) /\ Room \in Nat
  <2>1. Size = SizeOf(head, tail) /\ Size \in 0 .. Page - 1
    BY <1>1, SizeIs DEF Size, SizeOf
  <2> QED BY <1>1, <2>1 DEF Room
<1>3. io[p].left > 0 /\ Room > 0 /\ Page - head > 0 /\ Page - head \in Nat
  BY <1>1 DEF WriteChunk
<1>4. n \in Nat /\ n > 0 /\ n <= Page - head /\ n <= io[p].left /\ n <= Room
  BY <1>1, <1>2, <1>3, Smallest
<1>5. /\ pc[p] = "write" /\ Copying(p, n, head, "wcopy") /\ head' = (head + n) % Page
      /\ UNCHANGED <<sigpipe, asleep, fd, cloexec, fcount, finode, icount>>
      /\ UNCHANGED <<tail, ring, sent, received>>
  BY DEF WriteChunk, Runs, tables
<1> HIDE DEF n
<1>6. head + n \in Nat /\ head + n < 2 * Page /\ n \in 1 .. Page /\ head + n <= Page
  BY <1>1, <1>4
<1>7. head' = Around(head + n)
  BY <1>5, <1>6, Wraps
<1>8. Moves(p, n, head, "write", "wcopy") /\ cpu' \in IF Faults THEN {p, None} ELSE {p}
  <2>1. /\ pc' = [pc EXCEPT ![p] = "wcopy"] /\ cpu' \in IF Faults THEN {p, None} ELSE {p}
        /\ io' = [io EXCEPT ![p].left = @ - n, ![p].chunk = n, ![p].at = head]
    BY <1>5 DEF Copying
  <2> QED BY <1>4, <1>5, <1>6, <2>1 DEF Moves
<1> QED BY <1>2, <1>4, <1>5, <1>6, <1>7, <1>8
LEMMA MovesTables ==
    ASSUME FilesInv, NEW p \in Task, NEW n \in Nat, NEW at \in Nat,
           NEW from \in Going, NEW to \in Going, Moves(p, n, at, from, to),
           UNCHANGED <<fd, fcount, finode, icount>>
    PROVE  /\ Sound(fd', pc', io', fcount', finode', icount')
           /\ pc[p] = from /\ pc'[p] = to /\ io'[p].chunk = n /\ io'[p].at = at
           /\ \A q \in Task \ {p} : pc'[q] = pc[q] /\ io'[q] = io[q]
<1> DEFINE r == [io[p] EXCEPT !.left = @ - n, !.chunk = n, !.at = at]
<1>1. io[p] \in Io /\ n <= io[p].left /\ io[p].left \in Nat
  BY Unfolded DEF Moves, Io
<1>2. io[p].left - n \in Nat
  BY <1>1
<1>3. r \in Io /\ r.chunk = n /\ r.at = at
  BY <1>1, <1>2 DEF Io
<1>4. io' = [io EXCEPT ![p] = r]
  <2>1. io' = [io EXCEPT ![p].left = @ - n, ![p].chunk = n, ![p].at = at]
    BY DEF Moves
  <2>2. io \in [Task -> Io] /\ io[p].left \in Nat
    BY <1>1, Unfolded
  <2> QED BY <2>1, <2>2 DEF Io
<1> HIDE DEF r
<1>5. pc' = [pc EXCEPT ![p] = to] /\ pc[p] = from
  BY DEF Moves
<1>6. Sound(fd', pc', io', fcount', finode', icount')
  BY <1>3, <1>4, <1>5, GoesOn
<1> QED BY <1>3, <1>4, <1>5, <1>6, Unfolded

LEMMA ReadChunkKeeps ==
    ASSUME FilesInv, NEW p \in Task, ReadChunk(p)
    PROVE  FilesInv'
<1>1. PICK n \in 1 .. Page :
          /\ Moves(p, n, tail, "read", "rcopy") /\ n <= SizeOf(head, tail)
          /\ tail' = Around(tail + n)
          /\ cpu' \in IF Faults THEN {p, None} ELSE {p}
          /\ UNCHANGED <<sigpipe, asleep, fd, cloexec, fcount, finode, icount>>
          /\ UNCHANGED <<head, ring, sent, received>>
  BY ReadChunkIs
<1>2. /\ tail \in Nat /\ n \in Nat /\ tail + n \in Nat /\ tail + n < 2 * Page
      /\ "read" \in Going /\ "rcopy" \in Going
  BY Unfolded, FilesAssumption DEF Typed, Going
<1>3. Sound(fd', pc', io', fcount', finode', icount')
  BY <1>1, <1>2, MovesTables
<1>4. tail' \in 0 .. Page - 1
  BY <1>1, <1>2, Wraps
<1>5. Typed'
  BY <1>1, <1>4, Unfolded DEF Typed
<1> QED BY <1>3, <1>5 DEF FilesInv

LEMMA WriteChunkKeeps ==
    ASSUME FilesInv, NEW p \in Task, WriteChunk(p)
    PROVE  FilesInv'
<1>1. PICK n \in 1 .. Page :
          /\ Moves(p, n, head, "write", "wcopy") /\ n <= (Page - 1) - SizeOf(head, tail)
          /\ head' = Around(head + n)
          /\ cpu' \in IF Faults THEN {p, None} ELSE {p}
          /\ UNCHANGED <<sigpipe, asleep, fd, cloexec, fcount, finode, icount>>
          /\ UNCHANGED <<tail, ring, sent, received>>
  BY WriteChunkIs
<1>2. /\ head \in Nat /\ n \in Nat /\ head + n \in Nat /\ head + n < 2 * Page
      /\ "write" \in Going /\ "wcopy" \in Going
  BY Unfolded, FilesAssumption DEF Typed, Going
<1>3. Sound(fd', pc', io', fcount', finode', icount')
  BY <1>1, <1>2, MovesTables
<1>4. head' \in 0 .. Page - 1
  BY <1>1, <1>2, Wraps
<1>5. Typed'
  BY <1>1, <1>4, Unfolded DEF Typed
<1> QED BY <1>3, <1>5 DEF FilesInv

LEMMA CopiedIs ==
    ASSUME FilesInv, NEW p \in Task, NEW next \in Going, pc[p] \in Going, Copied(p, next)
    PROVE  /\ Sound(fd', pc', io', fcount', finode', icount')
           /\ cpu' = p /\ pc'[p] = next
           /\ \A q \in Task \ {p} : pc'[q] = pc[q] /\ io'[q] = io[q]
           /\ UNCHANGED <<sigpipe, asleep, cloexec, fd, fcount, finode, icount>>
<1> DEFINE r == [io[p] EXCEPT !.chunk = 0, !.at = 0]
<1>1. /\ pc' = [pc EXCEPT ![p] = next] /\ cpu' = p
      /\ UNCHANGED <<sigpipe, asleep, cloexec, fd, fcount, finode, icount>>
  BY DEF Copied, tables
<1>2. io[p] \in Io
  BY Unfolded
<1>3. r \in Io
  BY <1>2 DEF Io
<1>4. io' = [io EXCEPT ![p] = r]
  <2>1. io' = [io EXCEPT ![p].chunk = 0, ![p].at = 0]
    BY DEF Copied
  <2> QED BY <2>1, Unfolded
<1> HIDE DEF r
<1>5. Sound(fd', pc', io', fcount', finode', icount')
  BY <1>1, <1>3, <1>4, GoesOn
<1> QED BY <1>1, <1>4, <1>5, Unfolded

LEMMA CopyKeeps ==
    ASSUME FilesInv, NEW p \in Task, ReadCopy(p) \/ WriteCopy(p)
    PROVE  FilesInv'
<1>1. PICK next \in Going : Copied(p, next)
  BY DEF ReadCopy, WriteCopy, Going
<1>2. pc[p] \in Going /\ UNCHANGED <<head, tail>>
  BY DEF ReadCopy, WriteCopy, Going, Runs
<1>3. /\ Sound(fd', pc', io', fcount', finode', icount') /\ cpu' = p
      /\ UNCHANGED <<sigpipe, asleep, cloexec>>
  BY <1>1, <1>2, CopiedIs
<1>4. Typed'
  BY <1>2, <1>3, Unfolded DEF Typed
<1> QED BY <1>3, <1>4 DEF FilesInv

(***************************************************************************)
(* Every step keeps the invariant. *)
(***************************************************************************)
LEMMA KernelKeeps ==
    ASSUME FilesInv, NEW p \in Task, Kernel(p)
    PROVE  FilesInv'
BY ReadWaitKeeps, ReadChunkKeeps, CopyKeeps, WriteWaitKeeps, WriteChunkKeeps, DoneKeeps
   DEF Kernel

LEMMA StepKeeps ==
    ASSUME FilesInv, [Next]_vars
    PROVE  FilesInv'
<1>1. CASE Next
  <2>1. PICK p \in Task :
           \/ Kernel(p)
           \/ \E d \in Fd :
                 \/ Close(p, d) \/ SetCloexec(p, d)
                 \/ \E e \in Fd : Dup(p, d, e) \/ Dup2(p, d, e)
                 \/ \E n \in 1 .. MaxCount : \E mode \in {"read", "write"} : Start(p, d, n, mode)
           \/ Exec(p) \/ Exit(p) \/ HandleSigpipe(p)
           \/ \E q \in Task : Fork(p, q)
           \/ Open(p) \/ Pipe(p) \/ GiveBack(p) \/ Opened(p) \/ Piped(p)
    BY <1>1 DEF Next
  <2>2. CASE Kernel(p)
    BY <2>2, KernelKeeps
  <2>3. ASSUME NEW d \in Fd, Close(p, d) \/ SetCloexec(p, d)
        PROVE  FilesInv'
    BY <2>3, CloseKeeps, SetCloexecKeeps
  <2>4. ASSUME NEW d \in Fd, NEW e \in Fd, Dup(p, d, e) \/ Dup2(p, d, e)
        PROVE  FilesInv'
    BY <2>4, DupKeeps, Dup2Keeps
  <2>5. ASSUME NEW d \in Fd, NEW n \in 1 .. MaxCount, NEW mode \in {"read", "write"},
               Start(p, d, n, mode)
        PROVE  FilesInv'
    BY <2>5, StartKeeps
  <2>6. ASSUME Exec(p) \/ Exit(p) \/ HandleSigpipe(p)
        PROVE  FilesInv'
    BY <2>6, ExecKeeps, ExitKeeps, HandleSigpipeKeeps
  <2>7. ASSUME NEW q \in Task, Fork(p, q)
        PROVE  FilesInv'
    BY <2>7, ForkKeeps
  <2>8. ASSUME Open(p) \/ Pipe(p) \/ GiveBack(p) \/ Opened(p) \/ Piped(p)
        PROVE  FilesInv'
    BY <2>8, OpenKeeps, PipeKeeps, GiveBackKeeps, OpenedKeeps, PipedKeeps
  <2> QED BY <2>1, <2>2, <2>3, <2>4, <2>5, <2>6, <2>7, <2>8
<1>2. CASE UNCHANGED vars
  BY <1>2 DEF vars, tables, pipe, FilesInv, Typed
<1> QED BY <1>1, <1>2

LEMMA Counts == FilesInv => FileCounts
<1> SUFFICES ASSUME FilesInv PROVE FileCounts
  OBVIOUS
<1>1. TypeOK
  BY Unfolded DEF Typed, TypeOK, FdTable, Place
<1>2. \A f \in File :
          fcount[f] = Cardinality({u \in Task \X Fd : fd[u[1]][u[2]] = f})
  BY DEF FilesInv, Sound, Counted, Held
<1>3. \A f \in File : InCall(f) <=> f \in InCalls(fd, pc, io)
  <2> TAKE f \in File
  <2>1. \A p \in Task : Uses(p, Mine(p), f) > 0 <=> \E d \in OfCall(pc, io, p) : fd[p][d] = f
    <3> TAKE p \in Task
    <3>1. Mine(p) = OfCall(pc, io, p)
      BY MineIsOfCall
    <3>2. OfCall(pc, io, p) \in SUBSET Fd
      BY DEF FilesInv, Sound, OwnFiles
    <3>3. Uses(p, Mine(p), f) = UsesIn(fd, p, OfCall(pc, io, p), f)
      BY <3>1 DEF Uses, UsesIn
    <3> QED BY <3>2, <3>3, UsesSome
  <2> QED BY <2>1 DEF InCall, InCalls
<1>4. ASSUME NEW i \in DOMAIN icount
      PROVE  icount[i] = Cardinality({f \in File : /\ fcount[f] > 0 /\ ~InCall(f)
                                                   /\ finode[f] = i})
  <2>1. i \in Kind
    BY Unfolded
  <2>2. Naming(fd, pc, io, fcount, finode, i)
        = {f \in File : fcount[f] > 0 /\ ~InCall(f) /\ finode[f] = i}
    BY <1>3 DEF Naming
  <2> QED BY <2>1, <2>2 DEF FilesInv, Sound
<1> QED BY <1>1, <1>2, <1>4 DEF FileCounts

(* f_count and i_count are exact, whatever calls are under way: how many   *)
(* tasks, descriptors and files there are makes no difference.             *)
THEOREM FilesAreCounted == Spec => []FileCounts
<1>1. Init => FilesInv
  BY InitInv
<1>2. FilesInv /\ [Next]_vars => FilesInv'
  BY StepKeeps
<1>3. FilesInv => FileCounts
  BY Counts
<1> QED BY <1>1, <1>2, <1>3, PTL DEF Spec

(***************************************************************************)
(* The pipe.  Contents in terms of the tables: the sum over the tasks that *)
(* copy is the chunk of the one that does, since nobody sleeps in a copy.  *)
(***************************************************************************)
BeingOf(I, P, c) == MapThenSumSet(LAMBDA p : I[p].chunk, {p \in Task : P[p] = c})
QueueOf(r, s, n) == [i \in 1 .. n |-> r[(s + i - 1) % Page]]
InPipe(r, h, t, I, P) ==
    QueueOf(r, t + Page - BeingOf(I, P, "rcopy"),
            (SizeOf(h, t) + BeingOf(I, P, "rcopy")) - BeingOf(I, P, "wcopy"))
LEMMA ContentsIs ==
    /\ Contents = InPipe(ring, head, tail, io, pc)
    /\ Contents' = InPipe(ring', head', tail', io', pc')
<1>1. Size = SizeOf(head, tail)
  BY DEF Size, SizeOf
<1>2. Size' = SizeOf(head', tail')
  BY DEF Size, SizeOf
<1>3. \A c : Being(c) = BeingOf(io, pc, c)
  BY DEF Being, BeingOf
<1>4. Being("rcopy")' = BeingOf(io', pc', "rcopy") /\ Being("wcopy")' = BeingOf(io', pc', "wcopy")
  BY DEF Being, BeingOf, MapThenSumSet, MapThenFoldSet
<1> QED BY <1>1, <1>2, <1>3, <1>4 DEF Contents, InPipe, QueueOf

LEMMA NoneBeing ==
    ASSUME NEW I, NEW P, NEW c, \A p \in Task : P[p] # c
    PROVE  BeingOf(I, P, c) = 0
<1>1. {p \in Task : P[p] = c} = {}
  OBVIOUS
<1>2. MapThenSumSet(LAMBDA p : I[p].chunk, {}) = 0
  BY DEF MapThenSumSet, MapThenFoldSet
<1> QED BY <1>1, <1>2 DEF BeingOf
LEMMA SumOfOne ==
    ASSUME NEW I, NEW q, I[q].chunk \in Nat
    PROVE  MapThenSumSet(LAMBDA p : I[p].chunk, {q}) = I[q].chunk
<1> DEFINE Body(g) == [s \in SUBSET {q} |->
                         IF s = {} THEN 0
                         ELSE LET x == CHOOSE y \in s : TRUE
                              IN  I[x].chunk + g[s \ {x}]]
           iter == CHOOSE g : g = Body(g)
           sum  == [s \in SUBSET {q} |-> IF s = {} THEN 0 ELSE I[q].chunk]
<1>1. (CHOOSE y \in {q} : TRUE) = q /\ {q} \ {q} = {} /\ {} \in SUBSET {q} /\ {q} \in SUBSET {q}
      /\ {q} # {}
  OBVIOUS
<1>2. \A s \in SUBSET {q} : s = {} \/ s = {q}
  OBVIOUS
<1>3. sum = Body(sum)
  <2>1. \A s \in SUBSET {q} : sum[s] = Body(sum)[s]
    <3> TAKE s \in SUBSET {q}
    <3>1. CASE s = {}
      BY <3>1
    <3>2. CASE s = {q}
      <4>1. sum[{q}] = I[q].chunk /\ sum[{}] = 0
        BY <1>1
      <4>2. Body(sum)[{q}] = I[q].chunk + sum[{}]
        BY <1>1
      <4> QED BY <3>2, <4>1, <4>2
    <3> QED BY <1>2, <3>1, <3>2
  <2>2. Body(sum) = [s \in SUBSET {q} |-> Body(sum)[s]]
    OBVIOUS
  <2> QED BY <2>1, <2>2
<1>4. iter = Body(iter)
  <2> HIDE DEF Body, sum
  <2> QED BY <1>3
<1>5. iter[{}] = 0
  <2>1. Body(iter)[{}] = 0
    BY <1>1
  <2> HIDE DEF Body, iter
  <2> QED BY <1>4, <2>1
<1>6. iter[{q}] = I[q].chunk
  <2>1. Body(iter)[{q}] = I[q].chunk + iter[{}]
    <3> HIDE DEF iter
    <3> QED BY <1>1
  <2> HIDE DEF Body, iter
  <2> QED BY <1>4, <1>5, <2>1
<1>7. MapThenSumSet(LAMBDA p : I[p].chunk, {q}) = iter[{q}]
  BY DEF MapThenSumSet, MapThenFoldSet
<1> QED BY <1>6, <1>7

Copies == {"rcopy", "wcopy"}

(* Task p copies, at place c, and nobody else does. *)
CopiesAlone(P, p, c) == P[p] = c /\ c \in Copies /\ \A q \in Task \ {p} : P[q] \notin Copies

LEMMA OneBeing ==
    ASSUME NEW I, NEW P, NEW c, NEW p \in Task, CopiesAlone(P, p, c), I[p].chunk \in Nat
    PROVE  BeingOf(I, P, c) = I[p].chunk
<1>1. {q \in Task : P[q] = c} = {p}
  BY DEF CopiesAlone
<1>2. MapThenSumSet(LAMBDA q : I[q].chunk, {p}) = I[p].chunk
  BY SumOfOne
<1> QED BY <1>1, <1>2 DEF BeingOf

LEMMA NoOtherBeing ==
    ASSUME NEW I, NEW P, NEW c, NEW p \in Task, CopiesAlone(P, p, c), NEW e \in Copies, e # c
    PROVE  BeingOf(I, P, e) = 0
<1>1. \A q \in Task : P[q] # e
  BY DEF CopiesAlone
<1> QED BY <1>1, NoneBeing

(* The n bytes of the ring from place s on. *)
Ring(r, s, n) == [i \in 1 .. n |-> r[Around(s + i - 1)]]

LEMMA RingIs ==
    ASSUME NEW r, NEW s \in 0 .. Page - 1, NEW n \in 0 .. Page
    PROVE  QueueOf(r, s, n) = Ring(r, s, n) /\ QueueOf(r, s + Page, n) = Ring(r, s, n)
<1>1. Page \in Nat \ {0}
  BY FilesAssumption
<1>2. ASSUME NEW i \in 1 .. n
      PROVE  /\ (s + i - 1) % Page = Around(s + i - 1)
             /\ (s + Page + i - 1) % Page = Around(s + i - 1)
  <2>1. s + i - 1 \in Nat /\ s + i - 1 < 2 * Page /\ s + i - 1 \in 0 .. 2 * Page - 1
    BY <1>1
  <2>2. s + Page + i - 1 = (s + i - 1) + Page
    BY <1>1
  <2> QED BY <2>1, <2>2, Wraps
<1> QED BY <1>2 DEF QueueOf, Ring

LEMMA RestingPipe ==
    ASSUME NEW r, NEW h \in 0 .. Page - 1, NEW t \in 0 .. Page - 1, NEW I, NEW P,
           \A p \in Task : P[p] \notin Copies
    PROVE  InPipe(r, h, t, I, P) = Ring(r, t, SizeOf(h, t))
<1>1. BeingOf(I, P, "rcopy") = 0 /\ BeingOf(I, P, "wcopy") = 0
  BY NoneBeing DEF Copies
<1>2. Page \in Nat \ {0} /\ SizeOf(h, t) \in 0 .. Page - 1
  BY FilesAssumption, SizeIs
<1>3. t + Page - 0 = t + Page /\ (SizeOf(h, t) + 0) - 0 = SizeOf(h, t) /\ SizeOf(h, t) \in 0 .. Page
  BY <1>2
<1>4. InPipe(r, h, t, I, P) = QueueOf(r, t + Page, SizeOf(h, t))
  BY <1>1, <1>3 DEF InPipe
<1> QED BY <1>3, <1>4, RingIs

(* The chunk of task p starts at place a, ends at t and was in the ring. *)
ReadsAt(I, p, a, h, t) ==
    /\ I[p].chunk \in 1 .. Page /\ a \in Nat /\ a + I[p].chunk <= Page
    /\ t = Around(a + I[p].chunk) /\ SizeOf(h, t) + I[p].chunk <= Page - 1

LEMMA ReadingPipe ==
    ASSUME NEW r, NEW h \in 0 .. Page - 1, NEW t \in 0 .. Page - 1, NEW I, NEW P,
           NEW p \in Task, CopiesAlone(P, p, "rcopy"),
           NEW a, ReadsAt(I, p, a, h, t)
    PROVE  InPipe(r, h, t, I, P) = Ring(r, a, SizeOf(h, t) + I[p].chunk)
<1> DEFINE n == I[p].chunk
<1>0. /\ n \in 1 .. Page /\ SizeOf(h, t) + n <= Page - 1 /\ a \in Nat
      /\ a + n <= Page /\ t = Around(a + n)
  BY DEF ReadsAt
<1>1. BeingOf(I, P, "rcopy") = n
  <2>1. I[p].chunk \in Nat
    BY <1>0
  <2> QED BY <2>1, OneBeing
<1>2. BeingOf(I, P, "wcopy") = 0
  BY NoOtherBeing DEF Copies
<1> HIDE DEF n
<1>3. Page \in Nat \ {0} /\ SizeOf(h, t) \in 0 .. Page - 1
  BY FilesAssumption, SizeIs
<1>4. /\ a \in 0 .. Page - 1 /\ SizeOf(h, t) + n \in 0 .. Page
      /\ (SizeOf(h, t) + n) - 0 = SizeOf(h, t) + n
  BY <1>0, <1>3
<1>5. t + Page - n = a \/ t + Page - n = a + Page
  BY <1>0, <1>3, <1>4 DEF Around
<1>6. InPipe(r, h, t, I, P) = QueueOf(r, t + Page - n, SizeOf(h, t) + n)
  BY <1>1, <1>2, <1>4 DEF InPipe
<1> QED BY <1>4, <1>5, <1>6, RingIs DEF n

LEMMA WritingPipe ==
    ASSUME NEW r, NEW h \in 0 .. Page - 1, NEW t \in 0 .. Page - 1, NEW I, NEW P,
           NEW p \in Task, CopiesAlone(P, p, "wcopy"),
           I[p].chunk \in 1 .. Page, I[p].chunk <= SizeOf(h, t)
    PROVE  InPipe(r, h, t, I, P) = Ring(r, t, SizeOf(h, t) - I[p].chunk)
<1> DEFINE n == I[p].chunk
<1>0. n \in 1 .. Page /\ n <= SizeOf(h, t)
  OBVIOUS
<1>1. BeingOf(I, P, "wcopy") = n
  <2>1. I[p].chunk \in Nat
    BY <1>0
  <2> QED BY <2>1, OneBeing
<1>2. BeingOf(I, P, "rcopy") = 0
  BY NoOtherBeing DEF Copies
<1> HIDE DEF n
<1>3. Page \in Nat \ {0} /\ SizeOf(h, t) \in 0 .. Page - 1
  BY FilesAssumption, SizeIs
<1>4. t + Page - 0 = t + Page /\ (SizeOf(h, t) + 0) - n = SizeOf(h, t) - n /\ SizeOf(h, t) - n \in 0 .. Page
  BY <1>0, <1>3
<1>5. InPipe(r, h, t, I, P) = QueueOf(r, t + Page, SizeOf(h, t) - n)
  BY <1>1, <1>2, <1>4 DEF InPipe
<1> QED BY <1>4, <1>5, RingIs DEF n

(* How the size changes when an end moves. *)
LEMMA TailMoves ==
    ASSUME NEW h \in 0 .. Page - 1, NEW t \in 0 .. Page - 1, NEW n \in 1 .. Page,
           t + n <= Page, n <= SizeOf(h, t)
    PROVE  /\ Around(t + n) \in 0 .. Page - 1
           /\ SizeOf(h, Around(t + n)) + n = SizeOf(h, t)
<1>1. Page \in Nat \ {0}
  BY FilesAssumption
<1>2. Around(t + n) \in 0 .. Page - 1
  BY <1>1 DEF Around
<1>3. SizeOf(h, Around(t + n)) = IF h >= Around(t + n) THEN h - Around(t + n)
                                 ELSE (h + Page) - Around(t + n)
  BY <1>2, SizeIs
<1>4. SizeOf(h, t) = IF h >= t THEN h - t ELSE (h + Page) - t
  BY SizeIs
<1>5. CASE t + n < Page
  <2>1. Around(t + n) = t + n
    BY <1>1, <1>5 DEF Around
  <2> QED BY <1>1, <1>2, <1>3, <1>4, <2>1
<1>6. CASE t + n = Page
  <2>1. Around(t + n) = 0
    BY <1>1, <1>6 DEF Around
  <2> QED BY <1>1, <1>2, <1>3, <1>4, <1>6, <2>1
<1> QED BY <1>1, <1>5, <1>6

LEMMA HeadMoves ==
    ASSUME NEW h \in 0 .. Page - 1, NEW t \in 0 .. Page - 1, NEW n \in 1 .. Page,
           h + n <= Page, n <= (Page - 1) - SizeOf(h, t)
    PROVE  /\ Around(h + n) \in 0 .. Page - 1
           /\ SizeOf(Around(h + n), t) = SizeOf(h, t) + n
<1>1. Page \in Nat \ {0}
  BY FilesAssumption
<1>2. Around(h + n) \in 0 .. Page - 1
  BY <1>1 DEF Around
<1>3. SizeOf(Around(h + n), t) = IF Around(h + n) >= t THEN Around(h + n) - t
                                 ELSE (Around(h + n) + Page) - t
  BY <1>2, SizeIs
<1>4. SizeOf(h, t) = IF h >= t THEN h - t ELSE (h + Page) - t
  BY SizeIs
<1>5. CASE h + n < Page
  <2>1. Around(h + n) = h + n
    BY <1>1, <1>5 DEF Around
  <2> QED BY <1>1, <1>2, <1>3, <1>4, <2>1
<1>6. CASE h + n = Page
  <2>1. Around(h + n) = 0
    BY <1>1, <1>6 DEF Around
  <2> QED BY <1>1, <1>2, <1>3, <1>4, <1>6, <2>1
<1> QED BY <1>1, <1>5, <1>6
LEMMA RingLen ==
    ASSUME NEW r, NEW s, NEW n \in Nat
    PROVE  Len(Ring(r, s, n)) = n /\ \A i \in 1 .. n : Ring(r, s, n)[i] = r[Around(s + i - 1)]
BY DEF Ring

LEMMA RingSeq ==
    ASSUME NEW r \in [0 .. Page - 1 -> Nat], NEW s \in 0 .. Page - 1, NEW n \in 0 .. Page
    PROVE  Ring(r, s, n) \in Seq(Nat) /\ Len(Ring(r, s, n)) = n
<1>1. Page \in Nat \ {0} /\ n \in Nat
  BY FilesAssumption
<1>2. ASSUME NEW i \in 1 .. n PROVE r[Around(s + i - 1)] \in Nat
  <2>1. s + i - 1 \in Nat /\ s + i - 1 < 2 * Page
    BY <1>1
  <2> QED BY <2>1, Wraps
<1>3. Ring(r, s, n) \in [1 .. n -> Nat]
  BY <1>2 DEF Ring
<1> QED BY <1>1, <1>3

(* A read that has been copied out takes the bytes at the front. *)
Bytes(r, a, n) == [i \in 1 .. n |-> r[a + i - 1]]

LEMMA RingTakes ==
    ASSUME NEW r \in [0 .. Page - 1 -> Nat], NEW a \in Nat, NEW n \in 1 .. Page,
           NEW m \in Nat, a + n <= Page, m + n <= Page - 1
    PROVE  /\ Len(Ring(r, a, m + n)) = m + n
           /\ SubSeq(Ring(r, a, m + n), 1, n) = Bytes(r, a, n)
           /\ SubSeq(Ring(r, a, m + n), n + 1, m + n) = Ring(r, Around(a + n), m)
<1> DEFINE s == Ring(r, a, m + n)
<1>1. Page \in Nat \ {0} /\ m + n \in Nat /\ n \in Nat
  BY FilesAssumption
<1>2. Len(s) = m + n /\ \A i \in 1 .. m + n : s[i] = r[Around(a + i - 1)]
  BY <1>1, RingLen
<1> HIDE DEF s
<1>3. SubSeq(s, 1, n) = [i \in 1 .. n |-> r[a + i - 1]]
  <2>1. SubSeq(s, 1, n) = [i \in 1 .. n |-> s[i]]
    BY <1>1
  <2>2. \A i \in 1 .. n : s[i] = r[a + i - 1]
    BY <1>1, <1>2 DEF Around
  <2> QED BY <2>1, <2>2
<1>4. SubSeq(s, n + 1, m + n) = Ring(r, Around(a + n), m)
  <2>1. SubSeq(s, n + 1, m + n) = [i \in 1 .. m |-> s[n + i]]
    <3>1. SubSeq(s, n + 1, m + n) = [i \in 1 .. (m + n) - (n + 1) + 1 |-> s[i + (n + 1) - 1]]
      BY <1>1
    <3>2. (m + n) - (n + 1) + 1 = m /\ \A i \in 1 .. m : i + (n + 1) - 1 = n + i
      BY <1>1
    <3> QED BY <3>1, <3>2
  <2>2. ASSUME NEW i \in 1 .. m PROVE s[n + i] = r[Around(Around(a + n) + i - 1)]
    <3>1. s[n + i] = r[Around(a + (n + i) - 1)]
      BY <1>1, <1>2
    <3>2. Around(a + (n + i) - 1) = Around(Around(a + n) + i - 1)
      BY <1>1 DEF Around
    <3> QED BY <3>1, <3>2
  <2> QED BY <2>1, <2>2 DEF Ring
<1> QED BY <1>2, <1>3, <1>4 DEF s, Bytes

(* A write that has been copied in adds its bytes at the end. *)
Numbers(v, n) == [i \in 1 .. n |-> v + i]

Appended(s, r, t, k, n, v) ==
    Ring(s, t, k + n) = Ring(r, t, k) \o Numbers(v, n)

(* Place a is k places on from t. *)
Ahead(t, k, a) == t + k = a \/ t + k = a + Page

Written(s, r, a, n, v) ==
    \A b \in 0 .. Page - 1 : s[b] = IF b \in a .. a + n - 1 THEN v + (b - a) + 1 ELSE r[b]

LEMMA RingPuts ==
    ASSUME NEW r \in [0 .. Page - 1 -> Nat], NEW v \in Nat, NEW t \in 0 .. Page - 1,
           NEW a \in Nat, NEW n \in Nat, n > 0, a + n <= Page,
           NEW k \in Nat, k + n < Page, Ahead(t, k, a),
           NEW s \in [0 .. Page - 1 -> Nat], Written(s, r, a, n, v)
    PROVE  Appended(s, r, t, k, n, v)
<1> DEFINE x == Ring(r, t, k)
           y == [i \in 1 .. n |-> v + i]
<1>1. Page \in Nat \ {0} /\ t \in Nat /\ k + n \in Nat
  BY FilesAssumption
<1>6. ASSUME NEW i \in 1 .. k
      PROVE  s[Around(t + i - 1)] = r[Around(t + i - 1)]
  <2>1. Around(t + i - 1) \in 0 .. Page - 1
    BY <1>1 DEF Around, Ahead
  <2>2. Around(t + i - 1) \notin a .. a + n - 1
    BY <1>1 DEF Around, Ahead
  <2> QED BY <2>1, <2>2 DEF Written
<1>7. ASSUME NEW i \in 1 .. n
      PROVE  s[Around(t + (k + i) - 1)] = v + i
  <2>1. Around(t + (k + i) - 1) = a + i - 1
    BY <1>1 DEF Around, Ahead
  <2>2. a + i - 1 \in 0 .. Page - 1 /\ a + i - 1 \in a .. a + n - 1 /\ v + ((a + i - 1) - a) + 1 = v + i
    BY <1>1
  <2> QED BY <2>1, <2>2 DEF Written
<1>8. Len(x) = k /\ (\A i \in 1 .. k : x[i] = r[Around(t + i - 1)])
  BY RingLen
<1>9. Len(y) = n /\ (\A i \in 1 .. n : y[i] = v + i) /\ y \in Seq(Nat)
  OBVIOUS
<1>10. x \in Seq(Nat)
  <2>1. k \in 0 .. Page
    BY <1>1
  <2> QED BY <2>1, RingSeq
<1> HIDE DEF x, y
<1>11. x \o y = [i \in 1 .. k + n |-> IF i <= k THEN x[i] ELSE y[i - k]]
  <2>1. /\ x \o y \in Seq(Nat) /\ Len(x \o y) = k + n
        /\ \A i \in 1 .. k + n : (x \o y)[i] = IF i <= k THEN x[i] ELSE y[i - k]
    BY <1>8, <1>9, <1>10, ConcatProperties
  <2>2. x \o y = [i \in 1 .. k + n |-> (x \o y)[i]]
    <3>1. x \o y \in [1 .. Len(x \o y) -> Nat]
      BY <2>1, LenProperties
    <3>2. x \o y \in [1 .. k + n -> Nat]
      BY <2>1, <3>1
    <3> QED BY <3>2
  <2> QED BY <2>1, <2>2
<1>12. ASSUME NEW i \in 1 .. k + n
       PROVE  s[Around(t + i - 1)] = IF i <= k THEN x[i] ELSE y[i - k]
  <2>1. CASE i <= k
    BY <1>6, <1>8, <2>1
  <2>2. CASE ~(i <= k)
    <3>1. i - k \in 1 .. n /\ k + (i - k) = i
      BY <2>2
    <3>2. s[Around(t + (k + (i - k)) - 1)] = v + (i - k)
      BY <1>7, <3>1
    <3> QED BY <1>9, <2>2, <3>1, <3>2
  <2> QED BY <2>1, <2>2
<1>13. Ring(s, t, k + n) = x \o y
  BY <1>11, <1>12 DEF Ring
<1> QED BY <1>13 DEF x, y, Numbers, Appended

LEMMA RoomPut ==
    ASSUME NEW t \in 0 .. Page - 1, NEW a \in Nat, NEW n \in Nat, n > 0, a + n <= Page,
           n <= SizeOf(Around(a + n), t)
    PROVE  \E k \in Nat : /\ SizeOf(Around(a + n), t) = k + n /\ k + n < Page
                         /\ Ahead(t, k, a)
<1> DEFINE h == Around(a + n)
           m == SizeOf(h, t)
<1>1. Page \in Nat \ {0}
  BY FilesAssumption
<1>2. h \in 0 .. Page - 1 /\ h = IF a + n = Page THEN 0 ELSE a + n
  BY <1>1 DEF Around
<1>3. m \in 0 .. Page - 1 /\ m = IF h >= t THEN h - t ELSE (h + Page) - t
  BY <1>2, SizeIs
<1>4. n <= m
  OBVIOUS
<1> HIDE DEF h, m
<1>5. m - n \in Nat /\ m = (m - n) + n /\ (m - n) + n < Page
  BY <1>1, <1>3, <1>4
<1>6. t + (m - n) = a \/ t + (m - n) = a + Page
  BY <1>1, <1>2, <1>3, <1>4
<1> QED BY <1>5, <1>6 DEF h, m, Ahead
(* The bytes in the pipe: c is cpu, s is sent and v received. *)
ChunksOK(P, I, c, h, t) ==
    \A q \in Task : P[q] \in Copies =>
        /\ c = q
        /\ I[q].chunk \in 1 .. Page - 1 /\ I[q].at \in Nat /\ I[q].at + I[q].chunk <= Page
        /\ P[q] = "rcopy" => /\ t = Around(I[q].at + I[q].chunk)
                             /\ SizeOf(h, t) + I[q].chunk <= Page - 1
        /\ P[q] = "wcopy" => /\ h = Around(I[q].at + I[q].chunk)
                             /\ I[q].chunk <= SizeOf(h, t)

Flowing(P, I, c, h, t, r, s, v) ==
    /\ r \in [0 .. Page - 1 -> Nat] /\ s \in Nat /\ v \in Seq(Nat)
    /\ ChunksOK(P, I, c, h, t)
    /\ s = Len(v) + Len(InPipe(r, h, t, I, P))

Flow == Flowing(pc, io, cpu, head, tail, ring, sent, received)

(* A step of the queue, from u to w, with v and then x received. *)
QueueStep(u, w, v, x) ==
    \/ /\ \E s \in 1 .. (Page - 1) - Len(u) :
             w = u \o [i \in 1 .. s |-> Len(v) + Len(u) + i]
       /\ x = v
    \/ \E s \in 1 .. Len(u) :
          /\ x = v \o SubSeq(u, 1, s)
          /\ w = SubSeq(u, s + 1, Len(u))
    \/ w = <<>> /\ x = <<>>
    \/ w = u /\ x = v

FlowStep == Flow' /\ QueueStep(Contents, Contents', received, received')

(* Nobody copies, before and after, and the pipe is left alone.            *)
LEMMA FlowRests ==
    ASSUME FilesInv, Flow, UNCHANGED <<head, tail, ring, sent, received>>,
           \A q \in Task : pc[q] \notin Copies /\ pc'[q] \notin Copies
    PROVE  FlowStep
<1>1. /\ head \in 0 .. Page - 1 /\ tail \in 0 .. Page - 1
      /\ head' = head /\ tail' = tail /\ ring' = ring /\ sent' = sent /\ received' = received
  BY Unfolded DEF Typed
<1>2. InPipe(ring, head, tail, io, pc) = Ring(ring, tail, SizeOf(head, tail))
  BY <1>1, RestingPipe
<1>3. InPipe(ring', head', tail', io', pc') = Ring(ring, tail, SizeOf(head, tail))
  BY <1>1, RestingPipe
<1>4. Contents' = Contents
  BY <1>2, <1>3, ContentsIs
<1>5. ChunksOK(pc', io', cpu', head', tail')
  BY DEF ChunksOK
<1>6. Flow'
  BY <1>1, <1>2, <1>3, <1>5 DEF Flow, Flowing
<1>7. QueueStep(Contents, Contents', received, received')
  BY <1>1, <1>4 DEF QueueStep
<1> QED BY <1>6, <1>7 DEF FlowStep

(* The pipe is emptied. *)
LEMMA FlowEnds ==
    ASSUME head' = 0, tail' = 0, sent' = 0, received' = <<>>,
           ring' \in [0 .. Page - 1 -> Nat], \A q \in Task : pc'[q] \notin Copies
    PROVE  FlowStep
<1>1. 0 \in 0 .. Page - 1
  BY FilesAssumption
<1>2. SizeOf(0, 0) = 0
  <2>1. SizeOf(0, 0) = 0 - 0
    BY <1>1, SizeIs
  <2> QED BY <2>1
<1>3. InPipe(ring', 0, 0, io', pc') = Ring(ring', 0, 0)
  BY <1>1, <1>2, RestingPipe
<1>4. Ring(ring', 0, 0) = <<>>
  BY DEF Ring
<1>5. Contents' = <<>>
  BY <1>3, <1>4, ContentsIs
<1>6. ChunksOK(pc', io', cpu', head', tail')
  BY DEF ChunksOK
<1>7. Flow'
  BY <1>3, <1>4, <1>6 DEF Flow, Flowing
<1>8. QueueStep(Contents, Contents', received, received')
  BY <1>5 DEF QueueStep
<1> QED BY <1>7, <1>8 DEF FlowStep
LEMMA Alone ==
    ASSUME Flow, NEW p \in Task, cpu \in {p, None}
    PROVE  \A q \in Task \ {p} : pc[q] \notin Copies
BY NoneAssumption DEF Flow, Flowing, ChunksOK

LEMMA NobodyCopies ==
    ASSUME Flow, cpu = None
    PROVE  \A q \in Task : pc[q] \notin Copies
BY NoneAssumption DEF Flow, Flowing, ChunksOK

LEMMA ReadChunkFlows ==
    ASSUME FilesInv, Flow, ~Faults, NEW p \in Task, ReadChunk(p)
    PROVE  FlowStep
<1>1. PICK n \in 1 .. Page :
          /\ Moves(p, n, tail, "read", "rcopy") /\ n <= SizeOf(head, tail)
          /\ tail' = Around(tail + n)
          /\ cpu' \in IF Faults THEN {p, None} ELSE {p}
          /\ UNCHANGED <<sigpipe, asleep, fd, cloexec, fcount, finode, icount>>
          /\ UNCHANGED <<head, ring, sent, received>>
  BY ReadChunkIs
<1>2. /\ head \in 0 .. Page - 1 /\ tail \in 0 .. Page - 1 /\ Page \in Nat \ {0} /\ tail \in Nat
      /\ n \in Nat /\ "read" \in Going /\ "rcopy" \in Going
  BY Unfolded, FilesAssumption DEF Typed, Going
<1>3. /\ pc[p] = "read" /\ pc'[p] = "rcopy" /\ io'[p].chunk = n /\ io'[p].at = tail
      /\ \A q \in Task \ {p} : pc'[q] = pc[q] /\ io'[q] = io[q]
  BY <1>1, <1>2, MovesTables
<1>4. cpu' = p /\ tail + n <= Page /\ cpu \in {p, None}
  BY <1>1 DEF Moves, ReadChunk, Runs
<1>5. \A q \in Task \ {p} : pc[q] \notin Copies /\ pc'[q] \notin Copies
  BY <1>3, <1>4, Alone
<1>6. \A q \in Task : pc[q] \notin Copies
  BY <1>3, <1>5 DEF Copies
<1>7. /\ tail' \in 0 .. Page - 1 /\ SizeOf(head, tail') + n = SizeOf(head, tail)
      /\ SizeOf(head, tail) \in 0 .. Page - 1 /\ SizeOf(head, tail') \in 0 .. Page - 1
  BY <1>1, <1>2, <1>4, TailMoves, SizeIs
<1>8. InPipe(ring, head, tail, io, pc) = Ring(ring, tail, SizeOf(head, tail))
  BY <1>2, <1>6, RestingPipe
<1>9. InPipe(ring', head', tail', io', pc') = Ring(ring, tail, SizeOf(head, tail))
  <2>1. SizeOf(head, tail') + n <= Page - 1
    BY <1>7
  <2>2. /\ head \in 0 .. Page - 1 /\ tail' \in 0 .. Page - 1
        /\ CopiesAlone(pc', p, "rcopy") /\ ReadsAt(io', p, tail, head, tail')
    BY <1>1, <1>2, <1>3, <1>4, <1>5, <1>7, <2>1 DEF ReadsAt, CopiesAlone, Copies
  <2>3. InPipe(ring, head, tail', io', pc') = Ring(ring, tail, SizeOf(head, tail') + io'[p].chunk)
    BY <2>2, ReadingPipe
  <2> QED BY <1>1, <1>3, <1>7, <2>3
<1>10. Contents' = Contents
  BY <1>8, <1>9, ContentsIs
<1>11. ChunksOK(pc', io', cpu', head', tail')
  <2>1. n \in 1 .. Page - 1 /\ SizeOf(head', tail') + n <= Page - 1
    BY <1>1, <1>2, <1>7
  <2> QED BY <1>1, <1>2, <1>3, <1>4, <1>5, <2>1 DEF ChunksOK
<1>12. Flow'
  BY <1>1, <1>8, <1>9, <1>11 DEF Flow, Flowing
<1>13. QueueStep(Contents, Contents', received, received')
  BY <1>1, <1>10 DEF QueueStep
<1> QED BY <1>12, <1>13 DEF FlowStep

LEMMA WriteChunkFlows ==
    ASSUME FilesInv, Flow, ~Faults, NEW p \in Task, WriteChunk(p)
    PROVE  FlowStep
<1>1. PICK n \in 1 .. Page :
          /\ Moves(p, n, head, "write", "wcopy") /\ n <= (Page - 1) - SizeOf(head, tail)
          /\ head' = Around(head + n)
          /\ cpu' \in IF Faults THEN {p, None} ELSE {p}
          /\ UNCHANGED <<sigpipe, asleep, fd, cloexec, fcount, finode, icount>>
          /\ UNCHANGED <<tail, ring, sent, received>>
  BY WriteChunkIs
<1>2. /\ head \in 0 .. Page - 1 /\ tail \in 0 .. Page - 1 /\ Page \in Nat \ {0} /\ head \in Nat
      /\ n \in Nat /\ "write" \in Going /\ "wcopy" \in Going
  BY Unfolded, FilesAssumption DEF Typed, Going
<1>3. /\ pc[p] = "write" /\ pc'[p] = "wcopy" /\ io'[p].chunk = n /\ io'[p].at = head
      /\ \A q \in Task \ {p} : pc'[q] = pc[q] /\ io'[q] = io[q]
  BY <1>1, <1>2, MovesTables
<1>4. cpu' = p /\ head + n <= Page /\ cpu \in {p, None}
  BY <1>1 DEF Moves, WriteChunk, Runs
<1>5. \A q \in Task \ {p} : pc[q] \notin Copies /\ pc'[q] \notin Copies
  BY <1>3, <1>4, Alone
<1>6. \A q \in Task : pc[q] \notin Copies
  BY <1>3, <1>5 DEF Copies
<1>7. /\ head' \in 0 .. Page - 1 /\ SizeOf(head', tail) = SizeOf(head, tail) + n
      /\ SizeOf(head, tail) \in 0 .. Page - 1 /\ SizeOf(head', tail) \in 0 .. Page - 1
  <2>1. /\ Around(head + n) \in 0 .. Page - 1
        /\ SizeOf(Around(head + n), tail) = SizeOf(head, tail) + n
    BY <1>1, <1>2, <1>4, HeadMoves
  <2> QED BY <1>1, <1>2, <2>1, SizeIs
<1>8. InPipe(ring, head, tail, io, pc) = Ring(ring, tail, SizeOf(head, tail))
  BY <1>2, <1>6, RestingPipe
<1>9. InPipe(ring', head', tail', io', pc') = Ring(ring, tail, SizeOf(head, tail))
  <2>1. n <= SizeOf(head', tail) /\ SizeOf(head', tail) - n = SizeOf(head, tail)
    BY <1>2, <1>7
  <2>2. InPipe(ring, head', tail, io', pc') = Ring(ring, tail, SizeOf(head', tail) - n)
    <3>1. /\ head' \in 0 .. Page - 1 /\ tail \in 0 .. Page - 1
          /\ CopiesAlone(pc', p, "wcopy")
          /\ io'[p].chunk \in 1 .. Page /\ io'[p].chunk <= SizeOf(head', tail)
      BY <1>2, <1>3, <1>5, <1>7, <2>1 DEF CopiesAlone, Copies
    <3>2. InPipe(ring, head', tail, io', pc') = Ring(ring, tail, SizeOf(head', tail) - io'[p].chunk)
      BY <3>1, WritingPipe
    <3> QED BY <1>3, <3>2
  <2> QED BY <1>1, <2>1, <2>2
<1>10. Contents' = Contents
  BY <1>8, <1>9, ContentsIs
<1>11. ChunksOK(pc', io', cpu', head', tail')
  <2>1. n \in 1 .. Page - 1 /\ n <= SizeOf(head', tail')
    BY <1>1, <1>2, <1>7
  <2> QED BY <1>1, <1>2, <1>3, <1>4, <1>5, <2>1 DEF ChunksOK
<1>12. Flow'
  BY <1>1, <1>8, <1>9, <1>11 DEF Flow, Flowing
<1>13. QueueStep(Contents, Contents', received, received')
  BY <1>1, <1>10 DEF QueueStep
<1> QED BY <1>12, <1>13 DEF FlowStep
LEMMA ReadCopyFlows ==
    ASSUME FilesInv, Flow, NEW p \in Task, ReadCopy(p)
    PROVE  FlowStep
<1> DEFINE n == io[p].chunk
           a == io[p].at
           m == SizeOf(head, tail)
           got == Bytes(ring, a, n)
<1>1. /\ pc[p] = "rcopy" /\ received' = received \o got /\ Copied(p, "read")
      /\ head' = head /\ tail' = tail /\ ring' = ring /\ sent' = sent
  BY DEF ReadCopy, Runs, Bytes
<1>2. /\ head \in 0 .. Page - 1 /\ tail \in 0 .. Page - 1 /\ Page \in Nat \ {0}
      /\ m \in 0 .. Page - 1
  BY Unfolded, FilesAssumption, SizeIs DEF Typed
<1>3. /\ ring \in [0 .. Page - 1 -> Nat] /\ received \in Seq(Nat) /\ sent \in Nat
      /\ sent = Len(received) + Len(InPipe(ring, head, tail, io, pc))
  BY DEF Flow, Flowing
<1>4. /\ cpu = p /\ n \in 1 .. Page - 1 /\ a \in Nat /\ a + n <= Page
      /\ tail = Around(a + n) /\ m + n <= Page - 1
  BY <1>1 DEF Flow, Flowing, ChunksOK, Copies
<1>5. /\ pc'[p] = "read" /\ \A q \in Task \ {p} : pc'[q] = pc[q] /\ io'[q] = io[q]
  BY <1>1, CopiedIs DEF Going
<1>6. \A q \in Task \ {p} : pc[q] \notin Copies
  BY <1>4, Alone
<1>7. \A q \in Task : pc'[q] \notin Copies
  BY <1>5, <1>6 DEF Copies
<1> HIDE DEF n, a, m
<1>8. InPipe(ring, head, tail, io, pc) = Ring(ring, a, m + n)
  <2>1. /\ head \in 0 .. Page - 1 /\ tail \in 0 .. Page - 1
        /\ CopiesAlone(pc, p, "rcopy") /\ ReadsAt(io, p, a, head, tail)
    BY <1>1, <1>2, <1>4, <1>6 DEF n, m, ReadsAt, CopiesAlone, Copies
  <2>2. InPipe(ring, head, tail, io, pc) = Ring(ring, a, SizeOf(head, tail) + io[p].chunk)
    BY <2>1, ReadingPipe
  <2> QED BY <2>2 DEF m, n
<1>9. InPipe(ring', head', tail', io', pc') = Ring(ring, tail, m)
  <2>1. InPipe(ring, head, tail, io', pc') = Ring(ring, tail, SizeOf(head, tail))
    BY <1>2, <1>7, RestingPipe
  <2> QED BY <1>1, <2>1 DEF m
<1>10. /\ Len(Ring(ring, a, m + n)) = m + n
       /\ SubSeq(Ring(ring, a, m + n), 1, n) = got
       /\ SubSeq(Ring(ring, a, m + n), n + 1, m + n) = Ring(ring, tail, m)
  <2>1. /\ n \in 1 .. Page /\ m \in Nat /\ a \in Nat /\ a + n <= Page
        /\ m + n <= Page - 1 /\ ring \in [0 .. Page - 1 -> Nat]
    BY <1>2, <1>3, <1>4
  <2>2. /\ Len(Ring(ring, a, m + n)) = m + n
        /\ SubSeq(Ring(ring, a, m + n), 1, n) = got
        /\ SubSeq(Ring(ring, a, m + n), n + 1, m + n) = Ring(ring, Around(a + n), m)
    BY <2>1, RingTakes
  <2> QED BY <1>4, <2>2
<1>11. got \in Seq(Nat) /\ Len(got) = n
  <2>1. \A i \in 1 .. n : ring[a + i - 1] \in Nat
    BY <1>2, <1>3, <1>4
  <2> QED BY <1>2, <1>4, <2>1 DEF Bytes
<1> HIDE DEF got
<1>12. received' \in Seq(Nat) /\ Len(received') = Len(received) + n
  BY <1>1, <1>3, <1>11, ConcatProperties
<1>13. QueueStep(Contents, Contents', received, received')
  <2>1. Contents = Ring(ring, a, m + n) /\ Contents' = Ring(ring, tail, m)
    BY <1>8, <1>9, ContentsIs
  <2>2. n \in 1 .. m + n
    BY <1>2, <1>4
  <2>4. Len(Contents) = m + n /\ SubSeq(Contents, 1, n) = got
        /\ SubSeq(Contents, n + 1, m + n) = Contents'
    BY <1>10, <2>1
  <2>5. received' = received \o SubSeq(Contents, 1, n)
        /\ Contents' = SubSeq(Contents, n + 1, Len(Contents))
    BY <1>1, <2>4
  <2>3. n \in 1 .. Len(Contents)
    BY <2>2, <2>4
  <2> QED BY <2>3, <2>5 DEF QueueStep
<1>14. ChunksOK(pc', io', cpu', head', tail')
  BY <1>7 DEF ChunksOK
<1>15. sent' = Len(received') + Len(InPipe(ring', head', tail', io', pc'))
  <2>1. Len(Ring(ring, tail, m)) = m
    BY <1>2, RingLen
  <2>2. Len(received) \in Nat /\ m \in Nat /\ n \in Nat
    BY <1>2, <1>3, <1>4
  <2>3. sent = Len(received) + (m + n)
    BY <1>3, <1>8, <1>10
  <2>4. Len(received') = Len(received) + n
    BY <1>12
  <2>5. Len(InPipe(ring', head', tail', io', pc')) = m
    BY <1>9, <2>1
  <2>6. sent = (Len(received) + n) + m
    BY <2>2, <2>3
  <2> QED BY <1>1, <2>4, <2>5, <2>6
<1>16. Flow'
  BY <1>1, <1>3, <1>12, <1>14, <1>15 DEF Flow, Flowing
<1> QED BY <1>13, <1>16 DEF FlowStep

LEMMA WriteCopyFlows ==
    ASSUME FilesInv, Flow, NEW p \in Task, WriteCopy(p)
    PROVE  FlowStep
<1> DEFINE n == io[p].chunk
           a == io[p].at
           m == SizeOf(head, tail)
           new == [b \in DOMAIN ring |->
                      IF b \in a .. a + n - 1 THEN sent + (b - a) + 1 ELSE ring[b]]
<1>1. /\ pc[p] = "wcopy" /\ ring' = new /\ sent' = sent + n /\ Copied(p, "write")
      /\ head' = head /\ tail' = tail /\ received' = received
  BY DEF WriteCopy, Runs
<1>2. /\ head \in 0 .. Page - 1 /\ tail \in 0 .. Page - 1 /\ Page \in Nat \ {0}
      /\ m \in 0 .. Page - 1
  BY Unfolded, FilesAssumption, SizeIs DEF Typed
<1>3. /\ ring \in [0 .. Page - 1 -> Nat] /\ received \in Seq(Nat) /\ sent \in Nat
      /\ sent = Len(received) + Len(InPipe(ring, head, tail, io, pc))
  BY DEF Flow, Flowing
<1>4. /\ cpu = p /\ n \in 1 .. Page - 1 /\ a \in Nat /\ a + n <= Page
      /\ head = Around(a + n) /\ n <= m
  BY <1>1 DEF Flow, Flowing, ChunksOK, Copies
<1>5. /\ pc'[p] = "write" /\ \A q \in Task \ {p} : pc'[q] = pc[q] /\ io'[q] = io[q]
  BY <1>1, CopiedIs DEF Going
<1>6. \A q \in Task \ {p} : pc[q] \notin Copies
  BY <1>4, Alone
<1>7. \A q \in Task : pc'[q] \notin Copies
  BY <1>5, <1>6 DEF Copies
<1>8. InPipe(ring, head, tail, io, pc) = Ring(ring, tail, m - n)
  <2>1. /\ head \in 0 .. Page - 1 /\ tail \in 0 .. Page - 1 /\ CopiesAlone(pc, p, "wcopy")
        /\ io[p].chunk \in 1 .. Page /\ io[p].chunk <= SizeOf(head, tail)
    BY <1>1, <1>2, <1>4, <1>6 DEF CopiesAlone, Copies
  <2>2. InPipe(ring, head, tail, io, pc) = Ring(ring, tail, SizeOf(head, tail) - io[p].chunk)
    BY <2>1, WritingPipe
  <2> QED BY <2>2
<1> HIDE DEF n, a, m
<1>9. /\ new \in [0 .. Page - 1 -> Nat]
      /\ Written(new, ring, a, n, sent)
  <2>1. DOMAIN ring = 0 .. Page - 1
    BY <1>3
  <2>2. \A b \in 0 .. Page - 1 : b \in a .. a + n - 1 => sent + (b - a) + 1 \in Nat
    BY <1>2, <1>3, <1>4
  <2> QED BY <1>3, <2>1, <2>2 DEF Written
<1> HIDE DEF new
<1>10. PICK k \in Nat : m = k + n /\ k + n < Page /\ Ahead(tail, k, a)
  <2>1. /\ tail \in 0 .. Page - 1 /\ a \in Nat /\ n \in Nat /\ n > 0 /\ a + n <= Page
        /\ n <= SizeOf(Around(a + n), tail)
    BY <1>2, <1>4 DEF m
  <2>2. \E k \in Nat : /\ SizeOf(Around(a + n), tail) = k + n /\ k + n < Page
                       /\ Ahead(tail, k, a)
    BY <2>1, RoomPut
  <2>3. m = SizeOf(Around(a + n), tail)
    BY <1>4 DEF m
  <2>4. PICK k \in Nat : /\ SizeOf(Around(a + n), tail) = k + n /\ k + n < Page
                         /\ Ahead(tail, k, a)
    BY <2>2
  <2>5. m = k + n /\ k + n < Page /\ Ahead(tail, k, a)
    BY <2>3, <2>4
  <2> QED BY <2>5
<1>11. InPipe(ring', head', tail', io', pc') = Ring(new, tail, m)
  <2>1. InPipe(new, head, tail, io', pc') = Ring(new, tail, SizeOf(head, tail))
    BY <1>2, <1>7, RestingPipe
  <2> QED BY <1>1, <2>1 DEF m
<1>12. Ring(new, tail, k + n) = Ring(ring, tail, k) \o Numbers(sent, n)
  <2>1. /\ ring \in [0 .. Page - 1 -> Nat] /\ sent \in Nat /\ tail \in 0 .. Page - 1
        /\ a \in Nat /\ n \in Nat /\ n > 0 /\ a + n <= Page
        /\ k + n < Page /\ Ahead(tail, k, a)
        /\ new \in [0 .. Page - 1 -> Nat] /\ Written(new, ring, a, n, sent)
    <3>1. n \in Nat /\ n > 0
      BY <1>4
    <3> QED BY <1>2, <1>3, <1>4, <1>9, <1>10, <3>1
  <2>2. Appended(new, ring, tail, k, n, sent)
    BY <2>1, RingPuts
  <2> QED BY <2>2 DEF Appended
<1>13. /\ Len(Ring(ring, tail, k)) = k /\ Len(Ring(new, tail, k + n)) = k + n /\ m - n = k
       /\ n \in Nat
  BY <1>2, <1>4, <1>10, RingLen
<1>14. QueueStep(Contents, Contents', received, received')
  <2>1. Contents = Ring(ring, tail, k) /\ Contents' = Ring(new, tail, k + n)
    BY <1>8, <1>10, <1>11, <1>13, ContentsIs
  <2>2. Len(received) \in Nat /\ sent = Len(received) + Len(Contents)
    BY <1>3, <1>8, <1>13, <2>1
  <2>3. Contents' = Contents \o [i \in 1 .. n |-> Len(received) + Len(Contents) + i]
    BY <1>12, <2>1, <2>2 DEF Numbers
  <2>4. n \in 1 .. (Page - 1) - Len(Contents)
    BY <1>2, <1>4, <1>10, <1>13, <2>1
  <2> QED BY <1>1, <2>3, <2>4 DEF QueueStep
<1>15. ChunksOK(pc', io', cpu', head', tail')
  BY <1>7 DEF ChunksOK
<1>16. sent' \in Nat /\ sent' = Len(received') + Len(InPipe(ring', head', tail', io', pc'))
  <2>1. Len(received) \in Nat
    BY <1>3
  <2> QED BY <1>1, <1>3, <1>8, <1>10, <1>11, <1>13, <2>1
<1>17. Flow'
  BY <1>1, <1>3, <1>9, <1>15, <1>16 DEF Flow, Flowing
<1> QED BY <1>14, <1>17 DEF FlowStep
(***************************************************************************)
(* Who uses the pipe, and who sleeps on it: A is asleep, k is i_count.     *)
(***************************************************************************)
Users == {"read", "rcopy", "write", "wcopy"}

HaveEnds(F, P, N) ==
    \A q \in Task : P[q] \in Users =>
        \E d \in Fd : F[q][d] \in File /\ N[F[q][d]] = "pipe"

Needed(P, A, c, h, t, k) ==
    c = None => \A q \in A : /\ k = 2
                             /\ IF P[q] = "read" THEN SizeOf(h, t) = 0
                                                 ELSE (Page - 1) - SizeOf(h, t) = 0

Ending(F, P, N, A, c, h, t, k, s, v) ==
    /\ HaveEnds(F, P, N)
    /\ \A q \in A : P[q] \in {"read", "write"}
    /\ Needed(P, A, c, h, t, k)
    /\ k = 0 => h = t /\ s = 0 /\ v = <<>>

Ends == Ending(fd, pc, finode, asleep, cpu, head, tail, icount["pipe"], sent, received)

LEMMA SleepNeeded == Ends => SleepIsNeeded
<1>1. Size = SizeOf(head, tail)
  BY DEF Size, SizeOf
<1> QED BY <1>1 DEF Ends, Ending, Needed, SleepIsNeeded, Room

(* The end that a task in a call on the pipe holds is in no other call, so *)
(* that it stays an end of this pipe, and the pipe is counted.             *)
LEMMA EndIsOwn ==
    ASSUME FilesInv, HaveEnds(fd, pc, finode), NEW q \in Task, pc[q] \in Users
    PROVE  \E d \in Fd : /\ fd[q][d] \in File \ InCalls(fd, pc, io)
                         /\ finode[fd[q][d]] = "pipe"
<1>1. PICK d \in Fd : fd[q][d] \in File /\ finode[fd[q][d]] = "pipe"
  BY DEF HaveEnds
<1>2. ASSUME NEW p \in Task, NEW e \in OfCall(pc, io, p), fd[p][e] = fd[q][d]
      PROVE  FALSE
  <2>1. Held(fd, fd[p][e]) = {<<p, e>>} /\ pc[p] \in {"open", "pipe"}
    BY DEF FilesInv, Sound, OwnFiles, OfCall
  <2>2. <<q, d>> \in Held(fd, fd[p][e])
    BY <1>2 DEF Held
  <2>3. <<q, d>> = <<p, e>>
    BY <2>1, <2>2, Zenon
  <2> QED BY <2>1, <2>3 DEF Users
<1> QED BY <1>1, <1>2 DEF InCalls

LEMMA PipeIsCounted ==
    ASSUME FilesInv, HaveEnds(fd, pc, finode), NEW q \in Task, pc[q] \in Users
    PROVE  icount["pipe"] \in Nat /\ icount["pipe"] > 0
<1>1. PICK d \in Fd : fd[q][d] \in File \ InCalls(fd, pc, io) /\ finode[fd[q][d]] = "pipe"
  BY EndIsOwn
<1> DEFINE f == fd[q][d]
           S == Naming(fd, pc, io, fcount, finode, "pipe")
<1>2. Counted(fd, fcount) /\ f \in File
  BY <1>1 DEF FilesInv, Sound
<1>3. fcount[f] > 0
  BY <1>2, HeldSome
<1>4. f \in S /\ S \in SUBSET File
  BY <1>1, <1>3 DEF Naming
<1>5. icount["pipe"] = Cardinality(S)
  BY DEF FilesInv, Sound, Kind
<1> HIDE DEF S, f
<1>6. IsFiniteSet(S) /\ Cardinality(S) \in Nat /\ Cardinality(S) # 0
  BY <1>4, Finite, FS_Subset, FS_CardinalityType, FS_EmptySet
<1> QED BY <1>5, <1>6

LEMMA EndsStay ==
    ASSUME FilesInv, HaveEnds(fd, pc, finode), NEW F, NEW P, NEW N,
           \A q \in Task : P[q] \in Users => pc[q] \in Users /\ F[q] = fd[q],
           \A f \in File \ InCalls(fd, pc, io) : N[f] = finode[f]
    PROVE  HaveEnds(F, P, N)
<1> SUFFICES ASSUME NEW q \in Task, P[q] \in Users
             PROVE  \E d \in Fd : F[q][d] \in File /\ N[F[q][d]] = "pipe"
  BY DEF HaveEnds
<1>1. pc[q] \in Users /\ F[q] = fd[q]
  OBVIOUS
<1>2. PICK d \in Fd : fd[q][d] \in File \ InCalls(fd, pc, io) /\ finode[fd[q][d]] = "pipe"
  BY <1>1, EndIsOwn
<1> QED BY <1>1, <1>2

(* A step of a task that is in a call on the pipe. *)
LEMMA EndsOfUser ==
    ASSUME FilesInv, Ends, NEW p \in Task, pc[p] \in Users, UNCHANGED <<fd, finode, icount>>,
           \A q \in Task \ {p} : pc'[q] = pc[q],
           \A q \in asleep' : pc'[q] \in {"read", "write"},
           Needed(pc', asleep', cpu', head', tail', icount["pipe"])
    PROVE  Ends'
<1>1. HaveEnds(fd, pc, finode)
  BY DEF Ends, Ending
<1>2. icount["pipe"] \in Nat /\ icount["pipe"] > 0
  BY <1>1, PipeIsCounted
<1>3. HaveEnds(fd', pc', finode')
  <2>1. \A q \in Task : pc'[q] \in Users => pc[q] \in Users /\ fd'[q] = fd[q]
    OBVIOUS
  <2>2. \A f \in File \ InCalls(fd, pc, io) : finode'[f] = finode[f]
    OBVIOUS
  <2> QED BY <1>1, <2>1, <2>2, EndsStay
<1>4. icount'["pipe"] = icount["pipe"] /\ icount'["pipe"] # 0
  BY <1>2
<1> QED BY <1>3, <1>4 DEF Ends, Ending

(* A step of a task that is not, before or after. *)
LEMMA EndsOfOther ==
    ASSUME FilesInv, Ends, NEW p \in Task, pc[p] \notin Users, pc'[p] \notin Users,
           \A q \in Task \ {p} : pc'[q] = pc[q] /\ fd'[q] = fd[q],
           \A f \in File \ InCalls(fd, pc, io) : finode'[f] = finode[f],
           UNCHANGED <<asleep, cpu, head, tail, sent, received>>,
           icount'["pipe"] = icount["pipe"]
    PROVE  Ends'
<1>1. HaveEnds(fd, pc, finode)
  BY DEF Ends, Ending
<1>2. HaveEnds(fd', pc', finode')
  <2>1. \A q \in Task : pc'[q] \in Users => pc[q] \in Users /\ fd'[q] = fd[q]
    OBVIOUS
  <2>2. \A f \in File \ InCalls(fd, pc, io) : finode'[f] = finode[f]
    OBVIOUS
  <2> QED BY <1>1, <2>1, <2>2, EndsStay
<1>3. \A q \in asleep : pc[q] \in {"read", "write"} /\ q # p /\ q \in Task
  BY Unfolded DEF Ends, Ending, Users, Typed
<1>4. \A q \in asleep' : pc'[q] \in {"read", "write"} /\ pc'[q] = pc[q]
  BY <1>3
<1>5. Needed(pc', asleep', cpu', head', tail', icount'["pipe"])
  BY <1>3, <1>4 DEF Needed, Ends, Ending
<1> QED BY <1>2, <1>4, <1>5 DEF Ends, Ending
(***************************************************************************)
(* The steps, where no copy sleeps. *)
(***************************************************************************)
PipeInv  == FilesInv /\ Flow /\ Ends
PipeStep == FlowStep /\ Ends'

LEMMA StartPipes ==
    ASSUME PipeInv, NEW p \in Task, NEW d \in Fd, NEW n \in 1 .. MaxCount,
           NEW mode \in {"read", "write"}, Start(p, d, n, mode)
    PROVE  PipeStep
<1>1. /\ cpu = None /\ pc[p] = "user" /\ pc' = [pc EXCEPT ![p] = mode] /\ cpu' = p
      /\ fd[p][d] # 0 /\ finode[fd[p][d]] = "pipe"
      /\ UNCHANGED <<asleep, fd, finode, icount>>
      /\ UNCHANGED <<head, tail, ring, sent, received>>
  BY DEF Start, User, OpenFds, tables, pipe
<1>2. FilesInv /\ Flow /\ Ends /\ pc \in [Task -> Place] /\ fd \in FdTable /\ asleep \in SUBSET Task
  BY Unfolded DEF PipeInv, Typed
<1>3. pc'[p] = mode /\ \A q \in Task \ {p} : pc'[q] = pc[q]
  BY <1>1, <1>2
<1>4. FlowStep
  <2>1. \A q \in Task : pc[q] \notin Copies /\ pc'[q] \notin Copies
    BY <1>1, <1>2, <1>3, NobodyCopies DEF Copies
  <2> QED BY <1>1, <1>2, <2>1, FlowRests
<1>5. HaveEnds(fd', pc', finode')
  <2>1. fd[p][d] \in File
    BY <1>1, <1>2 DEF FdTable
  <2>2. \A q \in Task \ {p} : pc'[q] \in Users =>
            \E e \in Fd : fd[q][e] \in File /\ finode[fd[q][e]] = "pipe"
    BY <1>2, <1>3 DEF Ends, Ending, HaveEnds
  <2> QED BY <1>1, <2>1, <2>2 DEF HaveEnds
<1>6. \A q \in asleep' : pc'[q] \in {"read", "write"}
  <2>1. \A q \in asleep : pc[q] \in {"read", "write"}
    BY <1>2 DEF Ends, Ending
  <2> QED BY <1>1, <1>2, <1>3, <2>1
<1>7. Needed(pc', asleep', cpu', head', tail', icount'["pipe"])
  BY <1>1, NoneAssumption DEF Needed
<1>8. Ends'
  BY <1>1, <1>2, <1>5, <1>6, <1>7 DEF Ends, Ending
<1> QED BY <1>4, <1>8 DEF PipeStep

(* What a task does in a call on the pipe.                                 *)
LEMMA UserRests ==
    ASSUME PipeInv, NEW p \in Task, cpu \in {p, None}, pc[p] \in {"read", "write"},
           UNCHANGED <<tables, pipe>>,
           \/ Return(p)
           \/ Sleep(p) /\ icount["pipe"] = 2
              /\ (IF pc[p] = "read" THEN Size = 0 ELSE Room = 0)
    PROVE  PipeStep
<1>1. FilesInv /\ Flow /\ Ends /\ pc \in [Task -> Place]
  BY Unfolded DEF PipeInv
<1>2. /\ cpu' = None /\ (\A q \in Task \ {p} : pc'[q] = pc[q]) /\ pc'[p] \in {"user", "read", "write"}
      /\ UNCHANGED <<fd, finode, icount>> /\ UNCHANGED <<head, tail, ring, sent, received>>
  BY <1>1 DEF Return, Sleep, tables, pipe
<1>3. FlowStep
  <2>1. \A q \in Task : pc[q] \notin Copies /\ pc'[q] \notin Copies
    BY <1>1, <1>2, Alone DEF Copies
  <2> QED BY <1>1, <1>2, <2>1, FlowRests
<1>4. /\ \A q \in asleep' : pc'[q] \in {"read", "write"}
      /\ Needed(pc', asleep', cpu', head', tail', icount["pipe"])
  <2>1. CASE Return(p)
    BY <2>1 DEF Return, Needed
  <2>2. CASE Sleep(p) /\ icount["pipe"] = 2 /\ (IF pc[p] = "read" THEN Size = 0 ELSE Room = 0)
    <3>1. asleep' = {p} /\ pc' = pc
      BY <2>2 DEF Sleep
    <3>2. Size = SizeOf(head, tail) /\ Room = (Page - 1) - SizeOf(head, tail)
      BY DEF Size, Room, SizeOf
    <3> QED BY <1>2, <2>2, <3>1, <3>2 DEF Needed
  <2> QED BY <2>1, <2>2
<1>5. pc[p] \in Users
  BY DEF Users
<1>6. Ends'
  BY <1>1, <1>2, <1>4, <1>5, EndsOfUser
<1> QED BY <1>3, <1>6 DEF PipeStep

LEMMA UserMoves ==
    ASSUME PipeInv, ~Faults, NEW p \in Task,
           ReadChunk(p) \/ WriteChunk(p) \/ ReadCopy(p) \/ WriteCopy(p)
    PROVE  PipeStep
<1>1. FilesInv /\ Flow /\ Ends /\ pc \in [Task -> Place] /\ asleep \in SUBSET Task
  BY Unfolded DEF PipeInv, Typed
<1>2. FlowStep
  BY <1>1, ReadChunkFlows, WriteChunkFlows, ReadCopyFlows, WriteCopyFlows
<1>3. /\ p \notin asleep /\ pc[p] \in Users /\ cpu' = p
      /\ \A q \in Task \ {p} : pc'[q] = pc[q]
      /\ UNCHANGED <<asleep, fd, finode, icount>>
  BY <1>1 DEF ReadChunk, WriteChunk, ReadCopy, WriteCopy, Copying, Copied, Runs, tables, Users
<1>4. \A q \in asleep' : pc'[q] \in {"read", "write"}
  <2>1. \A q \in asleep : pc[q] \in {"read", "write"}
    BY <1>1 DEF Ends, Ending
  <2> QED BY <1>1, <1>3, <2>1
<1>5. Needed(pc', asleep', cpu', head', tail', icount["pipe"])
  BY <1>3, NoneAssumption DEF Needed
<1>6. Ends'
  BY <1>1, <1>3, <1>4, <1>5, EndsOfUser
<1> QED BY <1>2, <1>6 DEF PipeStep

LEMMA KernelPipes ==
    ASSUME PipeInv, ~Faults, NEW p \in Task, Kernel(p)
    PROVE  PipeStep
<1>1. CASE ReadWait(p)
  BY <1>1, UserRests DEF ReadWait, Runs
<1>2. CASE WriteWait(p)
  BY <1>2, UserRests DEF WriteWait, Runs
<1>3. ASSUME NEW mode \in {"read", "write"}, Done(p, mode)
      PROVE  PipeStep
  BY <1>3, UserRests DEF Done, Runs
<1> QED BY <1>1, <1>2, <1>3, UserMoves DEF Kernel
LEMMA OthersRest ==
    ASSUME PipeInv, NEW p \in Task, cpu = None, pc[p] \notin Users, pc'[p] \notin Users,
           \A q \in Task \ {p} : pc'[q] = pc[q] /\ fd'[q] = fd[q],
           \A f \in File \ InCalls(fd, pc, io) : finode'[f] = finode[f],
           UNCHANGED <<asleep, cpu, head, tail, ring, sent, received>>,
           icount'["pipe"] = icount["pipe"]
    PROVE  PipeStep
<1>1. FilesInv /\ Flow /\ Ends
  BY DEF PipeInv
<1>2. \A q \in Task : pc[q] \notin Copies /\ pc'[q] \notin Copies
  BY <1>1, NobodyCopies DEF Copies, Users
<1>3. FlowStep
  BY <1>1, <1>2, FlowRests
<1>4. Ends'
  BY <1>1, EndsOfOther
<1> QED BY <1>3, <1>4 DEF PipeStep

LEMMA IputPipes ==
    ASSUME PipeInv, NEW p \in Task, cpu = None, pc[p] = "user", NEW D \in SUBSET Fd, Iput(p, D),
           UNCHANGED <<cpu, finode>>, pc'[p] \in {"user", "absent"},
           \A q \in Task \ {p} : pc'[q] = pc[q] /\ fd'[q] = fd[q]
    PROVE  PipeStep
<1> DEFINE n == Lost(p, D, "pipe")
           k == icount["pipe"]
<1>1. FilesInv /\ Flow /\ Ends
  BY DEF PipeInv
<1>2. n \in 0 .. k /\ icount'["pipe"] = k - n /\ k \in Nat
  BY <1>1, Puts, Unfolded DEF Kind
<1>3. \A q \in Task : pc[q] \notin Copies /\ pc'[q] \notin Copies
  BY <1>1, NobodyCopies DEF Copies
<1>4. /\ asleep' = IF n > 0 THEN {} ELSE asleep
      /\ IF k > 0 /\ k = n
         THEN /\ head' = 0 /\ tail' = 0 /\ sent' = 0 /\ received' = <<>>
              /\ ring' = [b \in DOMAIN ring |-> 0]
         ELSE UNCHANGED pipe
  BY DEF Iput
<1>5. HaveEnds(fd', pc', finode')
  <2>1. HaveEnds(fd, pc, finode)
    BY <1>1 DEF Ends, Ending
  <2>2. \A q \in Task : pc'[q] \in Users => pc[q] \in Users /\ fd'[q] = fd[q]
    BY DEF Users
  <2>3. \A f \in File \ InCalls(fd, pc, io) : finode'[f] = finode[f]
    OBVIOUS
  <2> QED BY <1>1, <2>1, <2>2, <2>3, EndsStay
<1> HIDE DEF n, k
<1>6. CASE k > 0 /\ k = n
  <2>1. /\ head' = 0 /\ tail' = 0 /\ sent' = 0 /\ received' = <<>> /\ asleep' = {}
        /\ ring' = [b \in DOMAIN ring |-> 0]
    BY <1>4, <1>6
  <2>2. ring' \in [0 .. Page - 1 -> Nat]
    BY <1>1, <2>1 DEF Flow, Flowing
  <2>3. FlowStep
    BY <1>3, <2>1, <2>2, FlowEnds
  <2>4. Ends'
    BY <1>5, <2>1 DEF Ends, Ending, Needed
  <2> QED BY <2>3, <2>4 DEF PipeStep
<1>7. CASE ~(k > 0 /\ k = n)
  <2>1. UNCHANGED <<head, tail, ring, sent, received>>
    BY <1>4, <1>7 DEF pipe
  <2>2. FlowStep
    BY <1>1, <1>3, <2>1, FlowRests
  <2>3. CASE n = 0
    <3>1. asleep' = asleep /\ icount'["pipe"] = icount["pipe"]
      BY <1>2, <1>4, <2>3 DEF k
    <3>2. pc[p] \notin Users /\ pc'[p] \notin Users
      BY DEF Users
    <3>3. Ends'
      BY <1>1, <2>1, <3>1, <3>2, EndsOfOther
    <3> QED BY <2>2, <3>3 DEF PipeStep
  <2>4. CASE n # 0
    <3>1. asleep' = {} /\ icount'["pipe"] # 0
      BY <1>2, <1>4, <1>7, <2>4
    <3>2. Ends'
      BY <1>5, <3>1 DEF Ends, Ending, Needed
    <3> QED BY <2>2, <3>2 DEF PipeStep
  <2> QED BY <2>3, <2>4
<1> QED BY <1>6, <1>7

(* The calls that may put files.                                           *)
LEMMA PutsPipes ==
    ASSUME PipeInv, NEW p \in Task,
           \/ \E d \in Fd : Close(p, d) \/ \E e \in Fd : Dup2(p, d, e)
           \/ Exec(p) \/ Exit(p)
    PROVE  PipeStep
<1>1. fd \in FdTable /\ pc \in [Task -> Place]
  BY Unfolded DEF PipeInv
<1>2. ASSUME NEW d \in Fd, Close(p, d)
      PROVE  PipeStep
  <2>1. /\ cpu = None /\ pc[p] = "user" /\ Iput(p, {d}) /\ UNCHANGED <<cpu, finode, pc>>
        /\ {d} \in SUBSET Fd /\ fd' = [fd EXCEPT ![p][d] = 0]
    BY <1>2 DEF Close, CloseFds, User
  <2>2. \A q \in Task \ {p} : pc'[q] = pc[q] /\ fd'[q] = fd[q]
    BY <1>1, <2>1 DEF FdTable
  <2> QED BY <2>1, <2>2, IputPipes
<1>3. ASSUME NEW d \in Fd, NEW e \in Fd, Dup2(p, d, e)
      PROVE  PipeStep
  <2>1. /\ cpu = None /\ pc[p] = "user" /\ Iput(p, {e}) /\ UNCHANGED <<cpu, finode, pc>>
        /\ {e} \in SUBSET Fd /\ fd' = [fd EXCEPT ![p][e] = IF d = e THEN 0 ELSE fd[p][d]]
    BY <1>3 DEF Dup2, User
  <2>2. \A q \in Task \ {p} : pc'[q] = pc[q] /\ fd'[q] = fd[q]
    BY <1>1, <2>1 DEF FdTable
  <2> QED BY <2>1, <2>2, IputPipes
<1>4. ASSUME Exec(p)
      PROVE  PipeStep
  <2>1. /\ cpu = None /\ pc[p] = "user" /\ Iput(p, cloexec[p] \intersect OpenFds(p))
        /\ UNCHANGED <<cpu, finode, pc>> /\ cloexec[p] \intersect OpenFds(p) \in SUBSET Fd
        /\ \A q \in Task \ {p} : fd'[q] = fd[q]
    BY <1>1, <1>4 DEF Exec, CloseFds, User, OpenFds, FdTable
  <2>2. \A q \in Task \ {p} : pc'[q] = pc[q] /\ fd'[q] = fd[q]
    BY <2>1
  <2> QED BY <2>1, <2>2, IputPipes
<1>5. ASSUME Exit(p)
      PROVE  PipeStep
  <2>1. /\ cpu = None /\ pc[p] = "user" /\ Iput(p, OpenFds(p)) /\ UNCHANGED <<cpu, finode>>
        /\ OpenFds(p) \in SUBSET Fd /\ pc'[p] = "absent"
        /\ \A q \in Task \ {p} : pc'[q] = pc[q] /\ fd'[q] = fd[q]
    BY <1>1, <1>5 DEF Exit, CloseFds, OpenFds, FdTable
  <2> QED BY <2>1, IputPipes
<1> QED BY <1>2, <1>3, <1>4, <1>5

(* Those that leave the pipe alone.                                        *)
LEMMA QuietPipes ==
    ASSUME PipeInv, NEW p \in Task,
           \/ \E d \in Fd : SetCloexec(p, d) \/ \E e \in Fd : Dup(p, d, e)
           \/ HandleSigpipe(p) \/ Open(p) \/ Pipe(p) \/ GiveBack(p)
    PROVE  PipeStep
<1>1. fd \in FdTable /\ pc \in [Task -> Place]
  BY Unfolded DEF PipeInv
<1>2. /\ cpu = None /\ pc[p] \notin Users /\ pc'[p] \notin Users
      /\ \A q \in Task \ {p} : pc'[q] = pc[q]
      /\ UNCHANGED <<asleep, cpu, head, tail, ring, sent, received, finode, icount>>
  BY <1>1 DEF SetCloexec, Dup, HandleSigpipe, Open, Pipe, Reserve, GiveBack, User, Users,
              tables, pipe
<1>3. \A q \in Task \ {p} : fd'[q] = fd[q]
  <2>1. ASSUME Open(p) \/ Pipe(p) PROVE \A q \in Task \ {p} : fd'[q] = fd[q]
    BY <1>1, <2>1 DEF Open, Pipe, Reserve, FdTable
  <2>2. ASSUME NEW d \in Fd, SetCloexec(p, d) \/ \E e \in Fd : Dup(p, d, e)
        PROVE  \A q \in Task \ {p} : fd'[q] = fd[q]
    BY <1>1, <2>2 DEF SetCloexec, Dup, FdTable
  <2>3. ASSUME HandleSigpipe(p) \/ GiveBack(p) PROVE \A q \in Task \ {p} : fd'[q] = fd[q]
    BY <1>1, <2>3 DEF HandleSigpipe, GiveBack, tables, FdTable
  <2> QED BY <2>1, <2>2, <2>3
<1>4. /\ \A q \in Task \ {p} : pc'[q] = pc[q] /\ fd'[q] = fd[q]
      /\ \A f \in File \ InCalls(fd, pc, io) : finode'[f] = finode[f]
      /\ icount'["pipe"] = icount["pipe"]
  BY <1>2, <1>3
<1> QED BY <1>2, <1>4, OthersRest
LEMMA ForkPipes ==
    ASSUME PipeInv, NEW p \in Task, NEW q \in Task, Fork(p, q)
    PROVE  PipeStep
<1>1. fd \in FdTable /\ pc \in [Task -> Place]
  BY Unfolded DEF PipeInv
<1>2. /\ cpu = None /\ pc[q] = "absent" /\ pc' = [pc EXCEPT ![q] = "user"]
      /\ fd' = [fd EXCEPT ![q] = fd[p]]
      /\ UNCHANGED <<asleep, cpu, head, tail, sent, received, ring, finode, icount>>
  BY DEF Fork, User, pipe
<1>3. /\ pc[q] \notin Users /\ pc'[q] \notin Users
      /\ \A r \in Task \ {q} : pc'[r] = pc[r] /\ fd'[r] = fd[r]
      /\ \A f \in File \ InCalls(fd, pc, io) : finode'[f] = finode[f]
      /\ icount'["pipe"] = icount["pipe"]
  BY <1>1, <1>2 DEF Users, FdTable
<1> QED BY <1>2, <1>3, OthersRest

LEMMA OpenedPipes ==
    ASSUME PipeInv, NEW p \in Task, Opened(p)
    PROVE  PipeStep
<1> DEFINE f == fd[p][io[p].chunk]
<1>1. pc \in [Task -> Place] /\ finode \in [File -> Kind \union {None}] /\ icount \in [Kind -> Nat]
  BY Unfolded DEF PipeInv
<1>2. /\ cpu = None /\ pc[p] = "open" /\ pc' = [pc EXCEPT ![p] = "user"]
      /\ finode' = [finode EXCEPT ![f] = "regular"]
      /\ icount' = [icount EXCEPT !["regular"] = @ + 1]
      /\ UNCHANGED <<asleep, cpu, head, tail, sent, received, ring, fd>>
  BY DEF Opened, pipe
<1>3. \A g \in File \ InCalls(fd, pc, io) : finode'[g] = finode[g]
  <2>1. io[p].chunk \in OfCall(pc, io, p)
    BY <1>2 DEF OfCall
  <2>2. \A g \in File \ InCalls(fd, pc, io) : g # f
    BY <2>1 DEF InCalls
  <2> HIDE DEF f
  <2> QED BY <1>1, <1>2, <2>2
<1>4. /\ pc[p] \notin Users /\ pc'[p] \notin Users
      /\ (\A q \in Task \ {p} : pc'[q] = pc[q] /\ fd'[q] = fd[q])
      /\ icount'["pipe"] = icount["pipe"]
  BY <1>1, <1>2 DEF Users, Kind
<1> QED BY <1>2, <1>3, <1>4, OthersRest

LEMMA PipedPipes ==
    ASSUME PipeInv, NEW p \in Task, Piped(p)
    PROVE  PipeStep
<1> DEFINE f0 == fd[p][io[p].chunk]
           f1 == fd[p][io[p].at]
<1>1. /\ pc \in [Task -> Place] /\ finode \in [File -> Kind \union {None}] /\ icount \in [Kind -> Nat]
      /\ FilesInv /\ Flow /\ Ends
  BY Unfolded DEF PipeInv
<1>2. /\ cpu = None /\ pc[p] = "pipe" /\ pc' = [pc EXCEPT ![p] = "user"]
      /\ finode' = [finode EXCEPT ![f0] = "pipe", ![f1] = "pipe"]
      /\ icount["pipe"] = 0 /\ icount' = [icount EXCEPT !["pipe"] = 2]
      /\ head' = 0 /\ tail' = 0
      /\ UNCHANGED <<asleep, cpu, sent, received, ring, fd>>
  BY DEF Piped, GetPipeInode
<1>3. \A g \in File \ InCalls(fd, pc, io) : finode'[g] = finode[g]
  <2>1. io[p].chunk \in OfCall(pc, io, p) /\ io[p].at \in OfCall(pc, io, p)
    BY <1>2 DEF OfCall
  <2>2. \A g \in File \ InCalls(fd, pc, io) : g # f0 /\ g # f1
    BY <2>1 DEF InCalls
  <2> HIDE DEF f0, f1
  <2> QED BY <1>1, <1>2, <2>2
<1>4. /\ pc[p] \notin Users /\ pc'[p] \notin Users
      /\ (\A q \in Task \ {p} : pc'[q] = pc[q] /\ fd'[q] = fd[q])
      /\ icount'["pipe"] = 2
  BY <1>1, <1>2 DEF Users, Kind
<1>5. sent = 0 /\ received = <<>> /\ asleep = {}
  <2>1. sent = 0 /\ received = <<>>
    BY <1>1, <1>2 DEF Ends, Ending
  <2>2. \A q \in asleep : icount["pipe"] = 2
    BY <1>1, <1>2 DEF Ends, Ending, Needed
  <2> QED BY <1>2, <2>1, <2>2
<1>6. FlowStep
  <2>1. \A q \in Task : pc'[q] \notin Copies
    BY <1>1, <1>2, <1>4, NobodyCopies DEF Copies, Users
  <2>2. ring' \in [0 .. Page - 1 -> Nat]
    BY <1>1, <1>2 DEF Flow, Flowing
  <2> QED BY <1>2, <1>5, <2>1, <2>2, FlowEnds
<1>7. HaveEnds(fd', pc', finode')
  <2>1. HaveEnds(fd, pc, finode)
    BY <1>1 DEF Ends, Ending
  <2>2. \A q \in Task : pc'[q] \in Users => pc[q] \in Users /\ fd'[q] = fd[q]
    BY <1>4
  <2> QED BY <1>1, <1>3, <2>1, <2>2, EndsStay
<1>8. Ends'
  BY <1>2, <1>4, <1>5, <1>7 DEF Ends, Ending, Needed
<1> QED BY <1>6, <1>8 DEF PipeStep

LEMMA StepPipes ==
    ASSUME PipeInv, ~Faults, Next
    PROVE  PipeStep
<1>1. PICK p \in Task :
         \/ Kernel(p)
         \/ \E d \in Fd :
               \/ Close(p, d) \/ SetCloexec(p, d)
               \/ \E e \in Fd : Dup(p, d, e) \/ Dup2(p, d, e)
               \/ \E n \in 1 .. MaxCount : \E mode \in {"read", "write"} : Start(p, d, n, mode)
         \/ Exec(p) \/ Exit(p) \/ HandleSigpipe(p)
         \/ \E q \in Task : Fork(p, q)
         \/ Open(p) \/ Pipe(p) \/ GiveBack(p) \/ Opened(p) \/ Piped(p)
  BY DEF Next
<1>2. CASE Kernel(p)
  BY <1>2, KernelPipes
<1>3. ASSUME NEW d \in Fd, NEW n \in 1 .. MaxCount, NEW mode \in {"read", "write"},
             Start(p, d, n, mode)
      PROVE  PipeStep
  BY <1>3, StartPipes
<1>4. ASSUME \/ \E d \in Fd : Close(p, d) \/ \E e \in Fd : Dup2(p, d, e)
             \/ Exec(p) \/ Exit(p)
      PROVE  PipeStep
  BY <1>4, PutsPipes
<1>5. ASSUME \/ \E d \in Fd : SetCloexec(p, d) \/ \E e \in Fd : Dup(p, d, e)
             \/ HandleSigpipe(p) \/ Open(p) \/ Pipe(p) \/ GiveBack(p)
      PROVE  PipeStep
  BY <1>5, QuietPipes
<1>6. ASSUME NEW q \in Task, Fork(p, q)
      PROVE  PipeStep
  BY <1>6, ForkPipes
<1>7. CASE Opened(p) \/ Piped(p)
  BY <1>7, OpenedPipes, PipedPipes
<1> QED BY <1>1, <1>2, <1>3, <1>4, <1>5, <1>6, <1>7

LEMMA InitPipes == Init => PipeInv /\ Contents = <<>> /\ received = <<>>
<1> SUFFICES ASSUME Init PROVE PipeInv /\ Contents = <<>> /\ received = <<>>
  OBVIOUS
<1>1. /\ head = 0 /\ tail = 0 /\ sent = 0 /\ received = <<>> /\ asleep = {}
      /\ ring = [b \in 0 .. Page - 1 |-> 0]
      /\ \A q \in Task : pc[q] \notin Copies /\ pc[q] \notin Users
  BY DEF Init, Copies, Users
<1>2. 0 \in 0 .. Page - 1
  BY FilesAssumption
<1>3. SizeOf(0, 0) = 0
  <2>1. SizeOf(0, 0) = 0 - 0
    BY <1>2, SizeIs
  <2> QED BY <2>1
<1>4. InPipe(ring, 0, 0, io, pc) = Ring(ring, 0, 0)
  BY <1>1, <1>2, <1>3, RestingPipe
<1>5. Ring(ring, 0, 0) = <<>>
  BY DEF Ring
<1>6. Contents = <<>>
  BY <1>1, <1>4, <1>5, ContentsIs
<1>7. Flow
  <2>1. ChunksOK(pc, io, cpu, head, tail)
    BY <1>1 DEF ChunksOK
  <2>2. ring \in [0 .. Page - 1 -> Nat]
    BY <1>1
  <2> QED BY <1>1, <1>4, <1>5, <2>1, <2>2 DEF Flow, Flowing
<1>8. Ends
  BY <1>1 DEF Ends, Ending, HaveEnds, Needed
<1> QED BY <1>1, <1>6, <1>7, <1>8, InitInv DEF PipeInv

LEMMA PipesKept ==
    ASSUME PipeInv, ~Faults, [Next]_vars
    PROVE  PipeInv' /\ QueueStep(Contents, Contents', received, received')
<1>1. CASE Next
  <2>1. PipeStep
    BY <1>1, StepPipes
  <2>2. FilesInv'
    BY <1>1, StepKeeps DEF PipeInv
  <2> QED BY <2>1, <2>2 DEF PipeStep, FlowStep, PipeInv
<1>2. CASE UNCHANGED vars
  <2>1. /\ UNCHANGED <<pc, cpu, sigpipe, asleep, io, fd, cloexec, fcount, finode, fmode, icount>>
        /\ UNCHANGED <<head, tail, ring, sent, received>>
    BY <1>2 DEF vars, tables, pipe
  <2>2. FilesInv'
    BY <1>2, StepKeeps DEF PipeInv
  <2>3. Flow' /\ Ends'
    BY <2>1 DEF PipeInv, Flow, Ends
  <2>4. Contents' = Contents
    BY <2>1, ContentsIs
  <2> QED BY <2>1, <2>2, <2>3, <2>4 DEF PipeInv, QueueStep
<1> QED BY <1>1, <1>2

(* Nobody sleeps on a pipe for what is there already, and the other end is *)
(* open, provided that no copy sleeps in a page fault (with one that does, *)
(* MCFiles_page_fault shows the pipe broken): any number of readers and    *)
(* writers share the one queue.                                            *)
THEOREM SleepersWaitForSomething ==
    ASSUME ~Faults
    PROVE  Spec => []SleepIsNeeded
<1>1. Init => PipeInv
  BY InitPipes
<1>2. PipeInv /\ [Next]_vars => PipeInv'
  BY PipesKept
<1>3. PipeInv => SleepIsNeeded
  BY SleepNeeded DEF PipeInv
<1> QED BY <1>1, <1>2, <1>3, PTL DEF Spec

(* Under the same hypothesis, for a page of any size and calls of any      *)
(* length: what read_pipe delivers is what write_pipe was given, in that   *)
(* order, each byte once.  ReadCopy takes, WriteCopy puts, the iput that   *)
(* frees the page discards, and everything else leaves the queue alone.    *)
THEOREM PipeIsAQueue ==
    ASSUME ~Faults
    PROVE  Spec => ImplementsFifo
<1>1. Init => PipeInv /\ Abstract!Init
  BY InitPipes DEF Abstract!Init
<1>2. PipeInv /\ [Next]_vars => PipeInv'
  BY PipesKept
<1>3. PipeInv /\ [Next]_vars =>
          [Abstract!Put \/ Abstract!Take \/ Abstract!Discard]_<<Contents, received>>
  <2> SUFFICES ASSUME PipeInv, [Next]_vars
               PROVE  [Abstract!Put \/ Abstract!Take \/ Abstract!Discard]_<<Contents, received>>
    OBVIOUS
  <2>1. QueueStep(Contents, Contents', received, received')
    BY PipesKept
  <2> QED BY <2>1 DEF QueueStep, Abstract!Put, Abstract!Take, Abstract!Discard
<1> QED BY <1>1, <1>2, <1>3, PTL DEF Spec, ImplementsFifo, Abstract!Spec
=============================================================================
