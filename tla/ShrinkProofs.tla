------------------------------ MODULE ShrinkProofs ------------------------------
(***************************************************************************)
(* Proofs about Shrink, for every set of cases, however the programs       *)
(* answer and for every budget.  First what the search counts; then, from  *)
(* what a choice of a list's entries is, that every reduction is a smaller *)
(* case; then that what validate_fixture accepts can be put on disk, and   *)
(* that a reduction of what can be started can be started.                 *)
(*                                                                         *)
(* Last, that this is so of every case there is to reduce: where the       *)
(* directories of a fixture are, where its files and links are, and that a *)
(* link does not lead outside, is enough for validate_fixture to accept    *)
(* it; and it is so of each fixture that is written out or drawn.          *)
(***************************************************************************)
EXTENDS FuzzCase, TLAPS, FiniteSetTheorems, SequenceTheorems, WellFoundedInduction

-----------------------------------------------------------------------------
(* The evaluations.                                                        *)

\* A search begins with nothing counted.
LEMMA InitIInv == Init => IInv
  BY AttemptsAssumption DEF Init, IInv, Budget

\* An evaluation takes a number that is new and within the budget.
LEMMA EvaluateCounts ==
  ASSUME IInv, Evaluate
  PROVE  /\ attempts' \in Nat
         /\ used' \subseteq 1 .. attempts'
         /\ Budget'
         /\ attempts' \in used' \ used
  BY AttemptsAssumption DEF IInv, Budget, Evaluate

\* Every step keeps the counts.
LEMMA NextIInv == IInv /\ [Next]_vars => IInv'
<1> SUFFICES ASSUME IInv, [Next]_vars PROVE IInv'
  OBVIOUS
<1>1. CASE Evaluate
  BY <1>1, EvaluateCounts DEF IInv
<1>2. CASE ~Evaluate
  <2>1. used' = used /\ attempts' \in {attempts, attempts + 1}
    BY <1>2 DEF Next, Begin, Accept, Refuse, Fail, OutOfBudget, Finish, vars
  <2> QED
    BY <2>1 DEF IInv, Budget
<1> QED
  BY <1>1, <1>2

\* The inductive invariant holds in every state of the search.
THEOREM InductiveInvariant == Spec => []IInv
  BY InitIInv, NextIInv, PTL DEF Spec

\* The search never evaluates more than --shrink-attempts candidates
\* (fuzz/shrink.rs:391-394).
THEOREM BudgetIsKept == Spec => []Budget
<1>1. IInv => Budget
  BY DEF IInv
<1> QED
  BY <1>1, InductiveInvariant, PTL

\* Every evaluation has a work directory of its own (fuzz/shrink.rs:395).
THEOREM DirectoriesAreFresh == Spec => FreshDirectory
<1>1. IInv /\ [Next]_vars =>
        [refused' # refused \/ best' # best => attempts' \in used' \ used]_vars
  <2> SUFFICES ASSUME IInv, [Next]_vars, refused' # refused \/ best' # best
               PROVE  attempts' \in used' \ used
    OBVIOUS
  <2>1. Evaluate
    BY DEF Next, Begin, Accept, Refuse, Fail, OutOfBudget, Finish, vars
  <2> QED
    BY <2>1, EvaluateCounts
<1> QED
  BY <1>1, InductiveInvariant, PTL DEF Spec, FreshDirectory

-----------------------------------------------------------------------------
(* Choices of a list's entries.                                            *)

\* The principle of induction, for the set of numbers with a property.
LEMMA Induction ==
  ASSUME NEW holds \in SUBSET Nat, 0 \in holds, \A n \in holds : n + 1 \in holds
  PROVE  holds = Nat
<1> SUFFICES ASSUME Nat \ holds # {} PROVE FALSE
  OBVIOUS
<1> DEFINE below == {0 .. i : i \in Nat \ holds}
<1>1. below \subseteq FiniteSubsetsOf(Nat)
  <2> SUFFICES ASSUME NEW i \in Nat PROVE 0 .. i \in FiniteSubsetsOf(Nat)
    OBVIOUS
  <2>1. IsFiniteSet(0 .. i)
    BY FS_Interval
  <2> QED
    BY <2>1 DEF FiniteSubsetsOf
<1>2. PICK T \in below : \A U \in below : ~(<<U, T>> \in StrictSubsetOrdering(Nat))
  <2>1. below # {}
    OBVIOUS
  <2> HIDE DEF below
  <2> QED
    BY <1>1, <2>1, FS_StrictSubsetOrderingWellFounded, WFMin
<1>3. PICK i \in Nat \ holds : T = 0 .. i
  OBVIOUS
<1>4. i # 0 /\ i - 1 \in Nat /\ i - 1 \notin holds
  <2>1. i # 0
    BY <1>3
  <2>2. i - 1 \in Nat /\ (i - 1) + 1 = i
    BY <2>1
  <2> QED
    BY <2>1, <2>2, <1>3
<1>5. 0 .. (i - 1) \in below
  BY <1>4
<1>6. 0 .. (i - 1) \subseteq 0 .. i /\ 0 .. (i - 1) # 0 .. i
  <2>1. i \in 0 .. i /\ i \notin 0 .. (i - 1)
    BY <1>4
  <2>2. 0 .. (i - 1) \subseteq 0 .. i
    BY <1>4
  <2> QED
    BY <2>1, <2>2
<1>7. 0 .. (i - 1) \in SUBSET Nat /\ 0 .. i \in SUBSET Nat
  OBVIOUS
<1> QED
  BY <1>2, <1>3, <1>5, <1>6, <1>7 DEF StrictSubsetOrdering

\* A choice is made one place after another.
LEMMA ChosenSteps ==
  ASSUME NEW S, NEW s \in Seq(S), NEW places
  PROVE  \E upTo :
           /\ Chosen(s, places) = upTo[Len(s)]
           /\ upTo[0] = <<>>
           /\ \A n \in 1 .. Len(s) :
                upTo[n] = IF n \in places THEN Append(upTo[n - 1], s[n]) ELSE upTo[n - 1]
<1> DEFINE index == [i \in DOMAIN s |-> i]
           add(chosen, i) == IF i \in places THEN Append(chosen, s[i]) ELSE chosen
           table(f, D) == [t \in SUBSET D |->
                             IF t = {} THEN <<>> ELSE add(f[t \ {Max(t)}], index[Max(t)])]
           fold == CHOOSE f : f = table(f, DOMAIN index)
           holds == {m \in Nat : m <= Len(s) => \E f : f = table(f, 1 .. m)}
<1>1. Chosen(s, places) = fold[DOMAIN index]
  BY DEF Chosen, FoldLeftDomain, FoldLeft, MapThenFoldSet
<1>2. Len(s) \in Nat /\ DOMAIN index = 1 .. Len(s) /\ \A i \in 1 .. Len(s) : index[i] = i
  OBVIOUS
<1> HIDE DEF index, add, fold, table
<1>3. ASSUME NEW m \in Nat, NEW t \in SUBSET (1 .. m + 1), m + 1 \in t PROVE Max(t) = m + 1
  <2>1. \A y \in t : m + 1 >= y
    BY <1>3
  <2>2. \A x \in t : x >= m + 1 => x = m + 1
    BY <1>3
  <2> QED
    BY <2>1, <2>2, <1>3 DEF Max
<1>4. holds \in SUBSET Nat /\ 0 \in holds
  <2> DEFINE f == [t \in SUBSET (1 .. 0) |-> <<>>]
  <2>1. SUBSET (1 .. 0) = {{}}
    OBVIOUS
  <2>2. f = table(f, 1 .. 0)
    BY <2>1 DEF table
  <2> HIDE DEF f
  <2> QED
    BY <2>2
<1>5. ASSUME NEW m \in holds PROVE m + 1 \in holds
  <2> SUFFICES ASSUME m + 1 <= Len(s) PROVE \E f : f = table(f, 1 .. m + 1)
    OBVIOUS
  <2>1. m \in Nat /\ m + 1 \in 1 .. Len(s)
    BY <1>2
  <2>2. PICK g : g = table(g, 1 .. m)
    BY <2>1, <1>2
  <2> DEFINE f == [t \in SUBSET (1 .. m + 1) |->
                     IF m + 1 \in t THEN add(g[t \ {m + 1}], index[m + 1]) ELSE g[t]]
  <2>3. f = [t \in SUBSET (1 .. m + 1) |-> f[t]]
    OBVIOUS
  <2>4. ASSUME NEW t \in SUBSET (1 .. m + 1)
        PROVE  f[t] = IF t = {} THEN <<>> ELSE add(f[t \ {Max(t)}], index[Max(t)])
    <3>1. CASE m + 1 \in t
      <4>1. Max(t) = m + 1 /\ t # {}
        BY <1>3, <2>1, <3>1
      <4>2. t \ {m + 1} \in SUBSET (1 .. m + 1) /\ m + 1 \notin t \ {m + 1}
        OBVIOUS
      <4>3. f[t \ {m + 1}] = g[t \ {m + 1}]
        BY <4>2
      <4>4. f[t] = add(g[t \ {m + 1}], index[m + 1])
        BY <3>1
      <4> QED
        BY <4>1, <4>3, <4>4
    <3>2. CASE m + 1 \notin t
      <4>1. t \in SUBSET (1 .. m)
        BY <2>1, <3>2
      <4>2. t \ {Max(t)} \in SUBSET (1 .. m + 1) /\ m + 1 \notin t \ {Max(t)}
        BY <3>2
      <4>3. f[t] = g[t] /\ f[t \ {Max(t)}] = g[t \ {Max(t)}]
        BY <3>2, <4>2
      <4>4. g[t] = IF t = {} THEN <<>> ELSE add(g[t \ {Max(t)}], index[Max(t)])
        BY <2>2, <4>1 DEF table
      <4> QED
        BY <4>3, <4>4
    <3> QED
      BY <3>1, <3>2
  <2> HIDE DEF f
  <2>5. f = table(f, 1 .. m + 1)
    BY <2>3, <2>4 DEF table
  <2> QED
    BY <2>5
<1>6. \E f : f = table(f, DOMAIN index)
  <2>1. Len(s) \in holds
    <3> HIDE DEF holds
    <3> QED
      BY <1>2, <1>4, <1>5, Induction
  <2> QED
    BY <1>2, <2>1
<1>7. fold = table(fold, DOMAIN index)
  <2> QED
    BY <1>6 DEF fold
<1> DEFINE upTo == [n \in 0 .. Len(s) |-> fold[1 .. n]]
<1>8. upTo[0] = <<>>
  <2>1. 1 .. 0 = {} /\ {} \in SUBSET DOMAIN index
    OBVIOUS
  <2>2. fold[{}] = <<>>
    BY <1>7, <2>1 DEF table
  <2> QED
    BY <1>2, <2>1, <2>2
<1>9. ASSUME NEW n \in 1 .. Len(s)
      PROVE  upTo[n] = IF n \in places THEN Append(upTo[n - 1], s[n]) ELSE upTo[n - 1]
  <2>1. n \in Nat /\ n - 1 \in Nat /\ (n - 1) + 1 = n /\ n \in 0 .. Len(s) /\ n - 1 \in 0 .. Len(s)
    BY <1>2
  <2>2. n \in 1 .. n /\ 1 .. n \in SUBSET DOMAIN index
    BY <1>2, <2>1
  <2>3. Max(1 .. n) = n
    BY <1>3, <2>1, <2>2
  <2>4. (1 .. n) \ {n} = 1 .. (n - 1)
    BY <2>1
  <2>5. fold[1 .. n] = add(fold[(1 .. n) \ {Max(1 .. n)}], index[Max(1 .. n)])
    BY <1>7, <2>2 DEF table
  <2>6. fold[1 .. n] = add(fold[1 .. (n - 1)], n)
    BY <1>2, <2>3, <2>4, <2>5
  <2> QED
    BY <2>1, <2>6 DEF add
<1>10. Chosen(s, places) = upTo[Len(s)]
  BY <1>1, <1>2
<1> QED
  BY <1>8, <1>9, <1>10

\* What a choice consists of: a part of the list, in other places, and shorter if an
\* entry was left out.
LEMMA ChosenIs ==
  ASSUME NEW S, NEW s \in Seq(S), NEW places
  PROVE  LET t == Chosen(s, places) IN
         /\ t \in Seq(S) /\ Len(t) <= Len(s)
         /\ (\E i \in DOMAIN s : i \notin places) => Len(t) < Len(s)
         /\ \E at \in [DOMAIN t -> DOMAIN s \cap places] :
              /\ \A k \in DOMAIN t : t[k] = s[at[k]]
              /\ \A j, k \in DOMAIN t : at[j] = at[k] => j = k
              /\ \A i \in DOMAIN s \cap places : \E k \in DOMAIN t : at[k] = i
<1>1. PICK upTo :
           /\ Chosen(s, places) = upTo[Len(s)]
           /\ upTo[0] = <<>>
           /\ \A n \in 1 .. Len(s) :
                upTo[n] = IF n \in places THEN Append(upTo[n - 1], s[n]) ELSE upTo[n - 1]
  BY ChosenSteps
<1> DEFINE Places(n) == (1 .. n) \cap places
           Good(t, n, at) ==
             /\ t \in Seq(S) /\ Len(t) <= n
             /\ (\E i \in 1 .. n : i \notin places) => Len(t) < n
             /\ at \in [1 .. Len(t) -> Places(n)]
             /\ \A k \in 1 .. Len(t) : t[k] = s[at[k]]
             /\ \A j, k \in 1 .. Len(t) : at[j] = at[k] => j = k
             /\ \A i \in Places(n) : \E k \in 1 .. Len(t) : at[k] = i
           holds == {n \in Nat : n <= Len(s) => \E at : Good(upTo[n], n, at)}
<1>2. holds \in SUBSET Nat /\ 0 \in holds
  <2> DEFINE at == [k \in {} |-> 0]
  <2>1. Good(<<>>, 0, at)
    <3>1. <<>> \in Seq(S) /\ Len(<<>>) = 0 /\ 1 .. 0 = {}
      OBVIOUS
    <3>2. at \in [1 .. 0 -> Places(0)]
      BY <3>1
    <3> HIDE DEF at
    <3> QED
      BY <3>1, <3>2
  <2> HIDE DEF Good
  <2>2. \E a : Good(upTo[0], 0, a)
    BY <1>1, <2>1
  <2> QED
    BY <2>2
<1>3. ASSUME NEW n \in holds PROVE n + 1 \in holds
  <2> SUFFICES ASSUME n + 1 <= Len(s) PROVE \E at : Good(upTo[n + 1], n + 1, at)
    <3> HIDE DEF Good
    <3> QED
      OBVIOUS
  <2> DEFINE t == upTo[n]
             u == upTo[n + 1]
  <2>1. n \in Nat /\ Len(s) \in Nat /\ n + 1 \in 1 .. Len(s) /\ (n + 1) - 1 = n
    OBVIOUS
  <2>2. PICK at : Good(t, n, at)
    <3> HIDE DEF Good
    <3> QED
      BY <2>1
  <2>3. u = IF n + 1 \in places THEN Append(t, s[n + 1]) ELSE t
    BY <1>1, <2>1
  <2>4. t \in Seq(S) /\ Len(t) \in Nat /\ Len(t) <= n /\ s[n + 1] \in S
    BY <2>1, <2>2
  <2> HIDE DEF t, u
  <2>5. CASE n + 1 \notin places
    <3>1. Places(n + 1) = Places(n)
      BY <2>1, <2>5
    <3>2. Good(t, n + 1, at)
      <4> HIDE DEF Places
      <4> QED
        BY <2>1, <2>2, <2>4, <3>1
    <3>3. Good(u, n + 1, at)
      <4> HIDE DEF Good
      <4> QED
        BY <2>3, <2>5, <3>2
    <3> HIDE DEF Good
    <3> QED
      BY <3>3 DEF u
  <2>6. CASE n + 1 \in places
    <3> DEFINE b == [k \in 1 .. Len(u) |-> IF k = Len(u) THEN n + 1 ELSE at[k]]
    <3>1. /\ u \in Seq(S) /\ Len(u) = Len(t) + 1 /\ u[Len(u)] = s[n + 1]
          /\ \A k \in 1 .. Len(t) : u[k] = t[k]
      BY <2>3, <2>4, <2>6
    <3>2. /\ 1 .. Len(u) = 1 .. Len(t) \cup {Len(u)} /\ Len(u) \notin 1 .. Len(t)
          /\ Len(u) \in Nat
      BY <2>4, <3>1
    <3>3. Places(n + 1) = Places(n) \cup {n + 1} /\ n + 1 \notin Places(n)
      BY <2>1, <2>6
    <3>4. b[Len(u)] = n + 1 /\ \A k \in 1 .. Len(t) : b[k] = at[k] /\ at[k] \in Places(n)
      BY <2>2, <3>2
    <3>5. b \in [1 .. Len(u) -> Places(n + 1)]
      <4>1. b = [k \in 1 .. Len(u) |-> b[k]]
        OBVIOUS
      <4> HIDE DEF b, Places
      <4> QED
        BY <3>2, <3>3, <3>4, <4>1
    <3> HIDE DEF b, Places
    <3>6. \A k \in 1 .. Len(u) : u[k] = s[b[k]]
      BY <2>2, <3>1, <3>2, <3>4
    <3>7. ASSUME NEW j \in 1 .. Len(u), NEW k \in 1 .. Len(u), b[j] = b[k] PROVE j = k
      <4>1. j \in 1 .. Len(t) <=> k \in 1 .. Len(t)
        <5>1. \A i \in 1 .. Len(t) : b[i] # n + 1
          BY <3>3, <3>4
        <5>2. \A i \in 1 .. Len(u) : i \notin 1 .. Len(t) => b[i] = n + 1
          BY <3>2, <3>4
        <5> QED
          BY <3>7, <5>1, <5>2
      <4>2. CASE j \in 1 .. Len(t)
        <5>1. \A i, l \in 1 .. Len(t) : at[i] = at[l] => i = l
          BY <2>2
        <5>2. at[j] = at[k]
          BY <3>4, <3>7, <4>1, <4>2
        <5> QED
          BY <4>1, <4>2, <5>1, <5>2
      <4>3. CASE j \notin 1 .. Len(t)
        BY <3>2, <4>1, <4>3
      <4> QED
        BY <4>2, <4>3
    <3>8. \A i \in Places(n + 1) : \E k \in 1 .. Len(u) : b[k] = i
      BY <2>2, <3>2, <3>3, <3>4, ZenonT(40)
    <3>9. Len(u) <= n + 1 /\ ((\E i \in 1 .. n + 1 : i \notin places) => Len(u) < n + 1)
      <4>1. (\E i \in 1 .. n + 1 : i \notin places) => \E i \in 1 .. n : i \notin places
        BY <2>1, <2>6
      <4> QED
        BY <2>1, <2>2, <2>4, <3>1, <4>1
    <3>10. Good(u, n + 1, b)
      BY <3>1, <3>5, <3>6, <3>7, <3>8, <3>9
    <3> HIDE DEF Good
    <3> QED
      BY <3>10 DEF u
  <2> QED
    BY <2>5, <2>6
<1>4. Len(s) \in holds
  <2>1. Len(s) \in Nat
    OBVIOUS
  <2> HIDE DEF holds
  <2> QED
    BY <1>2, <1>3, <2>1, Induction
<1>5. PICK at : Good(Chosen(s, places), Len(s), at)
  <2> HIDE DEF Good
  <2> QED
    BY <1>1, <1>4
<1> DEFINE t == Chosen(s, places)
<1> HIDE DEF t
<1>6. DOMAIN t = 1 .. Len(t) /\ DOMAIN s = 1 .. Len(s) /\ Places(Len(s)) = DOMAIN s \cap places
  BY <1>5 DEF t
<1> HIDE DEF Places
<1>7. Good(t, Len(s), at)
  BY <1>5 DEF t
<1>8. /\ t \in Seq(S) /\ Len(t) <= Len(s)
      /\ (\E i \in DOMAIN s : i \notin places) => Len(t) < Len(s)
  BY <1>6, <1>7
<1>9. \E a \in [DOMAIN t -> DOMAIN s \cap places] :
        /\ \A k \in DOMAIN t : t[k] = s[a[k]]
        /\ \A j, k \in DOMAIN t : a[j] = a[k] => j = k
        /\ \A i \in DOMAIN s \cap places : \E k \in DOMAIN t : a[k] = i
  <2> SUFFICES /\ at \in [DOMAIN t -> DOMAIN s \cap places]
               /\ \A k \in DOMAIN t : t[k] = s[at[k]]
               /\ \A j, k \in DOMAIN t : at[j] = at[k] => j = k
               /\ \A i \in DOMAIN s \cap places : \E k \in DOMAIN t : at[k] = i
    OBVIOUS
  <2> QED
    BY <1>6, <1>7
<1> QED
  BY <1>8, <1>9 DEF t

\* What is left of a list without its last entry.
LEMMA FrontIs ==
  ASSUME NEW S, NEW s \in Seq(S), s # <<>>
  PROVE  /\ Front(s) \in Seq(S) /\ Len(Front(s)) = Len(s) - 1
         /\ \A i \in 1 .. Len(s) - 1 : Front(s)[i] = s[i]
         /\ Last(s) = s[Len(s)] /\ Last(s) \in S /\ Len(s) \in Nat \ {0}
<1>1. Len(s) \in Nat \ {0}
  OBVIOUS
<1>2. \A i \in 1 .. Len(s) - 1 : s[i] \in S
  BY <1>1
<1>3. /\ SubSeq(s, 1, Len(s) - 1) \in Seq(S) /\ Len(SubSeq(s, 1, Len(s) - 1)) = Len(s) - 1
      /\ \A i \in 1 .. Len(s) - 1 : SubSeq(s, 1, Len(s) - 1)[i] = s[i]
  <2>1. 1 \in Int /\ Len(s) - 1 \in Int /\ (Len(s) - 1) - 1 + 1 = Len(s) - 1
    BY <1>1
  <2>2. /\ SubSeq(s, 1, Len(s) - 1) \in Seq(S)
        /\ Len(SubSeq(s, 1, Len(s) - 1)) = IF 1 <= Len(s) - 1 THEN (Len(s) - 1) - 1 + 1 ELSE 0
        /\ \A i \in 1 .. (Len(s) - 1) - 1 + 1 : SubSeq(s, 1, Len(s) - 1)[i] = s[1 + i - 1]
    BY <1>2, <2>1, SubSeqProperties
  <2> QED
    BY <1>1, <2>1, <2>2
<1>4. s[Len(s)] \in S
  BY <1>1
<1> QED
  BY <1>1, <1>3, <1>4 DEF Front, Last

-----------------------------------------------------------------------------
(* Weights.                                                                *)

\* The files of a fixture.
Files == [path : Path, size : Nat]

\* The size of each file is a number.
LEMMA SizesOf ==
  ASSUME NEW files \in Seq(Files)
  PROVE  /\ Len(files) \in Nat /\ DOMAIN files = 1 .. Len(files)
         /\ \A i \in 1 .. Len(files) : files[i].size \in Nat
<1>1. Len(files) \in Nat /\ DOMAIN files = 1 .. Len(files) /\ \A i \in 1 .. Len(files) : files[i] \in Files
  OBVIOUS
<1> QED
  BY <1>1 DEF Files

\* There are finitely many bytes in a fixture.
LEMMA BytesAreFinite == ASSUME NEW files \in Seq(Files) PROVE IsFiniteSet(Bytes(files))
<1> DEFINE n == Len(files)
           of(i) == {i} \X (1 .. files[i].size)
           parts == {of(i) : i \in 1 .. n}
           part == [i \in 1 .. n |-> of(i)]
<1>1. n \in Nat /\ DOMAIN files = 1 .. n /\ \A i \in 1 .. n : files[i].size \in Nat
  BY SizesOf
<1>2. IsFiniteSet(parts)
  <2>1. part \in Surjection(1 .. n, parts)
    <3> HIDE DEF of
    <3> QED
      BY DEF Surjection
  <2>2. IsFiniteSet(1 .. n)
    BY <1>1, FS_Interval
  <2> QED
    BY <2>1, <2>2, FS_Surjection
<1>3. ASSUME NEW i \in 1 .. n PROVE IsFiniteSet(of(i))
  <2>1. files[i].size \in Int
    BY <1>1
  <2>2. IsFiniteSet(1 .. files[i].size) /\ IsFiniteSet({i})
    <3>1. 1 \in Int
      OBVIOUS
    <3>2. IsFiniteSet(1 .. files[i].size)
      BY <2>1, <3>1, FS_Interval
    <3> QED
      BY <3>2, FS_Singleton
  <2> QED
    BY <2>2, FS_Product
<1>4. IsFiniteSet(UNION parts)
  <2>1. \A T \in parts : IsFiniteSet(T)
    BY <1>3
  <2> HIDE DEF parts
  <2> QED
    BY <1>2, <2>1, FS_UNION
<1> QED
  BY <1>1, <1>4 DEF Bytes

\* What has no more bytes anywhere, and fewer in one place, has fewer in all.
LEMMA FewerBytes ==
  ASSUME NEW files \in Seq(Files), NEW fewer \in Seq(Files), Len(fewer) <= Len(files),
         \A i \in 1 .. Len(fewer) : fewer[i].size <= files[i].size
  PROVE  /\ Cardinality(Bytes(files)) \in Nat /\ Cardinality(Bytes(fewer)) \in Nat
         /\ Cardinality(Bytes(fewer)) <= Cardinality(Bytes(files))
         /\ (\E i \in 1 .. Len(fewer) : fewer[i].size < files[i].size)
              => Cardinality(Bytes(fewer)) < Cardinality(Bytes(files))
<1>1. IsFiniteSet(Bytes(files)) /\ Cardinality(Bytes(files)) \in Nat
  BY BytesAreFinite, FS_CardinalityType
<1>2. /\ DOMAIN files = 1 .. Len(files) /\ DOMAIN fewer = 1 .. Len(fewer)
      /\ Len(files) \in Nat /\ Len(fewer) \in Nat
      /\ \A i \in 1 .. Len(files) : files[i].size \in Nat
      /\ \A i \in 1 .. Len(fewer) : fewer[i].size \in Nat /\ i \in 1 .. Len(files)
  BY SizesOf
<1>3. Bytes(fewer) \subseteq Bytes(files)
  <2> SUFFICES ASSUME NEW i \in 1 .. Len(fewer), NEW b \in {i} \X (1 .. fewer[i].size)
               PROVE  b \in Bytes(files)
    BY <1>2 DEF Bytes
  <2>1. i \in 1 .. Len(files) /\ b \in {i} \X (1 .. files[i].size)
    BY <1>2
  <2> QED
    BY <1>2, <2>1 DEF Bytes
<1>4. /\ Cardinality(Bytes(fewer)) \in Nat
      /\ Cardinality(Bytes(fewer)) <= Cardinality(Bytes(files))
      /\ Cardinality(Bytes(fewer)) = Cardinality(Bytes(files)) => Bytes(fewer) = Bytes(files)
  BY <1>1, <1>3, FS_Subset, FS_CardinalityType
<1>5. ASSUME NEW i \in 1 .. Len(fewer), fewer[i].size < files[i].size
      PROVE  Bytes(fewer) # Bytes(files)
  <2> DEFINE last == <<i, files[i].size>>
  <2>1. last \in Bytes(files)
    <3>1. i \in DOMAIN files /\ files[i].size \in 1 .. files[i].size
      BY <1>2, <1>5
    <3> QED
      BY <3>1 DEF Bytes
  <2>2. last \notin Bytes(fewer)
    <3> SUFFICES ASSUME NEW j \in DOMAIN fewer, last \in {j} \X (1 .. fewer[j].size) PROVE FALSE
      BY DEF Bytes
    <3>1. j = i /\ files[i].size \in 1 .. fewer[j].size
      OBVIOUS
    <3> QED
      BY <1>2, <1>5, <3>1
  <2> QED
    BY <2>1, <2>2
<1> QED
  BY <1>1, <1>4, <1>5

\* Every part of a case has a length.
Weights(c) ==
  /\ Len(c.argv) \in Nat /\ Len(c.fixture.hardlinks) \in Nat /\ Len(c.fixture.symlinks) \in Nat
  /\ Len(c.fixture.files) \in Nat /\ Len(c.fixture.directories) \in Nat /\ c.stdin \in Nat
  /\ Len(c.cwd) \in Nat /\ Cardinality(Bytes(c.fixture.files)) \in Nat

LEMMA WeightsOf == ASSUME NEW c \in Cases PROVE Weights(c)
<1>1. c.fixture.files \in Seq(Files)
  BY DEF Cases, Blueprints, Files
<1>2. Cardinality(Bytes(c.fixture.files)) \in Nat
  BY <1>1, BytesAreFinite, FS_CardinalityType
<1> QED
  BY <1>2 DEF Cases, Blueprints, Weights, Path

-----------------------------------------------------------------------------
(* Parts of a fixture.                                                     *)

\* A list of some of the entries of another, each at most as often as there.
Part(t, s) ==
  \E at \in [DOMAIN t -> DOMAIN s] :
    (\A k \in DOMAIN t : t[k] = s[at[k]]) /\ (\A j, k \in DOMAIN t : at[j] = at[k] => j = k)

\* A part holds nothing new, and nothing twice that was not there twice.
LEMMA PartIsPart ==
  ASSUME NEW s, NEW t, Part(t, s)
  PROVE  ToSet(t) \subseteq ToSet(s) /\ (IsInjective(s) => IsInjective(t))
<1>1. PICK at \in [DOMAIN t -> DOMAIN s] :
        (\A k \in DOMAIN t : t[k] = s[at[k]]) /\ (\A j, k \in DOMAIN t : at[j] = at[k] => j = k)
  BY DEF Part
<1>2. ToSet(t) \subseteq ToSet(s)
  BY <1>1 DEF ToSet
<1>3. ASSUME IsInjective(s), NEW j \in DOMAIN t, NEW k \in DOMAIN t, t[j] = t[k] PROVE j = k
  <2>1. at[j] \in DOMAIN s /\ at[k] \in DOMAIN s /\ s[at[j]] = s[at[k]]
    BY <1>1, <1>3
  <2> QED
    BY <1>1, <1>3, <2>1 DEF IsInjective
<1> QED
  BY <1>2, <1>3 DEF IsInjective

\* The paths of a part are a part of the paths.
LEMMA PartPlucks == ASSUME NEW s, NEW t, Part(t, s) PROVE Part(Pluck(t), Pluck(s))
<1>1. PICK at \in [DOMAIN t -> DOMAIN s] :
        (\A k \in DOMAIN t : t[k] = s[at[k]]) /\ (\A j, k \in DOMAIN t : at[j] = at[k] => j = k)
  BY DEF Part
<1>2. /\ DOMAIN Pluck(t) = DOMAIN t /\ DOMAIN Pluck(s) = DOMAIN s
      /\ \A k \in DOMAIN t : Pluck(t)[k] = t[k].path
      /\ \A k \in DOMAIN s : Pluck(s)[k] = s[k].path
  BY DEF Pluck
<1>3. \A k \in DOMAIN t : Pluck(t)[k] = Pluck(s)[at[k]]
  BY <1>1, <1>2
<1> QED
  BY <1>1, <1>2, <1>3 DEF Part

LEMMA PartOfItself == ASSUME NEW s PROVE Part(s, s)
<1> DEFINE at == [k \in DOMAIN s |-> k]
<1>1. at \in [DOMAIN s -> DOMAIN s] /\ \A k \in DOMAIN s : at[k] = k
  OBVIOUS
<1> HIDE DEF at
<1> QED
  BY <1>1 DEF Part

\* Front and a choice give parts.
LEMMA FrontIsPart == ASSUME NEW S, NEW s \in Seq(S), s # <<>> PROVE Part(Front(s), s)
<1> DEFINE at == [k \in DOMAIN Front(s) |-> k]
<1>1. DOMAIN Front(s) = 1 .. Len(s) - 1 /\ DOMAIN s = 1 .. Len(s) /\ Len(s) \in Nat
  BY FrontIs
<1>2. at \in [DOMAIN Front(s) -> DOMAIN s] /\ \A k \in DOMAIN Front(s) : at[k] = k
  BY <1>1
<1> HIDE DEF at
<1>3. \A k \in 1 .. Len(s) - 1 : Front(s)[k] = s[k]
  BY FrontIs
<1>4. \A k \in DOMAIN Front(s) : Front(s)[k] = s[at[k]]
  BY <1>1, <1>2, <1>3
<1>5. \A j, k \in DOMAIN Front(s) : at[j] = at[k] => j = k
  BY <1>2
<1> QED
  BY <1>2, <1>4, <1>5 DEF Part

LEMMA ChosenIsPart == ASSUME NEW S, NEW s \in Seq(S), NEW places PROVE Part(Chosen(s, places), s)
<1>1. PICK at \in [DOMAIN Chosen(s, places) -> DOMAIN s \cap places] :
        /\ \A k \in DOMAIN Chosen(s, places) : Chosen(s, places)[k] = s[at[k]]
        /\ \A j, k \in DOMAIN Chosen(s, places) : at[j] = at[k] => j = k
  BY ChosenIs
<1>2. at \in [DOMAIN Chosen(s, places) -> DOMAIN s]
  OBVIOUS
<1> QED
  BY <1>1, <1>2 DEF Part

-----------------------------------------------------------------------------
(* Lists of distinct paths.                                                *)

\* Two lists of distinct paths are one if they share none.
LEMMA ConcatIs ==
  ASSUME NEW S, NEW a \in Seq(S), NEW b \in Seq(S)
  PROVE  /\ a \o b \in Seq(S)
         /\ ToSet(a \o b) = ToSet(a) \cup ToSet(b)
         /\ IsInjective(a \o b) <=> IsInjective(a) /\ IsInjective(b) /\ ToSet(a) \cap ToSet(b) = {}
<1> DEFINE m == Len(a)
           n == Len(b)
           c == a \o b
<1>1. /\ m \in Nat /\ n \in Nat /\ c \in Seq(S)
      /\ DOMAIN a = 1 .. m /\ DOMAIN b = 1 .. n /\ DOMAIN c = 1 .. m + n
      /\ \A i \in 1 .. m : c[i] = a[i]
      /\ \A i \in 1 .. n : c[m + i] = b[i]
  BY ConcatProperties
<1> HIDE DEF m, n, c
<1>2. /\ \A i \in 1 .. m : i \in 1 .. m + n
      /\ \A i \in 1 .. n : m + i \in 1 .. m + n
      /\ \A i \in 1 .. m + n : i \in 1 .. m \/ (i - m \in 1 .. n /\ m + (i - m) = i)
  BY <1>1
<1>3. ToSet(c) = ToSet(a) \cup ToSet(b)
  <2>1. ToSet(c) \subseteq ToSet(a) \cup ToSet(b)
    <3> SUFFICES ASSUME NEW i \in 1 .. m + n PROVE c[i] \in ToSet(a) \cup ToSet(b)
      BY <1>1 DEF ToSet
    <3>1. CASE i \in 1 .. m
      BY <3>1, <1>1 DEF ToSet
    <3>2. CASE i - m \in 1 .. n /\ m + (i - m) = i
      BY <3>2, <1>1 DEF ToSet
    <3> QED
      BY <3>1, <3>2, <1>2
  <2>2. ToSet(a) \subseteq ToSet(c)
    BY <1>1, <1>2 DEF ToSet
  <2>3. ToSet(b) \subseteq ToSet(c)
    BY <1>1, <1>2, SMTT(30) DEF ToSet
  <2> QED
    BY <2>1, <2>2, <2>3
<1>4. ASSUME IsInjective(c) PROVE IsInjective(a) /\ IsInjective(b) /\ ToSet(a) \cap ToSet(b) = {}
  <2>1. IsInjective(a)
    BY <1>1, <1>2, <1>4 DEF IsInjective
  <2>2. ASSUME NEW i \in 1 .. n, NEW j \in 1 .. n, b[i] = b[j] PROVE i = j
    <3>1. c[m + i] = c[m + j]
      BY <1>1, <2>2
    <3>2. m + i = m + j
      BY <3>1, <1>1, <1>2, <1>4 DEF IsInjective
    <3> QED
      BY <3>2, <1>1
  <2>3. ASSUME NEW i \in 1 .. m, NEW j \in 1 .. n, a[i] = b[j] PROVE FALSE
    <3>1. c[i] = c[m + j]
      BY <1>1, <2>3
    <3>2. i = m + j
      BY <3>1, <1>1, <1>2, <1>4 DEF IsInjective
    <3> QED
      BY <3>2, <1>1
  <2> QED
    BY <1>1, <2>1, <2>2, <2>3 DEF IsInjective, ToSet
<1>5. ASSUME IsInjective(a), IsInjective(b), ToSet(a) \cap ToSet(b) = {} PROVE IsInjective(c)
  <2> SUFFICES ASSUME NEW i \in 1 .. m + n, NEW j \in 1 .. m + n, c[i] = c[j] PROVE i = j
    BY <1>1 DEF IsInjective
  <2>1. ASSUME NEW k \in 1 .. m, NEW l \in 1 .. n PROVE c[k] # c[m + l]
    BY <1>1, <1>5 DEF ToSet
  <2>2. CASE i \in 1 .. m /\ j \in 1 .. m
    BY <2>2, <1>1, <1>5 DEF IsInjective
  <2>3. CASE i \in 1 .. m /\ j - m \in 1 .. n /\ m + (j - m) = j
    BY <2>3, <2>1
  <2>4. CASE i - m \in 1 .. n /\ m + (i - m) = i /\ j \in 1 .. m
    BY <2>4, <2>1
  <2>5. CASE i - m \in 1 .. n /\ m + (i - m) = i /\ j - m \in 1 .. n /\ m + (j - m) = j
    <3>1. b[i - m] = b[j - m]
      BY <2>5, <1>1
    <3>2. i - m = j - m
      BY <3>1, <2>5, <1>1, <1>5 DEF IsInjective
    <3> QED
      BY <3>2, <2>5
  <2> QED
    BY <2>2, <2>3, <2>4, <2>5, <1>2
<1> QED
  BY <1>1, <1>3, <1>4, <1>5 DEF c

\* The paths of a fixture come in lists.
Listed(f) ==
  /\ f.directories \in Seq(Path) /\ Pluck(f.files) \in Seq(Path)
  /\ Pluck(f.symlinks) \in Seq(Path) /\ Pluck(f.hardlinks) \in Seq(Path)

\* The paths of a list of entries, in its order.
LEMMA PluckIs ==
  ASSUME NEW P, NEW R, NEW s \in Seq(R), \A r \in R : r.path \in P
  PROVE  Pluck(s) \in Seq(P) /\ Len(Pluck(s)) = Len(s) /\ \A i \in 1 .. Len(s) : Pluck(s)[i] = s[i].path
<1>1. Len(s) \in Nat /\ DOMAIN s = 1 .. Len(s) /\ \A i \in 1 .. Len(s) : s[i].path \in P
  OBVIOUS
<1>2. Pluck(s) = [i \in 1 .. Len(s) |-> s[i].path]
  BY <1>1 DEF Pluck
<1> HIDE DEF Pluck
<1> QED
  BY <1>1, <1>2

\* The links of a fixture.
SymlinkEntries == [path : Path, target : Path]
HardlinkEntries == [path : Path, source : Path]

\* A blueprint consists of four lists.
LEMMA BlueprintsAreLists ==
  ASSUME NEW f \in Blueprints
  PROVE  /\ f.directories \in Seq(Path) /\ f.files \in Seq(Files)
         /\ f.symlinks \in Seq(SymlinkEntries) /\ f.hardlinks \in Seq(HardlinkEntries)
         /\ Listed(f)
<1>1. /\ f.directories \in Seq(Path) /\ f.files \in Seq(Files)
      /\ f.symlinks \in Seq(SymlinkEntries) /\ f.hardlinks \in Seq(HardlinkEntries)
  BY DEF Blueprints, Files, SymlinkEntries, HardlinkEntries
<1>2. /\ \A r \in Files : r.path \in Path
      /\ \A r \in SymlinkEntries : r.path \in Path
      /\ \A r \in HardlinkEntries : r.path \in Path
  BY DEF Files, SymlinkEntries, HardlinkEntries
<1>3. Pluck(f.files) \in Seq(Path)
  BY <1>1, <1>2, PluckIs
<1>4. Pluck(f.symlinks) \in Seq(Path)
  BY <1>1, <1>2, PluckIs
<1>5. Pluck(f.hardlinks) \in Seq(Path)
  BY <1>1, <1>2, PluckIs
<1> QED
  BY <1>1, <1>3, <1>4, <1>5 DEF Listed

\* What a fixture declares, list by list.
LEMMA DestinationsAre ==
  ASSUME NEW f, Listed(f)
  PROVE  LET D == f.directories
             F == Pluck(f.files)
             L == Pluck(f.symlinks)
             H == Pluck(f.hardlinks)
         IN /\ ToSet(Destinations(f)) = ToSet(D) \cup ToSet(F) \cup ToSet(L) \cup ToSet(H)
            /\ NonDirectories(f) = ToSet(F) \cup ToSet(L) \cup ToSet(H)
            /\ ToSet(Pluck(f.files) \o Pluck(f.symlinks)) = ToSet(F) \cup ToSet(L)
            /\ IsInjective(Destinations(f)) <=>
                 /\ IsInjective(D) /\ IsInjective(F) /\ IsInjective(L) /\ IsInjective(H)
                 /\ ToSet(D) \cap ToSet(F) = {} /\ ToSet(D) \cap ToSet(L) = {} /\ ToSet(D) \cap ToSet(H) = {}
                 /\ ToSet(F) \cap ToSet(L) = {} /\ ToSet(F) \cap ToSet(H) = {} /\ ToSet(L) \cap ToSet(H) = {}
<1> DEFINE D == f.directories
           F == Pluck(f.files)
           L == Pluck(f.symlinks)
           H == Pluck(f.hardlinks)
<1>1. D \in Seq(Path) /\ F \in Seq(Path) /\ L \in Seq(Path) /\ H \in Seq(Path)
  BY DEF Listed
<1>2. /\ Destinations(f) = ((D \o F) \o L) \o H /\ NonDirectories(f) = ToSet((F \o L) \o H)
      /\ Symlinks(f) = ToSet(L)
  BY DEF Destinations, NonDirectories, Symlinks
<1> HIDE DEF D, F, L, H
<1> DEFINE DF == D \o F
           DFL == DF \o L
           FL == F \o L
<1>3. /\ DF \in Seq(Path) /\ FL \in Seq(Path)
      /\ ToSet(DF) = ToSet(D) \cup ToSet(F) /\ ToSet(FL) = ToSet(F) \cup ToSet(L)
      /\ IsInjective(DF) <=> IsInjective(D) /\ IsInjective(F) /\ ToSet(D) \cap ToSet(F) = {}
  BY <1>1, ConcatIs
<1> HIDE DEF DF, FL
<1>4. /\ DFL \in Seq(Path)
      /\ ToSet(DFL) = ToSet(DF) \cup ToSet(L)
      /\ IsInjective(DFL) <=> IsInjective(DF) /\ IsInjective(L) /\ ToSet(DF) \cap ToSet(L) = {}
  BY <1>1, <1>3, ConcatIs
<1> HIDE DEF DFL
<1>5. /\ ToSet(DFL \o H) = ToSet(DFL) \cup ToSet(H)
      /\ IsInjective(DFL \o H) <=> IsInjective(DFL) /\ IsInjective(H) /\ ToSet(DFL) \cap ToSet(H) = {}
  BY <1>1, <1>4, ConcatIs
<1>6. ToSet(FL \o H) = ToSet(FL) \cup ToSet(H)
  BY <1>1, <1>3, ConcatIs
<1>7. Destinations(f) = DFL \o H /\ NonDirectories(f) = ToSet(FL \o H)
  BY <1>2 DEF DF, DFL, FL
<1>8. /\ ToSet(Destinations(f)) = ToSet(D) \cup ToSet(F) \cup ToSet(L) \cup ToSet(H)
      /\ NonDirectories(f) = ToSet(F) \cup ToSet(L) \cup ToSet(H)
      /\ ToSet(F \o L) = ToSet(F) \cup ToSet(L)
  BY <1>3, <1>4, <1>5, <1>6, <1>7 DEF FL
<1>9. IsInjective(Destinations(f)) <=>
                 /\ IsInjective(D) /\ IsInjective(F) /\ IsInjective(L) /\ IsInjective(H)
                 /\ ToSet(D) \cap ToSet(F) = {} /\ ToSet(D) \cap ToSet(L) = {} /\ ToSet(D) \cap ToSet(H) = {}
                 /\ ToSet(F) \cap ToSet(L) = {} /\ ToSet(F) \cap ToSet(H) = {} /\ ToSet(L) \cap ToSet(H) = {}
  BY <1>3, <1>4, <1>5, <1>7
<1> QED
  BY <1>8, <1>9 DEF D, F, L, H

\* A part of a valid fixture is valid if what its hardlinks alias is still there.
LEMMA PartIsValid ==
  ASSUME NEW f \in Blueprints, NEW g \in Blueprints, ValidFixture(f),
         Part(g.directories, f.directories), Part(Pluck(g.files), Pluck(f.files)),
         Part(g.symlinks, f.symlinks), Part(g.hardlinks, f.hardlinks),
         \A h \in ToSet(g.hardlinks) : h.source \in ToSet(Pluck(g.files)) \cup ToSet(Pluck(g.symlinks))
  PROVE  ValidFixture(g)
<1>1. /\ ToSet(g.directories) \subseteq ToSet(f.directories)
      /\ ToSet(Pluck(g.files)) \subseteq ToSet(Pluck(f.files))
      /\ ToSet(Pluck(g.symlinks)) \subseteq ToSet(Pluck(f.symlinks))
      /\ ToSet(Pluck(g.hardlinks)) \subseteq ToSet(Pluck(f.hardlinks))
      /\ ToSet(g.symlinks) \subseteq ToSet(f.symlinks)
      /\ ToSet(g.hardlinks) \subseteq ToSet(f.hardlinks)
  BY PartIsPart, PartPlucks
<1>2. /\ IsInjective(f.directories) => IsInjective(g.directories)
      /\ IsInjective(Pluck(f.files)) => IsInjective(Pluck(g.files))
      /\ IsInjective(Pluck(f.symlinks)) => IsInjective(Pluck(g.symlinks))
      /\ IsInjective(Pluck(f.hardlinks)) => IsInjective(Pluck(g.hardlinks))
  BY PartIsPart, PartPlucks
<1>3. Listed(f) /\ Listed(g)
  BY BlueprintsAreLists
<1>4. IsInjective(Destinations(f))
  BY DEF ValidFixture
<1>5. IsInjective(Destinations(g))
  BY <1>1, <1>2, <1>3, <1>4, DestinationsAre
<1>6. /\ ToSet(Destinations(g)) \subseteq ToSet(Destinations(f))
      /\ NonDirectories(g) \subseteq NonDirectories(f)
      /\ ToSet(Pluck(g.files) \o Pluck(g.symlinks)) = ToSet(Pluck(g.files)) \cup ToSet(Pluck(g.symlinks))
  BY <1>1, <1>3, DestinationsAre
<1>7. Symlinks(g) \subseteq Symlinks(f) /\ AliasesOfSymlinks(g) \subseteq AliasesOfSymlinks(f)
  BY <1>1 DEF Symlinks, AliasesOfSymlinks
<1>8. \A s \in ToSet(g.symlinks) : StaysWithin(s.path, s.target)
  BY <1>1 DEF ValidFixture
<1>9. ASSUME NEW h \in ToSet(g.hardlinks) PROVE ValidHardlink(g, h)
  <2>1. ValidHardlink(f, h)
    BY <1>1 DEF ValidFixture
  <2>2. \A s \in ToSet(g.symlinks) : s.path = h.source => StaysWithin(h.path, s.target)
    BY <1>1, <2>1 DEF ValidHardlink
  <2>3. \A p \in {h.path, h.source} : Above(p) \cap (Symlinks(g) \cup AliasesOfSymlinks(g)) = {}
    BY <1>7, <2>1 DEF ValidHardlink
  <2> QED
    BY <1>6, <2>2, <2>3 DEF ValidHardlink
<1>10. \A p \in ToSet(Destinations(g)) : p # <<>> /\ Above(p) \cap NonDirectories(g) = {}
  BY <1>6 DEF ValidFixture
<1> QED
  BY <1>5, <1>8, <1>9, <1>10 DEF ValidFixture

-----------------------------------------------------------------------------
(* Reductions.                                                             *)

\* The cases that are smaller than a case, and staged if it is.
Better(c) == {r \in Cases : Weight(r) < Weight(c) /\ (Staged(c) => Staged(r))}

\* No part of a case is longer than that of another, and one is shorter.
NoHeavier(r, c) ==
  /\ Len(r.argv) <= Len(c.argv)
  /\ Len(r.fixture.hardlinks) <= Len(c.fixture.hardlinks)
  /\ Len(r.fixture.symlinks) <= Len(c.fixture.symlinks)
  /\ Len(r.fixture.files) <= Len(c.fixture.files)
  /\ Len(r.fixture.directories) <= Len(c.fixture.directories)
  /\ r.stdin <= c.stdin
  /\ Len(r.cwd) <= Len(c.cwd)
  /\ Cardinality(Bytes(r.fixture.files)) <= Cardinality(Bytes(c.fixture.files))

LighterPart(r, c) ==
  \/ Len(r.argv) < Len(c.argv)
  \/ Len(r.fixture.hardlinks) < Len(c.fixture.hardlinks)
  \/ Len(r.fixture.symlinks) < Len(c.fixture.symlinks)
  \/ Len(r.fixture.files) < Len(c.fixture.files)
  \/ Len(r.fixture.directories) < Len(c.fixture.directories)
  \/ r.stdin < c.stdin
  \/ Len(r.cwd) < Len(c.cwd)
  \/ Cardinality(Bytes(r.fixture.files)) < Cardinality(Bytes(c.fixture.files))

\* A case is lighter than another if no part of it is heavier and one is lighter.
LEMMA Lighter ==
  ASSUME NEW c \in Cases, NEW r \in Cases, NoHeavier(r, c), LighterPart(r, c)
  PROVE  Weight(r) < Weight(c)
<1> DEFINE argv1 == Len(r.argv)
           hardlinks1 == Len(r.fixture.hardlinks)
           symlinks1 == Len(r.fixture.symlinks)
           files1 == Len(r.fixture.files)
           directories1 == Len(r.fixture.directories)
           stdin1 == r.stdin
           cwd1 == Len(r.cwd)
           bytes1 == Cardinality(Bytes(r.fixture.files))
           argv2 == Len(c.argv)
           hardlinks2 == Len(c.fixture.hardlinks)
           symlinks2 == Len(c.fixture.symlinks)
           files2 == Len(c.fixture.files)
           directories2 == Len(c.fixture.directories)
           stdin2 == c.stdin
           cwd2 == Len(c.cwd)
           bytes2 == Cardinality(Bytes(c.fixture.files))
<1>1. Weight(r) = argv1 + hardlinks1 + symlinks1 + files1 + directories1 + stdin1 + cwd1 + bytes1
  BY DEF Weight
<1>2. Weight(c) = argv2 + hardlinks2 + symlinks2 + files2 + directories2 + stdin2 + cwd2 + bytes2
  BY DEF Weight
<1>3. /\ argv1 \in Nat /\ argv2 \in Nat /\ argv1 <= argv2
      /\ hardlinks1 \in Nat /\ hardlinks2 \in Nat /\ hardlinks1 <= hardlinks2
      /\ symlinks1 \in Nat /\ symlinks2 \in Nat /\ symlinks1 <= symlinks2
      /\ files1 \in Nat /\ files2 \in Nat /\ files1 <= files2
      /\ directories1 \in Nat /\ directories2 \in Nat /\ directories1 <= directories2
      /\ stdin1 \in Nat /\ stdin2 \in Nat /\ stdin1 <= stdin2
      /\ cwd1 \in Nat /\ cwd2 \in Nat /\ cwd1 <= cwd2
      /\ bytes1 \in Nat /\ bytes2 \in Nat /\ bytes1 <= bytes2
  BY WeightsOf DEF Weights, NoHeavier
<1>4. argv1 < argv2 \/ hardlinks1 < hardlinks2 \/ symlinks1 < symlinks2 \/ files1 < files2 \/ directories1 < directories2 \/ stdin1 < stdin2 \/ cwd1 < cwd2 \/ bytes1 < bytes2
  BY DEF LighterPart
<1> HIDE DEF argv1, hardlinks1, symlinks1, files1, directories1, stdin1, cwd1, bytes1, argv2, hardlinks2, symlinks2, files2, directories2, stdin2, cwd2, bytes2
<1> QED
  BY <1>1, <1>2, <1>3, <1>4

\* A list of one candidate or of none.
LEMMA OnlyIs ==
  ASSUME NEW S, NEW condition \in BOOLEAN, NEW x, condition => x \in S
  PROVE  Only(condition, x) \in Seq(S)
  BY DEF Only

\* A fixture of no more entries in each list and bytes in its files, and fewer in one.
Reduced(g, f) ==
  /\ Len(g.directories) <= Len(f.directories) /\ Len(g.symlinks) <= Len(f.symlinks)
  /\ Len(g.hardlinks) <= Len(f.hardlinks) /\ Len(g.files) <= Len(f.files)
  /\ \A i \in 1 .. Len(g.files) : g.files[i].size <= f.files[i].size
  /\ \/ Len(g.directories) < Len(f.directories) \/ Len(g.symlinks) < Len(f.symlinks)
     \/ Len(g.hardlinks) < Len(f.hardlinks) \/ Len(g.files) < Len(f.files)
     \/ \E i \in 1 .. Len(g.files) : g.files[i].size < f.files[i].size

\* A case with a lesser fixture, as valid, is a better case.
LEMMA FixtureReduced ==
  ASSUME NEW c \in Cases, NEW g \in Blueprints, Reduced(g, c.fixture),
         Staged(c) => ValidFixture(g) /\ c.cwd \in {<<>>} \cup ToSet(g.directories)
  PROVE  [c EXCEPT !.fixture = g] \in Better(c)
<1> DEFINE r == [c EXCEPT !.fixture = g]
<1>1. r \in Cases /\ r.fixture = g /\ r.argv = c.argv /\ r.stdin = c.stdin /\ r.cwd = c.cwd
  BY DEF Cases
<1> HIDE DEF r
<1>2. c.fixture \in Blueprints
  BY DEF Cases
<1>3. g.files \in Seq(Files) /\ c.fixture.files \in Seq(Files)
  BY <1>2, BlueprintsAreLists
<1>4. Weights(c) /\ Weights(r)
  BY <1>1, WeightsOf
<1>5. /\ Cardinality(Bytes(g.files)) <= Cardinality(Bytes(c.fixture.files))
      /\ (\E i \in 1 .. Len(g.files) : g.files[i].size < c.fixture.files[i].size)
           => Cardinality(Bytes(g.files)) < Cardinality(Bytes(c.fixture.files))
  BY <1>3, FewerBytes DEF Reduced
<1>6. Weight(r) < Weight(c)
  <2>1. NoHeavier(r, c)
    BY <1>1, <1>4, <1>5 DEF Weights, NoHeavier, Reduced
  <2>2. LighterPart(r, c)
    BY <1>1, <1>4, <1>5 DEF LighterPart, Reduced
  <2> QED
    BY <1>1, <1>4, <1>5, <2>1, <2>2, Lighter
<1>7. Staged(c) => Staged(r)
  BY <1>1 DEF Staged
<1> QED
  BY <1>1, <1>6, <1>7 DEF Better, r

\* Without one argument.
LEMMA ReduceArgvIs == ASSUME NEW c \in Cases PROVE ReduceArgv(c) \in Seq(Better(c))
<1> DEFINE reduced == [i \in DOMAIN c.argv |-> [c EXCEPT !.argv = Without(@, i)]]
<1>1. c.argv \in Seq(STRING) /\ DOMAIN c.argv = 1 .. Len(c.argv) /\ Len(c.argv) \in Nat
  BY DEF Cases
<1>2. ASSUME NEW i \in DOMAIN c.argv PROVE [c EXCEPT !.argv = Without(@, i)] \in Better(c)
  <2> DEFINE r == [c EXCEPT !.argv = Without(@, i)]
  <2>1. Without(c.argv, i) \in Seq(STRING) /\ Len(Without(c.argv, i)) < Len(c.argv)
    <3>1. \E j \in DOMAIN c.argv : j \notin DOMAIN c.argv \ {i}
      OBVIOUS
    <3> QED
      BY <1>1, <3>1, ChosenIs DEF Without
  <2>2. /\ r \in Cases /\ r.fixture = c.fixture /\ r.argv = Without(c.argv, i)
        /\ r.stdin = c.stdin /\ r.cwd = c.cwd
    BY <2>1 DEF Cases
  <2> HIDE DEF r
  <2>3. Weights(c) /\ Weights(r)
    BY <2>2, WeightsOf
  <2>4. Weight(r) < Weight(c)
    <3>1. NoHeavier(r, c)
      BY <2>1, <2>2, <2>3 DEF Weights, NoHeavier
    <3>2. LighterPart(r, c)
      BY <2>1, <2>2, <2>3 DEF LighterPart
    <3> QED
      BY <2>1, <2>2, <2>3, <3>1, <3>2, Lighter
  <2>5. Staged(c) => Staged(r)
    BY <2>2 DEF Staged
  <2> QED
    BY <2>2, <2>4, <2>5 DEF Better, r
<1>3. reduced \in Seq(Better(c))
  <2>1. reduced = [i \in 1 .. Len(c.argv) |-> reduced[i]] /\ \A i \in 1 .. Len(c.argv) : reduced[i] \in Better(c)
    BY <1>1, <1>2
  <2> HIDE DEF reduced
  <2>2. reduced \in [1 .. Len(c.argv) -> Better(c)]
    BY <2>1
  <2> QED
    BY <1>1, <2>2
<1> HIDE DEF reduced
<1>4. Chosen(reduced, {i \in DOMAIN reduced : reduced[i].argv \notin Unsupported}) \in Seq(Better(c))
  BY <1>3, ChosenIs
<1> QED
  BY <1>4 DEF ReduceArgv, reduced

\* With half of its stdin.
LEMMA ReduceStdinIs == ASSUME NEW c \in Cases PROVE ReduceStdin(c) \in Seq(Better(c))
<1> SUFFICES ASSUME c.stdin > 0 PROVE [c EXCEPT !.stdin = @ \div 2] \in Better(c)
  <2> DEFINE r == [c EXCEPT !.stdin = @ \div 2]
  <2>1. ReduceStdin(c) = Only(c.stdin > 0, r)
    BY Zenon DEF ReduceStdin
  <2>2. c.stdin > 0 => r \in Better(c)
    OBVIOUS
  <2> HIDE DEF r
  <2>3. Only(c.stdin > 0, r) \in Seq(Better(c))
    BY <2>2 DEF Only
  <2> QED
    BY <2>1, <2>3
<1> DEFINE r == [c EXCEPT !.stdin = @ \div 2]
<1>1. c.stdin \in Nat /\ c.stdin \div 2 \in Nat /\ c.stdin \div 2 < c.stdin
  BY DEF Cases
<1>2. /\ r \in Cases /\ r.fixture = c.fixture /\ r.argv = c.argv
      /\ r.stdin = c.stdin \div 2 /\ r.cwd = c.cwd
  BY <1>1 DEF Cases
<1> HIDE DEF r
<1>3. Weights(c) /\ Weights(r)
  BY <1>2, WeightsOf
<1>4. Weight(r) < Weight(c)
  <2>1. NoHeavier(r, c)
    BY <1>1, <1>2, <1>3 DEF Weights, NoHeavier
  <2>2. LighterPart(r, c)
    BY <1>1, <1>2, <1>3 DEF LighterPart
  <2> QED
    BY <1>1, <1>2, <1>3, <2>1, <2>2, Lighter
<1>5. Staged(c) => Staged(r)
  BY <1>2 DEF Staged
<1> QED
  BY <1>2, <1>4, <1>5 DEF Better, r

\* In the root.
LEMMA ReduceCwdIs == ASSUME NEW c \in Cases PROVE ReduceCwd(c) \in Seq(Better(c))
<1> SUFFICES ASSUME c.cwd # <<>> PROVE [c EXCEPT !.cwd = <<>>] \in Better(c)
  BY OnlyIs DEF ReduceCwd
<1> DEFINE r == [c EXCEPT !.cwd = <<>>]
<1>1. c.cwd \in Seq(STRING) /\ Len(c.cwd) \in Nat /\ Len(c.cwd) > 0 /\ <<>> \in Seq(STRING) /\ Len(<<>>) = 0
  BY DEF Cases, Path
<1>2. /\ r \in Cases /\ r.fixture = c.fixture /\ r.argv = c.argv
      /\ r.stdin = c.stdin /\ r.cwd = <<>>
  BY <1>1 DEF Cases, Path
<1> HIDE DEF r
<1>3. Weights(c) /\ Weights(r)
  BY <1>2, WeightsOf
<1>4. Weight(r) < Weight(c)
  <2>1. NoHeavier(r, c)
    BY <1>1, <1>2, <1>3 DEF Weights, NoHeavier
  <2>2. LighterPart(r, c)
    BY <1>1, <1>2, <1>3 DEF LighterPart
  <2> QED
    BY <1>1, <1>2, <1>3, <2>1, <2>2, Lighter
<1>5. Staged(c) => Staged(r)
  BY <1>2 DEF Staged
<1> QED
  BY <1>2, <1>4, <1>5 DEF Better, r

\* Every hardlink of a valid fixture is an alias of a file or a symlink.
LEMMA SourcesOf ==
  ASSUME NEW f \in Blueprints, ValidFixture(f)
  PROVE  \A h \in ToSet(f.hardlinks) : h.source \in ToSet(Pluck(f.files)) \cup ToSet(Pluck(f.symlinks))
<1>1. ToSet(Pluck(f.files) \o Pluck(f.symlinks)) = ToSet(Pluck(f.files)) \cup ToSet(Pluck(f.symlinks))
  BY BlueprintsAreLists, DestinationsAre
<1> QED
  BY <1>1 DEF ValidFixture, ValidHardlink

\* What is kept of the hardlinks when an entry is removed.
LEMMA KeptIs ==
  ASSUME NEW links \in Seq(HardlinkEntries), NEW removed
  PROVE  /\ Kept(links, removed) \in Seq(HardlinkEntries)
         /\ Len(Kept(links, removed)) <= Len(links)
         /\ Part(Kept(links, removed), links)
         /\ \A h \in ToSet(Kept(links, removed)) : h.source # removed /\ h \in ToSet(links)
<1> DEFINE places == {i \in DOMAIN links : links[i].source # removed}
           t == Chosen(links, places)
<1>1. /\ t \in Seq(HardlinkEntries) /\ Len(t) <= Len(links)
      /\ \E at \in [DOMAIN t -> DOMAIN links \cap places] : \A k \in DOMAIN t : t[k] = links[at[k]]
  <2> HIDE DEF places
  <2> QED
    BY ChosenIs
<1>2. Part(t, links)
  <2> HIDE DEF places
  <2> QED
    BY ChosenIsPart
<1> HIDE DEF t
<1>3. \A h \in ToSet(t) : h.source # removed /\ h \in ToSet(links)
  <2> SUFFICES ASSUME NEW k \in DOMAIN t PROVE t[k].source # removed /\ t[k] \in ToSet(links)
    BY DEF ToSet
  <2>1. PICK i \in DOMAIN links \cap places : t[k] = links[i]
    BY <1>1
  <2> QED
    BY <2>1 DEF ToSet
<1> QED
  BY <1>1, <1>2, <1>3 DEF Kept, t

\* What is left of a list without its last path.
LEMMA FrontPaths ==
  ASSUME NEW R, NEW s \in Seq(R), \A r \in R : r.path \in Path, s # <<>>
  PROVE  ToSet(Pluck(s)) \subseteq ToSet(Pluck(Front(s))) \cup {Last(s).path}
<1>1. /\ Front(s) \in Seq(R) /\ Len(Front(s)) = Len(s) - 1 /\ Last(s) = s[Len(s)]
      /\ \A i \in 1 .. Len(s) - 1 : Front(s)[i] = s[i]
  BY FrontIs
<1>2. /\ Len(s) \in Nat
      /\ DOMAIN Pluck(s) = 1 .. Len(s) /\ \A i \in 1 .. Len(s) : Pluck(s)[i] = s[i].path
      /\ DOMAIN Pluck(Front(s)) = 1 .. Len(s) - 1
      /\ \A i \in 1 .. Len(s) - 1 : Pluck(Front(s))[i] = Front(s)[i].path
  <2>1. Pluck(s) \in Seq(Path) /\ Len(Pluck(s)) = Len(s)
    BY PluckIs
  <2>2. Pluck(Front(s)) \in Seq(Path) /\ Len(Pluck(Front(s))) = Len(Front(s))
    BY <1>1, PluckIs
  <2>3. \A i \in 1 .. Len(s) : Pluck(s)[i] = s[i].path
    BY PluckIs, ZenonT(40)
  <2>4. \A i \in 1 .. Len(Front(s)) : Pluck(Front(s))[i] = Front(s)[i].path
    BY <1>1, PluckIs
  <2> QED
    BY <1>1, <2>1, <2>2, <2>3, <2>4
<1> SUFFICES ASSUME NEW i \in 1 .. Len(s)
             PROVE  s[i].path \in ToSet(Pluck(Front(s))) \cup {Last(s).path}
  BY <1>2 DEF ToSet
<1>3. CASE i = Len(s)
  BY <1>1, <1>3
<1>4. CASE i # Len(s)
  <2>1. i \in 1 .. Len(s) - 1
    BY <1>2, <1>4
  <2>2. Pluck(Front(s))[i] = s[i].path
    BY <1>1, <1>2, <2>1
  <2> QED
    BY <1>2, <2>1, <2>2 DEF ToSet
<1> QED
  BY <1>3, <1>4

\* Entries of other kinds are left as they are.
LEMMA SameBytes ==
  ASSUME NEW f \in Blueprints, NEW g \in Blueprints, g.files = f.files
  PROVE  \A i \in 1 .. Len(g.files) : g.files[i].size <= f.files[i].size
<1>1. f.files \in Seq(Files)
  BY BlueprintsAreLists
<1> QED
  BY <1>1, SizesOf

\* The lists of a fixture are finite.
LEMMA LengthsOf ==
  ASSUME NEW f \in Blueprints
  PROVE  /\ Len(f.directories) \in Nat /\ Len(f.files) \in Nat
         /\ Len(f.symlinks) \in Nat /\ Len(f.hardlinks) \in Nat
  BY BlueprintsAreLists

\* Without its last hardlink.
LEMMA PopHardlinkIs == ASSUME NEW c \in Cases PROVE PopHardlink(c) \in Seq(Better(c))
<1> DEFINE f == c.fixture
           g == [f EXCEPT !.hardlinks = Front(@)]
<1> SUFFICES ASSUME f.hardlinks # <<>> PROVE [c EXCEPT !.fixture = g] \in Better(c)
  <2>1. [c EXCEPT !.fixture.hardlinks = Front(@)] = [c EXCEPT !.fixture = g]
    BY DEF Cases, Blueprints
  <2> HIDE DEF g
  <2> QED
    BY <2>1 DEF PopHardlink, Only
<1>1. f \in Blueprints
  BY DEF Cases
<1>2. /\ Front(f.hardlinks) \in Seq(HardlinkEntries) /\ Len(Front(f.hardlinks)) = Len(f.hardlinks) - 1
      /\ Part(Front(f.hardlinks), f.hardlinks)
  BY <1>1, BlueprintsAreLists, FrontIs, FrontIsPart
<1>3. /\ g \in Blueprints /\ g.directories = f.directories /\ g.files = f.files
      /\ g.symlinks = f.symlinks /\ g.hardlinks = Front(f.hardlinks)
  BY <1>1, <1>2 DEF Blueprints, HardlinkEntries
<1> HIDE DEF f, g
<1>4. Reduced(g, f)
  BY <1>1, <1>2, <1>3, SameBytes, LengthsOf DEF Reduced
<1>5. ValidFixture(f) => ValidFixture(g)
  <2>1. ToSet(g.hardlinks) \subseteq ToSet(f.hardlinks)
    BY <1>2, <1>3, PartIsPart
  <2> QED
    BY <1>1, <1>2, <1>3, <2>1, PartOfItself, SourcesOf, PartIsValid
<1> QED
  BY <1>3, <1>4, <1>5, FixtureReduced DEF Staged, f

\* Without its last symlink and the aliases of that.
LEMMA PopSymlinkIs == ASSUME NEW c \in Cases PROVE PopSymlink(c) \in Seq(Better(c))
<1> DEFINE f == c.fixture
           removed == Last(f.symlinks).path
           g == [f EXCEPT !.symlinks = Front(@), !.hardlinks = Kept(@, removed)]
<1> SUFFICES ASSUME f.symlinks # <<>> PROVE [c EXCEPT !.fixture = g] \in Better(c)
  <2>1. [c EXCEPT !.fixture.symlinks = Front(@), !.fixture.hardlinks = Kept(@, Last(c.fixture.symlinks).path)]
          = [c EXCEPT !.fixture = g]
    BY DEF Cases, Blueprints
  <2> HIDE DEF g
  <2> QED
    BY <2>1 DEF PopSymlink, Only
<1>1. f \in Blueprints
  BY DEF Cases
<1>2. /\ Front(f.symlinks) \in Seq(SymlinkEntries) /\ Len(Front(f.symlinks)) = Len(f.symlinks) - 1
      /\ Part(Front(f.symlinks), f.symlinks)
  BY <1>1, BlueprintsAreLists, FrontIs, FrontIsPart, SMTT(30)
<1>3. /\ Kept(f.hardlinks, removed) \in Seq(HardlinkEntries)
      /\ Len(Kept(f.hardlinks, removed)) <= Len(f.hardlinks)
      /\ Part(Kept(f.hardlinks, removed), f.hardlinks)
      /\ \A h \in ToSet(Kept(f.hardlinks, removed)) : h.source # removed /\ h \in ToSet(f.hardlinks)
  BY <1>1, BlueprintsAreLists, KeptIs
<1> HIDE DEF removed
<1>4. /\ g \in Blueprints /\ g.directories = f.directories /\ g.files = f.files
      /\ g.symlinks = Front(f.symlinks) /\ g.hardlinks = Kept(f.hardlinks, removed)
  BY <1>1, <1>2, <1>3 DEF Blueprints, SymlinkEntries, HardlinkEntries
<1>5. ToSet(Pluck(f.symlinks)) \subseteq ToSet(Pluck(Front(f.symlinks))) \cup {removed}
  <2>1. f.symlinks \in Seq(SymlinkEntries) /\ \A r \in SymlinkEntries : r.path \in Path
    BY <1>1, BlueprintsAreLists DEF SymlinkEntries
  <2> QED
    BY <2>1, FrontPaths DEF removed
<1> HIDE DEF f, g
<1>6. Reduced(g, f)
  BY <1>1, <1>2, <1>3, <1>4, SameBytes, LengthsOf DEF Reduced
<1>7. ASSUME ValidFixture(f) PROVE ValidFixture(g)
  <2>1. \A h \in ToSet(g.hardlinks) : h.source \in ToSet(Pluck(g.files)) \cup ToSet(Pluck(g.symlinks))
    BY <1>1, <1>3, <1>4, <1>5, <1>7, SourcesOf
  <2> QED
    BY <1>1, <1>2, <1>3, <1>4, <1>7, <2>1, PartOfItself, PartIsValid
<1> QED
  BY <1>4, <1>6, <1>7, FixtureReduced DEF Staged, f

\* Without its last file and the aliases of that.
LEMMA PopFileIs == ASSUME NEW c \in Cases PROVE PopFile(c) \in Seq(Better(c))
<1> DEFINE f == c.fixture
           removed == Last(f.files).path
           g == [f EXCEPT !.files = Front(@), !.hardlinks = Kept(@, removed)]
<1> SUFFICES ASSUME Len(f.files) > 1 PROVE [c EXCEPT !.fixture = g] \in Better(c)
  <2>1. [c EXCEPT !.fixture.files = Front(@), !.fixture.hardlinks = Kept(@, Last(c.fixture.files).path)]
          = [c EXCEPT !.fixture = g]
    BY DEF Cases, Blueprints
  <2> HIDE DEF g
  <2> QED
    BY <2>1 DEF PopFile, Only
<1>1. f \in Blueprints
  BY DEF Cases
<1>2. f.files \in Seq(Files) /\ f.files # <<>> /\ Len(f.files) \in Nat
  BY <1>1, BlueprintsAreLists
<1>3. /\ Front(f.files) \in Seq(Files) /\ Len(Front(f.files)) = Len(f.files) - 1
      /\ \A i \in 1 .. Len(f.files) - 1 : Front(f.files)[i] = f.files[i]
      /\ Part(Front(f.files), f.files)
  BY <1>2, FrontIs, FrontIsPart
<1>4. /\ Kept(f.hardlinks, removed) \in Seq(HardlinkEntries)
      /\ Len(Kept(f.hardlinks, removed)) <= Len(f.hardlinks)
      /\ Part(Kept(f.hardlinks, removed), f.hardlinks)
      /\ \A h \in ToSet(Kept(f.hardlinks, removed)) : h.source # removed /\ h \in ToSet(f.hardlinks)
  BY <1>1, BlueprintsAreLists, KeptIs
<1> HIDE DEF removed
<1>5. /\ g \in Blueprints /\ g.directories = f.directories /\ g.files = Front(f.files)
      /\ g.symlinks = f.symlinks /\ g.hardlinks = Kept(f.hardlinks, removed)
  BY <1>1, <1>3, <1>4 DEF Blueprints, Files, HardlinkEntries
<1>6. ToSet(Pluck(f.files)) \subseteq ToSet(Pluck(Front(f.files))) \cup {removed}
  <2>1. \A r \in Files : r.path \in Path
    BY DEF Files
  <2> QED
    BY <1>2, <2>1, FrontPaths DEF removed
<1> HIDE DEF f, g
<1>7. Reduced(g, f)
  <2>1. \A i \in 1 .. Len(g.files) : g.files[i].size <= f.files[i].size
    BY <1>2, <1>3, <1>5, SizesOf
  <2> QED
    BY <1>1, <1>3, <1>4, <1>5, <2>1, LengthsOf DEF Reduced
<1>8. ASSUME ValidFixture(f) PROVE ValidFixture(g)
  <2>1. \A h \in ToSet(g.hardlinks) : h.source \in ToSet(Pluck(g.files)) \cup ToSet(Pluck(g.symlinks))
    BY <1>1, <1>4, <1>5, <1>6, <1>8, SourcesOf
  <2>2. Part(Pluck(g.files), Pluck(f.files))
    BY <1>3, <1>5, PartPlucks
  <2> QED
    BY <1>1, <1>4, <1>5, <1>8, <2>1, <2>2, PartOfItself, PartIsValid
<1> QED
  BY <1>5, <1>7, <1>8, FixtureReduced DEF Staged, f

\* A set of numbers up to one of them has a greatest one.
LEMMA MaxIs ==
  ASSUME NEW n \in Nat, NEW S \in SUBSET (0 .. n), S # {}
  PROVE  Max(S) \in S
<1> DEFINE holds == {m \in Nat : \A T \in SUBSET (0 .. m) : T # {} => \E x \in T : \A y \in T : x >= y}
<1>1. holds \in SUBSET Nat /\ 0 \in holds
  <2>1. 0 .. 0 = {0}
    OBVIOUS
  <2>2. ASSUME NEW T \in SUBSET {0}, T # {} PROVE \E x \in T : \A y \in T : x >= y
    <3>1. PICK x : x \in T
      BY <2>2
    <3>2. x = 0 /\ \A y \in T : y = 0
      BY <3>1
    <3> QED
      BY <3>1, <3>2
  <2> QED
    BY <2>1, <2>2
<1>2. ASSUME NEW m \in holds PROVE m + 1 \in holds
  <2> SUFFICES ASSUME NEW T \in SUBSET (0 .. m + 1), T # {} PROVE \E x \in T : \A y \in T : x >= y
    OBVIOUS
  <2>1. CASE m + 1 \in T
    BY <2>1
  <2>2. CASE m + 1 \notin T
    <3>1. T \in SUBSET (0 .. m)
      BY <2>2
    <3> QED
      BY <3>1
  <2> QED
    BY <2>1, <2>2
<1>3. n \in holds
  <2> HIDE DEF holds
  <2> QED
    BY <1>1, <1>2, Induction
<1> QED
  BY <1>3 DEF Max

\* Without the last directory that does not lead to its working directory, which
\* is not the working directory itself.
LEMMA RemoveDirectoryIs == ASSUME NEW c \in Cases PROVE RemoveDirectory(c) \in Seq(Better(c))
<1> DEFINE f == c.fixture
           last == Max(Removable(c))
           g == [f EXCEPT !.directories = Without(@, last)]
<1> SUFFICES ASSUME Removable(c) # {} PROVE [c EXCEPT !.fixture = g] \in Better(c)
  <2>1. [c EXCEPT !.fixture.directories = Without(@, Max(Removable(c)))] = [c EXCEPT !.fixture = g]
    BY DEF Cases, Blueprints
  <2> HIDE DEF g
  <2> QED
    BY <2>1 DEF RemoveDirectory, Only
<1>1. /\ f \in Blueprints /\ f.directories \in Seq(Path)
      /\ Len(f.directories) \in Nat /\ DOMAIN f.directories = 1 .. Len(f.directories)
  BY BlueprintsAreLists DEF Cases
<1>2. last \in Removable(c) /\ Removable(c) \subseteq DOMAIN f.directories
  <2>1. Removable(c) \subseteq 1 .. Len(f.directories) /\ Removable(c) \in SUBSET (0 .. Len(f.directories))
    BY <1>1 DEF Removable
  <2> QED
    BY <1>1, <2>1, MaxIs
<1> HIDE DEF last
<1>3. /\ Without(f.directories, last) \in Seq(Path)
      /\ Len(Without(f.directories, last)) < Len(f.directories)
      /\ Part(Without(f.directories, last), f.directories)
      /\ \A j \in DOMAIN f.directories \ {last} : f.directories[j] \in ToSet(Without(f.directories, last))
  <2> DEFINE d == f.directories
             places == DOMAIN d \ {last}
             t == Chosen(d, places)
  <2>1. last \in DOMAIN d /\ last \notin places /\ d \in Seq(Path)
    BY <1>1, <1>2
  <2> HIDE DEF d, places
  <2>2. /\ t \in Seq(Path) /\ Len(t) < Len(d)
        /\ \E at \in [DOMAIN t -> DOMAIN d \cap places] :
             /\ \A k \in DOMAIN t : t[k] = d[at[k]]
             /\ \A i \in DOMAIN d \cap places : \E k \in DOMAIN t : at[k] = i
    BY <2>1, ChosenIs
  <2>3. Part(t, d)
    BY <2>1, ChosenIsPart
  <2>4. \A j \in places : d[j] \in ToSet(t)
    <3>1. places \subseteq DOMAIN d
      BY DEF places
    <3> HIDE DEF t
    <3> QED
      BY <2>2, <3>1 DEF ToSet
  <2> QED
    BY <2>2, <2>3, <2>4 DEF Without, d, places
<1>4. /\ g \in Blueprints /\ g.directories = Without(f.directories, last) /\ g.files = f.files
      /\ g.symlinks = f.symlinks /\ g.hardlinks = f.hardlinks
  BY <1>1, <1>3 DEF Blueprints
<1>5. c.cwd \in ToSet(f.directories) => c.cwd \in ToSet(g.directories)
  <2> SUFFICES ASSUME NEW j \in DOMAIN f.directories, f.directories[j] = c.cwd
               PROVE  c.cwd \in ToSet(g.directories)
    BY DEF ToSet
  <2>1. IsPrefix(f.directories[j], c.cwd)
    BY DEF IsPrefix, Cases, Path
  <2>2. j # last
    BY <1>2, <2>1 DEF Removable
  <2> QED
    BY <1>3, <1>4, <2>2
<1> HIDE DEF f, g
<1>6. Reduced(g, f)
  BY <1>1, <1>3, <1>4, SameBytes, LengthsOf DEF Reduced
<1>7. ASSUME ValidFixture(f) PROVE ValidFixture(g)
  BY <1>1, <1>3, <1>4, <1>7, PartOfItself, SourcesOf, PartIsValid
<1> QED
  BY <1>4, <1>5, <1>6, <1>7, FixtureReduced DEF Staged, f

\* A file of half the size.
LEMMA HalvedIs ==
  ASSUME NEW c \in Cases, NEW i \in DOMAIN c.fixture.files, c.fixture.files[i].size > 0
  PROVE  [c EXCEPT !.fixture.files[i].size = @ \div 2] \in Better(c)
<1> DEFINE f == c.fixture
           halved == [f.files EXCEPT ![i].size = @ \div 2]
           g == [f EXCEPT !.files = halved]
<1>1. [c EXCEPT !.fixture.files[i].size = @ \div 2] = [c EXCEPT !.fixture = g]
  BY DEF Cases, Blueprints
<1>2. /\ f \in Blueprints /\ f.files \in Seq(Files) /\ i \in 1 .. Len(f.files)
      /\ Len(f.files) \in Nat /\ DOMAIN f.files = 1 .. Len(f.files) /\ f.files[i].size > 0
  BY BlueprintsAreLists DEF Cases
<1>3. /\ f.files[i] \in Files /\ f.files[i].size \in Nat
      /\ f.files[i].size \div 2 \in Nat /\ f.files[i].size \div 2 < f.files[i].size
  <2>1. f.files[i] \in Files /\ f.files[i].size \in Nat
    BY <1>2, SizesOf
  <2> QED
    BY <1>2, <2>1
<1> HIDE DEF f
<1>4. /\ halved \in Seq(Files) /\ Len(halved) = Len(f.files)
      /\ DOMAIN halved = DOMAIN f.files
      /\ halved[i] = [f.files[i] EXCEPT !.size = @ \div 2]
      /\ \A j \in DOMAIN f.files : j # i => halved[j] = f.files[j]
  <2>1. [f.files[i] EXCEPT !.size = @ \div 2] \in Files
    BY <1>3 DEF Files
  <2> HIDE DEF Files
  <2> QED
    BY <1>2, <2>1
<1> HIDE DEF halved
<1>5. halved[i].path = f.files[i].path /\ halved[i].size = f.files[i].size \div 2
  BY <1>3, <1>4 DEF Files
<1>6. Pluck(halved) = Pluck(f.files)
  BY <1>4, <1>5 DEF Pluck
<1>7. /\ g \in Blueprints /\ g.directories = f.directories /\ g.files = halved
      /\ g.symlinks = f.symlinks /\ g.hardlinks = f.hardlinks
  BY <1>2, <1>4 DEF Blueprints, Files
<1> HIDE DEF g
<1>8. Reduced(g, f)
  <2>1. ASSUME NEW j \in 1 .. Len(f.files) PROVE halved[j].size <= f.files[j].size
    <3>1. f.files[j].size \in Nat
      BY <1>2, SizesOf
    <3>2. CASE j = i
      BY <1>3, <1>5, <3>2
    <3>3. CASE j # i
      BY <1>2, <1>4, <3>1, <3>3
    <3> QED
      BY <3>2, <3>3
  <2>2. halved[i].size < f.files[i].size
    BY <1>3, <1>5
  <2> QED
    <3>1. /\ Len(g.files) = Len(f.files) /\ i \in 1 .. Len(g.files)
          /\ Len(g.directories) <= Len(f.directories) /\ Len(g.symlinks) <= Len(f.symlinks)
          /\ Len(g.hardlinks) <= Len(f.hardlinks)
      BY <1>2, <1>4, <1>7, LengthsOf
    <3> QED
      BY <1>2, <1>7, <2>1, <2>2, <3>1 DEF Reduced
<1>9. ASSUME ValidFixture(f) PROVE ValidFixture(g)
  BY <1>2, <1>6, <1>7, <1>9, PartOfItself, SourcesOf, PartIsValid
<1>10. [c EXCEPT !.fixture = g] \in Better(c)
  BY <1>7, <1>8, <1>9, FixtureReduced DEF Staged, f
<1> QED
  BY <1>1, <1>10

\* With one file of half the size.
LEMMA ReduceContentsIs == ASSUME NEW c \in Cases PROVE ReduceContents(c) \in Seq(Better(c))
<1> DEFINE files == c.fixture.files
           half(i) == [c EXCEPT !.fixture.files[i].size = @ \div 2]
           reduced == [i \in DOMAIN files |-> half(i)]
           places == {i \in DOMAIN files : files[i].size > 0}
           t == Chosen(reduced, places)
<1>1. DOMAIN files = 1 .. Len(files) /\ Len(files) \in Nat
  BY BlueprintsAreLists DEF Cases
<1>2. \A i \in places : half(i) \in Better(c)
  BY HalvedIs
<1>3. places \subseteq DOMAIN files
  OBVIOUS
<1> HIDE DEF half, places, files
<1>4. reduced \in Seq({half(i) : i \in DOMAIN files}) /\ DOMAIN reduced = DOMAIN files
  BY <1>1
<1>5. /\ t \in Seq({half(i) : i \in DOMAIN files})
      /\ \E at \in [DOMAIN t -> DOMAIN reduced \cap places] :
           \A k \in DOMAIN t : t[k] = reduced[at[k]]
  <2> HIDE DEF reduced
  <2> QED
    BY <1>4, ChosenIs, SMTT(30)
<1>6. \A k \in DOMAIN t : t[k] \in Better(c)
  <2> SUFFICES ASSUME NEW k \in DOMAIN t PROVE t[k] \in Better(c)
    OBVIOUS
  <2>1. PICK i \in DOMAIN reduced \cap places : t[k] = reduced[i]
    BY <1>5
  <2>2. t[k] = half(i)
    BY <2>1
  <2> QED
    BY <1>2, <2>1, <2>2
<1>7. t \in Seq(Better(c))
  <2> HIDE DEF t
  <2>1. t = [k \in 1 .. Len(t) |-> t[k]] /\ Len(t) \in Nat /\ DOMAIN t = 1 .. Len(t)
    BY <1>5
  <2>2. t \in [1 .. Len(t) -> Better(c)]
    BY <1>6, <2>1
  <2> QED
    BY <2>1, <2>2
<1>8. t = ReduceContents(c)
  BY Zenon DEF ReduceContents, t, reduced, half, places, files
<1> QED
  BY <1>7, <1>8

\* Every reduction of a case is a smaller case, staged if the case is.
LEMMA ReductionsReduce == ASSUME NEW c \in Cases PROVE Reductions(c) \in Seq(Better(c))
<1> DEFINE S == Better(c)
<1>1. /\ ReduceArgv(c) \in Seq(S) /\ ReduceContents(c) \in Seq(S)
      /\ ReduceStdin(c) \in Seq(S) /\ ReduceCwd(c) \in Seq(S)
  BY ReduceArgvIs, ReduceContentsIs, ReduceStdinIs, ReduceCwdIs
<1>2. /\ PopHardlink(c) \in Seq(S) /\ PopSymlink(c) \in Seq(S)
      /\ PopFile(c) \in Seq(S) /\ RemoveDirectory(c) \in Seq(S)
  BY PopHardlinkIs, PopSymlinkIs, PopFileIs, RemoveDirectoryIs
<1> HIDE DEF S
<1>3. ReduceFixture(c) \in Seq(S)
  BY <1>2 DEF ReduceFixture
<1>4. (IF RequiresResolvable(c.argv) THEN <<>> ELSE ReduceFixture(c)) \in Seq(S)
  BY <1>3
<1>5. Reductions(c) \in Seq(S)
  BY <1>1, <1>4 DEF Reductions
<1> QED
  BY <1>5 DEF S

-----------------------------------------------------------------------------
(* The search.                                                             *)

\* The search is at a case, and every reduction of it before the next one has
\* been refused.
PassSoFar ==
  /\ best.case \in Cases
  /\ next \in Nat \ {0}
  /\ pc = "pass" =>
       \A i \in DOMAIN Reductions(best.case) : i < next => Reductions(best.case)[i] \in refused
  /\ pc = "begin" => attempts = 0 /\ next = 1
  /\ pc = "done" => LocalMinimum

\* What is evaluated next is a smaller case.
LEMMA CandidateIsBetter ==
  ASSUME PassSoFar, Evaluate
  PROVE  Candidate \in Better(best.case)
<1>1. Reductions(best.case) \in Seq(Better(best.case))
  BY ReductionsReduce DEF PassSoFar
<1>2. next \in 1 .. Len(Reductions(best.case))
  BY <1>1 DEF Evaluate, PassSoFar
<1> QED
  BY <1>1, <1>2 DEF Candidate

\* Every step keeps what is refused up to the next reduction.
LEMMA NextPassSoFar ==
  ASSUME IInv, PassSoFar, [Next]_vars
  PROVE  PassSoFar'
<1> USE AttemptsAssumption DEF PassSoFar
<1>1. CASE Begin
  <2>1. best' = best /\ next' = 1 /\ pc' \in {"done", "pass"}
    BY <1>1 DEF Begin
  <2>2. \A i \in DOMAIN Reductions(best.case) : ~ (i < 1)
    BY ReductionsReduce
  <2>3. pc' = "done" => LocalMinimum'
    BY <1>1 DEF Begin, LocalMinimum
  <2> QED
    BY <2>1, <2>2, <2>3
<1>2. CASE Accept
  <2>1. next' = 1 /\ pc' = "pass"
    BY <1>2 DEF Accept, Evaluate
  <2>2. best'.case \in Cases
    BY <1>2, CandidateIsBetter DEF Accept, Better
  <2>3. \A i \in DOMAIN Reductions(best'.case) : ~ (i < 1)
    BY <2>2, ReductionsReduce
  <2> QED
    BY <2>1, <2>2, <2>3
<1>3. CASE Refuse
  <2>1. /\ best' = best /\ pc = "pass" /\ pc' = pc /\ next' = next + 1
        /\ refused' = refused \cup {Reductions(best.case)[next]}
    BY <1>3 DEF Refuse, Evaluate, Candidate
  <2>2. DOMAIN Reductions(best.case) \subseteq Nat
    BY ReductionsReduce
  <2>3. ASSUME NEW i \in DOMAIN Reductions(best.case), i < next + 1
        PROVE  Reductions(best.case)[i] \in refused'
    <3>1. i < next \/ i = next
      BY <2>2, <2>3
    <3> QED
      BY <2>1, <3>1
  <2> QED
    BY <2>1, <2>3
<1>4. CASE Fail
  BY <1>4 DEF Fail, Evaluate
<1>5. CASE OutOfBudget
  <2>1. attempts' > MaxAttempts
    BY <1>5 DEF OutOfBudget, IInv
  <2>2. LocalMinimum'
    BY <1>5, <2>1 DEF OutOfBudget, LocalMinimum, IInv
  <2> QED
    BY <1>5, <2>2 DEF OutOfBudget
<1>6. CASE Finish
  <2>1. \A i \in DOMAIN Reductions(best.case) : i < next
    BY <1>6, ReductionsReduce DEF Finish
  <2>2. \A i \in DOMAIN Reductions(best.case) : Reductions(best.case)[i] \in refused
    BY <1>6, <2>1 DEF Finish
  <2>3. LocalMinimum'
    BY <1>6, <2>2 DEF Finish, LocalMinimum, ToSet
  <2> QED
    BY <1>6, <2>3 DEF Finish
<1>7. CASE UNCHANGED vars
  BY <1>7 DEF vars, LocalMinimum
<1> QED
  BY <1>1, <1>2, <1>3, <1>4, <1>5, <1>6, <1>7 DEF Next

\* So it is in every state of the search.
LEMMA PassSoFarHolds == Spec => []PassSoFar
<1>1. Init => PassSoFar
  BY OriginalsAssumption DEF Init, PassSoFar, Evaluations
<1>2. IInv /\ PassSoFar /\ [Next]_vars => PassSoFar'
  BY NextPassSoFar
<1> QED
  BY <1>1, <1>2, InductiveInvariant, PTL DEF Spec

\* A search that its budget does not end has evaluated and refused every
\* reduction of its result (fuzz/shrink.rs:409-414).
THEOREM ResultIsMinimal == Spec => []LocalMinimum
<1>1. PassSoFar => LocalMinimum
  BY DEF PassSoFar, LocalMinimum
<1> QED
  BY <1>1, PassSoFarHolds, PTL

\* What was evaluated tells of the programs: they can show the difference on the
\* best case, and on what was refused they need not.
LEMMA NextRepro == Repro /\ [Next]_vars => Repro'
<1> SUFFICES ASSUME Repro, [Next]_vars PROVE Repro'
  OBVIOUS
<1>1. CASE Accept
  <2>1. /\ best'.case = Candidate /\ original.signature \in Outcomes(programs, Candidate)
        /\ programs' = programs /\ original' = original /\ refused' = {}
    BY <1>1 DEF Accept, Evaluate
  <2> QED
    BY <2>1 DEF Repro
<1>2. CASE Refuse
  <2>1. /\ programs' = programs /\ original' = original /\ best' = best
        /\ refused' = refused \cup {Candidate}
    BY <1>2 DEF Refuse, Evaluate
  <2>2. Outcomes(programs, Candidate) # {original.signature}
    BY <1>2 DEF Refuse
  <2> QED
    BY <2>1, <2>2 DEF Repro
<1>3. CASE ~ Accept /\ ~ Refuse
  <2>1. UNCHANGED <<programs, original, best, refused>>
    BY <1>3 DEF Next, Begin, Evaluate, Fail, OutOfBudget, Finish, vars
  <2> QED
    BY <2>1 DEF Repro
<1> QED
  BY <1>1, <1>2, <1>3

\* Whatever the programs are, and whether or not they answer alike each time, they
\* can show the difference the search was given on the case it returns, and unless
\* its budget ends it there is no reduction of that case on which they always do
\* (fuzz/shrink.rs:388-417).
THEOREM MinimalReproHolds == Spec => []MinimalRepro
<1>1. Init => Repro
  BY DEF Init, Repro
<1>2. Repro /\ LocalMinimum => MinimalRepro
  BY DEF Repro, LocalMinimum, MinimalRepro
<1> QED
  BY <1>1, <1>2, NextRepro, ResultIsMinimal, PTL DEF Spec

\* Every case the search accepts is smaller than the one before it, whatever it
\* started from, so that it ends however the programs answer
\* (fuzz/shrink.rs:440-541).
THEOREM SmallerHolds == Spec => Smaller
<1>1. PassSoFar /\ [Next]_vars =>
        [used' # used /\ next' = 1 /\ pc' = "pass" => Weight(best'.case) < Weight(best.case)]_vars
  <2> SUFFICES ASSUME PassSoFar, [Next]_vars, used' # used, next' = 1, pc' = "pass"
               PROVE  Weight(best'.case) < Weight(best.case)
    OBVIOUS
  <2>1. Accept
    BY DEF PassSoFar, Next, Begin, Refuse, Fail, OutOfBudget, Finish, vars
  <2> QED
    BY <2>1, CandidateIsBetter DEF Accept, Better
<1> QED
  BY <1>1, PassSoFarHolds, PTL DEF Spec, Smaller

-----------------------------------------------------------------------------
(* What becomes of a valid fixture on disk.                                *)

\* Entries are created one after another.
LEMMA CreateSteps ==
  ASSUME NEW S, NEW s \in Seq(S)
  PROVE  \E upTo :
           /\ FoldLeft(Create, EmptyRoot, s) = upTo[Len(s)]
           /\ upTo[0] = EmptyRoot
           /\ \A n \in 1 .. Len(s) : upTo[n] = Create(upTo[n - 1], s[n])
<1> DEFINE table(f, D) == [t \in SUBSET D |->
                             IF t = {} THEN EmptyRoot ELSE Create(f[t \ {Max(t)}], s[Max(t)])]
           fold == CHOOSE f : f = table(f, DOMAIN s)
           holds == {m \in Nat : m <= Len(s) => \E f : f = table(f, 1 .. m)}
<1>1. FoldLeft(Create, EmptyRoot, s) = fold[DOMAIN s]
  BY DEF FoldLeft, MapThenFoldSet
<1>2. Len(s) \in Nat /\ DOMAIN s = 1 .. Len(s)
  OBVIOUS
<1> HIDE DEF fold, table
<1>3. ASSUME NEW m \in Nat, NEW t \in SUBSET (1 .. m + 1), m + 1 \in t PROVE Max(t) = m + 1
  <2>1. \A y \in t : m + 1 >= y
    BY <1>3
  <2>2. \A x \in t : x >= m + 1 => x = m + 1
    BY <1>3
  <2> QED
    BY <2>1, <2>2, <1>3 DEF Max
<1>4. holds \in SUBSET Nat /\ 0 \in holds
  <2> DEFINE f == [t \in SUBSET (1 .. 0) |-> EmptyRoot]
  <2>1. SUBSET (1 .. 0) = {{}}
    OBVIOUS
  <2>2. f = table(f, 1 .. 0)
    BY <2>1 DEF table
  <2> HIDE DEF f
  <2> QED
    BY <2>2
<1>5. ASSUME NEW m \in holds PROVE m + 1 \in holds
  <2> SUFFICES ASSUME m + 1 <= Len(s) PROVE \E f : f = table(f, 1 .. m + 1)
    OBVIOUS
  <2>1. m \in Nat /\ m + 1 \in 1 .. Len(s)
    BY <1>2
  <2>2. PICK g : g = table(g, 1 .. m)
    BY <2>1, <1>2
  <2> DEFINE f == [t \in SUBSET (1 .. m + 1) |->
                     IF m + 1 \in t THEN Create(g[t \ {m + 1}], s[m + 1]) ELSE g[t]]
  <2>3. f = [t \in SUBSET (1 .. m + 1) |-> f[t]]
    OBVIOUS
  <2>4. ASSUME NEW t \in SUBSET (1 .. m + 1)
        PROVE  f[t] = IF t = {} THEN EmptyRoot ELSE Create(f[t \ {Max(t)}], s[Max(t)])
    <3>1. CASE m + 1 \in t
      <4>1. Max(t) = m + 1 /\ t # {}
        BY <1>3, <2>1, <3>1
      <4>2. t \ {m + 1} \in SUBSET (1 .. m + 1) /\ m + 1 \notin t \ {m + 1}
        OBVIOUS
      <4>3. f[t \ {m + 1}] = g[t \ {m + 1}]
        BY <4>2
      <4>4. f[t] = Create(g[t \ {m + 1}], s[m + 1])
        BY <3>1
      <4> QED
        BY <4>1, <4>3, <4>4
    <3>2. CASE m + 1 \notin t
      <4>1. t \in SUBSET (1 .. m)
        BY <2>1, <3>2
      <4>2. t \ {Max(t)} \in SUBSET (1 .. m + 1) /\ m + 1 \notin t \ {Max(t)}
        BY <3>2
      <4>3. f[t] = g[t] /\ f[t \ {Max(t)}] = g[t \ {Max(t)}]
        BY <3>2, <4>2
      <4>4. g[t] = IF t = {} THEN EmptyRoot ELSE Create(g[t \ {Max(t)}], s[Max(t)])
        BY <2>2, <4>1 DEF table
      <4> QED
        BY <4>3, <4>4
    <3> QED
      BY <3>1, <3>2
  <2> HIDE DEF f
  <2>5. f = table(f, 1 .. m + 1)
    BY <2>3, <2>4 DEF table
  <2> QED
    BY <2>5
<1>6. \E f : f = table(f, DOMAIN s)
  <2>1. Len(s) \in holds
    <3> HIDE DEF holds
    <3> QED
      BY <1>2, <1>4, <1>5, Induction
  <2> QED
    BY <1>2, <2>1
<1>7. fold = table(fold, DOMAIN s)
  <2> QED
    BY <1>6 DEF fold
<1> DEFINE upTo == [n \in 0 .. Len(s) |-> fold[1 .. n]]
<1>8. upTo[0] = EmptyRoot
  <2>1. 1 .. 0 = {} /\ {} \in SUBSET DOMAIN s
    OBVIOUS
  <2>2. fold[{}] = EmptyRoot
    BY <1>7, <2>1 DEF table
  <2> QED
    BY <1>2, <2>1, <2>2
<1>9. ASSUME NEW n \in 1 .. Len(s)
      PROVE  upTo[n] = Create(upTo[n - 1], s[n])
  <2>1. n \in Nat /\ n - 1 \in Nat /\ (n - 1) + 1 = n /\ n \in 0 .. Len(s) /\ n - 1 \in 0 .. Len(s)
    BY <1>2
  <2>2. n \in 1 .. n /\ 1 .. n \in SUBSET DOMAIN s
    BY <1>2, <2>1
  <2>3. Max(1 .. n) = n
    BY <1>3, <2>1, <2>2
  <2>4. (1 .. n) \ {n} = 1 .. (n - 1)
    BY <2>1
  <2>5. fold[1 .. n] = Create(fold[(1 .. n) \ {Max(1 .. n)}], s[Max(1 .. n)])
    BY <1>7, <2>2 DEF table
  <2>6. fold[1 .. n] = Create(fold[1 .. (n - 1)], s[n])
    BY <1>2, <2>3, <2>4, <2>5
  <2> QED
    BY <2>1, <2>6
<1>10. FoldLeft(Create, EmptyRoot, s) = upTo[Len(s)]
  BY <1>1, <1>2
<1> QED
  BY <1>8, <1>9, <1>10

\* Where an entry is made.
PathOf(e) == IF e.make = "directory" THEN e.entry ELSE e.entry.path

\* Where the entries of lists are in their concatenation.
LEMMA TwoLists ==
  ASSUME NEW S, NEW a \in Seq(S), NEW b \in Seq(S)
  PROVE  /\ a \o b \in Seq(S) /\ Len(a \o b) = Len(a) + Len(b)
         /\ Len(a) \in Nat /\ Len(b) \in Nat
         /\ \A i \in 1 .. Len(a) : (a \o b)[i] = a[i]
         /\ \A i \in 1 .. Len(b) : (a \o b)[Len(a) + i] = b[i]
<1>1. Len(a) \in Nat /\ Len(b) \in Nat /\ a \o b \in Seq(S) /\ Len(a \o b) = Len(a) + Len(b)
  BY ConcatProperties
<1>2. \A i \in 1 .. Len(a) : (a \o b)[i] = a[i]
  BY ConcatProperties
<1>3. \A i \in 1 .. Len(b) : (a \o b)[Len(a) + i] = b[i]
  BY ConcatProperties
<1> QED
  BY <1>1, <1>2, <1>3

\* The same of four lists.
LEMMA FourLists ==
  ASSUME NEW S, NEW a \in Seq(S), NEW b \in Seq(S), NEW c \in Seq(S), NEW d \in Seq(S),
         NEW all, all = a \o b \o c \o d
  PROVE  /\ all \in Seq(S)
         /\ Len(all) = Len(a) + Len(b) + Len(c) + Len(d)
         /\ \A i \in 1 .. Len(a) : all[i] = a[i]
         /\ \A i \in 1 .. Len(b) : all[Len(a) + i] = b[i]
         /\ \A i \in 1 .. Len(c) : all[Len(a) + Len(b) + i] = c[i]
         /\ \A i \in 1 .. Len(d) : all[Len(a) + Len(b) + Len(c) + i] = d[i]
<1> DEFINE ab == a \o b
           abc == ab \o c
           m == Len(a)
           n == Len(b)
           p == Len(c)
           q == Len(d)
<1>1. /\ ab \in Seq(S) /\ Len(ab) = m + n /\ m \in Nat /\ n \in Nat
      /\ \A i \in 1 .. m : ab[i] = a[i]
      /\ \A i \in 1 .. n : ab[m + i] = b[i]
  BY TwoLists
<1>2. /\ abc \in Seq(S) /\ Len(abc) = Len(ab) + p /\ p \in Nat
      /\ \A i \in 1 .. Len(ab) : abc[i] = ab[i]
      /\ \A i \in 1 .. p : abc[Len(ab) + i] = c[i]
  <2>1. ab \in Seq(S)
    BY <1>1
  <2> HIDE DEF ab
  <2> QED
    BY <2>1, TwoLists
<1>3. all = abc \o d
  BY DEF abc, ab
<1> HIDE DEF abc
<1>4. /\ all \in Seq(S) /\ Len(all) = Len(abc) + q /\ q \in Nat
      /\ \A i \in 1 .. Len(abc) : all[i] = abc[i]
      /\ \A i \in 1 .. q : all[Len(abc) + i] = d[i]
  <2>1. abc \in Seq(S)
    BY <1>2
  <2> QED
    BY <1>3, <2>1, TwoLists
<1> HIDE DEF ab, m, n, p, q
<1>5. /\ Len(abc) = m + n + p /\ Len(all) = m + n + p + q
  BY <1>1, <1>2, <1>4
<1>6. ASSUME NEW i \in 1 .. m PROVE all[i] = a[i]
  <2>1. i \in 1 .. Len(ab) /\ i \in 1 .. Len(abc)
    BY <1>1, <1>2
  <2> QED
    BY <1>1, <1>2, <1>4, <2>1
<1>7. ASSUME NEW i \in 1 .. n PROVE all[m + i] = b[i]
  <2>1. m + i \in 1 .. Len(ab) /\ m + i \in 1 .. Len(abc)
    BY <1>1, <1>2
  <2> QED
    BY <1>1, <1>2, <1>4, <2>1
<1>8. ASSUME NEW i \in 1 .. p PROVE all[m + n + i] = c[i]
  <2>1. m + n + i \in 1 .. Len(abc) /\ m + n + i = Len(ab) + i
    BY <1>1, <1>2
  <2> QED
    BY <1>1, <1>2, <1>4, <2>1
<1>9. ASSUME NEW i \in 1 .. q PROVE all[m + n + p + i] = d[i]
  BY <1>4, <1>5
<1> QED
  BY <1>4, <1>5, <1>6, <1>7, <1>8, <1>9 DEF m, n, p, q

\* Entries that can be made one after another: each in a place of its own, of which
\* none but a directory leads to another, and a hardlink after what it is an alias of.
Orderly(E) ==
  /\ \A k \in 1 .. Len(E) :
       /\ E[k].make \in {"directory", "file", "symlink", "hardlink"}
       /\ PathOf(E[k]) \in Path \ {<<>>}
       /\ E[k].make = "hardlink" =>
            \E j \in 1 .. k - 1 : E[j].make # "directory" /\ PathOf(E[j]) = E[k].entry.source
  /\ \A j, k \in 1 .. Len(E) :
       /\ PathOf(E[j]) = PathOf(E[k]) => j = k
       /\ E[k].make # "directory" => PathOf(E[k]) \notin Above(PathOf(E[j]))

\* The entries of a valid fixture can be made in their order, and are all it declares.
LEMMA EntriesAreOrderly ==
  ASSUME NEW f \in Blueprints, ValidFixture(f)
  PROVE  /\ \E S : Entries(f) \in Seq(S)
         /\ Orderly(Entries(f))
         /\ \A p \in ToSet(f.directories) :
              \E k \in 1 .. Len(Entries(f)) : Entries(f)[k].make = "directory" /\ PathOf(Entries(f)[k]) = p
         /\ \A p \in NonDirectories(f) :
              \E k \in 1 .. Len(Entries(f)) : Entries(f)[k].make # "directory" /\ PathOf(Entries(f)[k]) = p
<1> DEFINE As(make, list) == [i \in DOMAIN list |-> [make |-> make, entry |-> list[i]]]
           D == f.directories
           F0 == f.files
           L0 == f.symlinks
           H0 == f.hardlinks
           E == Entries(f)
           X == Destinations(f)
           a == Len(D)
           b == Len(F0)
           c == Len(L0)
           d == Len(H0)
           S == {[make |-> "directory", entry |-> p] : p \in Path}
                  \cup {[make |-> "file", entry |-> e] : e \in Files}
                  \cup {[make |-> "symlink", entry |-> e] : e \in SymlinkEntries}
                  \cup {[make |-> "hardlink", entry |-> e] : e \in HardlinkEntries}
<1>1. /\ D \in Seq(Path) /\ F0 \in Seq(Files) /\ L0 \in Seq(SymlinkEntries) /\ H0 \in Seq(HardlinkEntries)
      /\ a \in Nat /\ b \in Nat /\ c \in Nat /\ d \in Nat
  BY BlueprintsAreLists
<1>2. /\ DOMAIN D = 1 .. a /\ DOMAIN F0 = 1 .. b /\ DOMAIN L0 = 1 .. c /\ DOMAIN H0 = 1 .. d
      /\ \A i \in 1 .. a : D[i] \in Path
      /\ \A i \in 1 .. b : F0[i] \in Files /\ F0[i].path \in Path
      /\ \A i \in 1 .. c : L0[i] \in SymlinkEntries /\ L0[i].path \in Path
      /\ \A i \in 1 .. d : H0[i] \in HardlinkEntries /\ H0[i].path \in Path
  <2>1. \A i \in 1 .. a : D[i] \in Path
    BY <1>1
  <2>2. \A i \in 1 .. b : F0[i] \in Files
    BY <1>1
  <2>3. \A i \in 1 .. c : L0[i] \in SymlinkEntries
    BY <1>1
  <2>4. \A i \in 1 .. d : H0[i] \in HardlinkEntries
    BY <1>1
  <2>5. /\ \A r \in Files : r.path \in Path
        /\ \A r \in SymlinkEntries : r.path \in Path
        /\ \A r \in HardlinkEntries : r.path \in Path
    BY DEF Files, SymlinkEntries, HardlinkEntries
  <2>6. DOMAIN D = 1 .. a /\ DOMAIN F0 = 1 .. b /\ DOMAIN L0 = 1 .. c /\ DOMAIN H0 = 1 .. d
    BY <1>1
  <2> HIDE DEF a, b, c, d
  <2> QED
    BY <2>1, <2>2, <2>3, <2>4, <2>5, <2>6
<1>3. E = As("directory", D) \o As("file", F0) \o As("symlink", L0) \o As("hardlink", H0)
  BY DEF Entries
<1>4. X = D \o Pluck(F0) \o Pluck(L0) \o Pluck(H0) /\ NonDirectories(f) = ToSet(Pluck(F0)) \cup ToSet(Pluck(L0)) \cup ToSet(Pluck(H0))
  BY BlueprintsAreLists, DestinationsAre DEF Destinations
<1> HIDE DEF D, F0, L0, H0, E, X
<1>5. /\ As("directory", D) \in Seq(S) /\ Len(As("directory", D)) = a
      /\ \A i \in 1 .. a : As("directory", D)[i] = [make |-> "directory", entry |-> D[i]]
  <2>1. \A i \in 1 .. a : [make |-> "directory", entry |-> D[i]] \in S
    BY <1>2
  <2> HIDE DEF S
  <2> QED
    BY <1>1, <1>2, <2>1
<1>6. /\ As("file", F0) \in Seq(S) /\ Len(As("file", F0)) = b
      /\ \A i \in 1 .. b : As("file", F0)[i] = [make |-> "file", entry |-> F0[i]]
  <2>1. \A i \in 1 .. b : [make |-> "file", entry |-> F0[i]] \in S
    BY <1>2
  <2> HIDE DEF S
  <2> QED
    BY <1>1, <1>2, <2>1
<1>7. /\ As("symlink", L0) \in Seq(S) /\ Len(As("symlink", L0)) = c
      /\ \A i \in 1 .. c : As("symlink", L0)[i] = [make |-> "symlink", entry |-> L0[i]]
  <2>1. \A i \in 1 .. c : [make |-> "symlink", entry |-> L0[i]] \in S
    BY <1>2
  <2> HIDE DEF S
  <2> QED
    BY <1>1, <1>2, <2>1
<1>8. /\ As("hardlink", H0) \in Seq(S) /\ Len(As("hardlink", H0)) = d
      /\ \A i \in 1 .. d : As("hardlink", H0)[i] = [make |-> "hardlink", entry |-> H0[i]]
  <2>1. \A i \in 1 .. d : [make |-> "hardlink", entry |-> H0[i]] \in S
    BY <1>2
  <2> HIDE DEF S
  <2> QED
    BY <1>1, <1>2, <2>1
<1> HIDE DEF S
<1>9. /\ E \in Seq(S) /\ Len(E) = a + b + c + d
      /\ \A i \in 1 .. a : E[i] = [make |-> "directory", entry |-> D[i]]
      /\ \A i \in 1 .. b : E[a + i] = [make |-> "file", entry |-> F0[i]]
      /\ \A i \in 1 .. c : E[a + b + i] = [make |-> "symlink", entry |-> L0[i]]
      /\ \A i \in 1 .. d : E[a + b + c + i] = [make |-> "hardlink", entry |-> H0[i]]
  <2> DEFINE s1 == As("directory", D)
             s2 == As("file", F0)
             s3 == As("symlink", L0)
             s4 == As("hardlink", H0)
  <2> HIDE DEF s1, s2, s3, s4
  <2>1. /\ s1 \in Seq(S) /\ s2 \in Seq(S) /\ s3 \in Seq(S) /\ s4 \in Seq(S)
        /\ Len(s1) = a /\ Len(s2) = b /\ Len(s3) = c /\ Len(s4) = d
    BY <1>5, <1>6, <1>7, <1>8 DEF s1, s2, s3, s4
  <2>2. E = s1 \o s2 \o s3 \o s4
    BY <1>3 DEF s1, s2, s3, s4
  <2>3. /\ E \in Seq(S) /\ Len(E) = Len(s1) + Len(s2) + Len(s3) + Len(s4)
        /\ \A i \in 1 .. Len(s1) : E[i] = s1[i]
        /\ \A i \in 1 .. Len(s2) : E[Len(s1) + i] = s2[i]
        /\ \A i \in 1 .. Len(s3) : E[Len(s1) + Len(s2) + i] = s3[i]
        /\ \A i \in 1 .. Len(s4) : E[Len(s1) + Len(s2) + Len(s3) + i] = s4[i]
    <3>1. s1 \in Seq(S) /\ s2 \in Seq(S) /\ s3 \in Seq(S) /\ s4 \in Seq(S)
      BY <2>1
    <3> QED
      BY <2>2, <3>1, FourLists
  <2> HIDE DEF a, b, c, d
  <2>4. /\ Len(E) = a + b + c + d
        /\ \A i \in 1 .. a : E[i] = s1[i]
        /\ \A i \in 1 .. b : E[a + i] = s2[i]
        /\ \A i \in 1 .. c : E[a + b + i] = s3[i]
        /\ \A i \in 1 .. d : E[a + b + c + i] = s4[i]
    BY <2>1, <2>3
  <2>5. \A i \in 1 .. a : s1[i] = [make |-> "directory", entry |-> D[i]]
    BY <1>5 DEF s1
  <2>6. \A i \in 1 .. b : s2[i] = [make |-> "file", entry |-> F0[i]]
    BY <1>6 DEF s2
  <2>7. \A i \in 1 .. c : s3[i] = [make |-> "symlink", entry |-> L0[i]]
    BY <1>7 DEF s3
  <2>8. \A i \in 1 .. d : s4[i] = [make |-> "hardlink", entry |-> H0[i]]
    BY <1>8 DEF s4
  <2> QED
    BY <2>3, <2>4, <2>5, <2>6, <2>7, <2>8
<1> HIDE DEF As
<1>10. /\ Pluck(F0) \in Seq(Path) /\ Len(Pluck(F0)) = b /\ \A i \in 1 .. b : Pluck(F0)[i] = F0[i].path
       /\ Pluck(L0) \in Seq(Path) /\ Len(Pluck(L0)) = c /\ \A i \in 1 .. c : Pluck(L0)[i] = L0[i].path
       /\ Pluck(H0) \in Seq(Path) /\ Len(Pluck(H0)) = d /\ \A i \in 1 .. d : Pluck(H0)[i] = H0[i].path
  <2>1. /\ \A r \in Files : r.path \in Path
        /\ \A r \in SymlinkEntries : r.path \in Path
        /\ \A r \in HardlinkEntries : r.path \in Path
    BY DEF Files, SymlinkEntries, HardlinkEntries
  <2>2. Pluck(F0) \in Seq(Path) /\ Len(Pluck(F0)) = b /\ \A i \in 1 .. b : Pluck(F0)[i] = F0[i].path
    <3>1. F0 \in Seq(Files) /\ \A r \in Files : r.path \in Path
      BY <1>1, <2>1
    <3> QED
      BY <3>1, PluckIs, ZenonT(40)
  <2>3. Pluck(L0) \in Seq(Path) /\ Len(Pluck(L0)) = c /\ \A i \in 1 .. c : Pluck(L0)[i] = L0[i].path
    <3>1. L0 \in Seq(SymlinkEntries) /\ \A r \in SymlinkEntries : r.path \in Path
      BY <1>1, <2>1
    <3> QED
      BY <3>1, PluckIs, ZenonT(40)
  <2>4. Pluck(H0) \in Seq(Path) /\ Len(Pluck(H0)) = d /\ \A i \in 1 .. d : Pluck(H0)[i] = H0[i].path
    <3>1. H0 \in Seq(HardlinkEntries) /\ \A r \in HardlinkEntries : r.path \in Path
      BY <1>1, <2>1
    <3> QED
      BY <3>1, PluckIs, ZenonT(40)
  <2> QED
    BY <2>2, <2>3, <2>4
<1>11. /\ X \in Seq(Path) /\ Len(X) = a + b + c + d
       /\ \A i \in 1 .. a : X[i] = D[i]
       /\ \A i \in 1 .. b : X[a + i] = F0[i].path
       /\ \A i \in 1 .. c : X[a + b + i] = L0[i].path
       /\ \A i \in 1 .. d : X[a + b + c + i] = H0[i].path
  <2> DEFINE x1 == Pluck(F0)
             x2 == Pluck(L0)
             x3 == Pluck(H0)
  <2>1. D \in Seq(Path) /\ x1 \in Seq(Path) /\ x2 \in Seq(Path) /\ x3 \in Seq(Path)
    BY <1>1, <1>10
  <2>2. Len(D) = a /\ Len(x1) = b /\ Len(x2) = c /\ Len(x3) = d
    BY <1>10
  <2>3. X = D \o x1 \o x2 \o x3
    BY <1>4
  <2>4. /\ \A i \in 1 .. b : x1[i] = F0[i].path
        /\ \A i \in 1 .. c : x2[i] = L0[i].path
        /\ \A i \in 1 .. d : x3[i] = H0[i].path
    BY <1>10
  <2> HIDE DEF x1, x2, x3
  <2>5. /\ X \in Seq(Path)
        /\ Len(X) = Len(D) + Len(x1) + Len(x2) + Len(x3)
        /\ \A i \in 1 .. Len(D) : X[i] = D[i]
        /\ \A i \in 1 .. Len(x1) : X[Len(D) + i] = x1[i]
        /\ \A i \in 1 .. Len(x2) : X[Len(D) + Len(x1) + i] = x2[i]
        /\ \A i \in 1 .. Len(x3) : X[Len(D) + Len(x1) + Len(x2) + i] = x3[i]
    BY <2>1, <2>3, FourLists
  <2> HIDE DEF a, b, c, d
  <2>6. /\ Len(X) = a + b + c + d
        /\ \A i \in 1 .. a : X[i] = D[i]
        /\ \A i \in 1 .. b : X[a + i] = x1[i]
        /\ \A i \in 1 .. c : X[a + b + i] = x2[i]
        /\ \A i \in 1 .. d : X[a + b + c + i] = x3[i]
    BY <2>2, <2>5
  <2> QED
    BY <2>4, <2>5, <2>6
<1> DEFINE OfDirectory(k) == \E i \in 1 .. a : E[k] = [make |-> "directory", entry |-> D[i]] /\ X[k] = D[i] /\ k = i
           OfFile(k) == \E i \in 1 .. b : E[k] = [make |-> "file", entry |-> F0[i]] /\ X[k] = F0[i].path /\ k = a + i
           OfSymlink(k) == \E i \in 1 .. c : E[k] = [make |-> "symlink", entry |-> L0[i]] /\ X[k] = L0[i].path /\ k = a + b + i
           OfHardlink(k) == \E i \in 1 .. d : E[k] = [make |-> "hardlink", entry |-> H0[i]] /\ X[k] = H0[i].path /\ k = a + b + c + i
<1> HIDE DEF a, b, c, d
<1>12. Len(E) = a + b + c + d /\ Len(E) = Len(X) /\ DOMAIN X = 1 .. Len(E)
  BY <1>9, <1>11
<1>13. /\ \A i \in 1 .. a : i \in 1 .. Len(E) /\ OfDirectory(i)
       /\ \A i \in 1 .. b : a + i \in 1 .. Len(E) /\ OfFile(a + i)
       /\ \A i \in 1 .. c : a + b + i \in 1 .. Len(E) /\ OfSymlink(a + b + i)
       /\ \A i \in 1 .. d : a + b + c + i \in 1 .. Len(E) /\ OfHardlink(a + b + c + i)
  <2>1. /\ \A i \in 1 .. a : i \in 1 .. Len(E)
        /\ \A i \in 1 .. b : a + i \in 1 .. Len(E)
        /\ \A i \in 1 .. c : a + b + i \in 1 .. Len(E)
        /\ \A i \in 1 .. d : a + b + c + i \in 1 .. Len(E)
    BY <1>1, <1>12
  <2>2. /\ \A i \in 1 .. a : OfDirectory(i)
        /\ \A i \in 1 .. b : OfFile(a + i)
        /\ \A i \in 1 .. c : OfSymlink(a + b + i)
        /\ \A i \in 1 .. d : OfHardlink(a + b + c + i)
    BY <1>9, <1>11
  <2> QED
    BY <2>1, <2>2
<1>14. ASSUME NEW k \in 1 .. Len(E) PROVE OfDirectory(k) \/ OfFile(k) \/ OfSymlink(k) \/ OfHardlink(k)
  <2>1. \/ k \in 1 .. a
        \/ k - a \in 1 .. b /\ a + (k - a) = k
        \/ k - (a + b) \in 1 .. c /\ a + b + (k - (a + b)) = k
        \/ k - (a + b + c) \in 1 .. d /\ a + b + c + (k - (a + b + c)) = k
    BY <1>1, <1>12
  <2> HIDE DEF OfDirectory, OfFile, OfSymlink, OfHardlink
  <2> QED
    BY <1>13, <2>1
<1> HIDE DEF OfDirectory, OfFile, OfSymlink, OfHardlink
<1>15. ASSUME NEW k \in 1 .. Len(E)
       PROVE  /\ PathOf(E[k]) = X[k] /\ X[k] \in ToSet(X) /\ X[k] \in Path
              /\ E[k].make \in {"directory", "file", "symlink", "hardlink"}
              /\ E[k].make # "directory" => X[k] \in NonDirectories(f)
              /\ E[k].make = "hardlink" => OfHardlink(k)
  <2>1. X[k] \in ToSet(X) /\ X[k] \in Path
    BY <1>11, <1>12 DEF ToSet
  <2>2. CASE OfDirectory(k)
    <3>1. PICK i \in 1 .. a : E[k] = [make |-> "directory", entry |-> D[i]] /\ X[k] = D[i]
      BY <2>2 DEF OfDirectory
    <3> QED
      BY <2>1, <3>1 DEF PathOf
  <2>3. CASE OfFile(k)
    <3>1. PICK i \in 1 .. b : E[k] = [make |-> "file", entry |-> F0[i]] /\ X[k] = F0[i].path
      BY <2>3 DEF OfFile
    <3>2. X[k] \in ToSet(Pluck(F0))
      BY <1>2, <1>10, <3>1 DEF ToSet, Pluck
    <3> QED
      BY <1>4, <2>1, <3>1, <3>2 DEF PathOf
  <2>4. CASE OfSymlink(k)
    <3>1. PICK i \in 1 .. c : E[k] = [make |-> "symlink", entry |-> L0[i]] /\ X[k] = L0[i].path
      BY <2>4 DEF OfSymlink
    <3>2. X[k] \in ToSet(Pluck(L0))
      BY <1>2, <1>10, <3>1 DEF ToSet, Pluck
    <3> QED
      BY <1>4, <2>1, <3>1, <3>2 DEF PathOf
  <2>5. CASE OfHardlink(k)
    <3>1. PICK i \in 1 .. d : E[k] = [make |-> "hardlink", entry |-> H0[i]] /\ X[k] = H0[i].path
      BY <2>5 DEF OfHardlink
    <3>2. X[k] \in ToSet(Pluck(H0))
      BY <1>2, <1>10, <3>1 DEF ToSet, Pluck
    <3> QED
      BY <1>4, <2>1, <2>5, <3>1, <3>2 DEF PathOf
  <2> QED
    BY <1>14, <2>2, <2>3, <2>4, <2>5
<1>16. ASSUME NEW k \in 1 .. Len(E), E[k].make = "hardlink"
       PROVE  \E j \in 1 .. k - 1 : E[j].make # "directory" /\ PathOf(E[j]) = E[k].entry.source
  <2>1. PICK i \in 1 .. d : E[k] = [make |-> "hardlink", entry |-> H0[i]] /\ k = a + b + c + i
    BY <1>15, <1>16 DEF OfHardlink
  <2>2. E[k].entry = H0[i]
    BY <2>1
  <2>3. H0[i] \in ToSet(f.hardlinks)
    BY <1>2, <2>1 DEF ToSet, H0
  <2>4. H0[i].source \in ToSet(Pluck(F0)) \cup ToSet(Pluck(L0))
    BY <2>3, SourcesOf DEF F0, L0
  <2>5. CASE H0[i].source \in ToSet(Pluck(F0))
    <3>1. PICK j \in 1 .. b : H0[i].source = F0[j].path
      BY <1>2, <2>5 DEF ToSet, Pluck
    <3>2. a + j \in 1 .. k - 1
      BY <1>1, <2>1
    <3>3. OfFile(a + j)
      BY <1>13
    <3>4. PICK l \in 1 .. b : E[a + j] = [make |-> "file", entry |-> F0[l]] /\ a + j = a + l
      BY <3>3 DEF OfFile
    <3>5. l = j
      BY <1>1, <3>4
    <3>6. E[a + j].make = "file" /\ E[a + j].entry = F0[j]
      BY <3>4, <3>5
    <3> QED
      BY <2>2, <3>1, <3>2, <3>6 DEF PathOf
  <2>6. CASE H0[i].source \in ToSet(Pluck(L0))
    <3>1. PICK j \in 1 .. c : H0[i].source = L0[j].path
      BY <1>2, <2>6 DEF ToSet, Pluck
    <3>2. a + b + j \in 1 .. k - 1
      BY <1>1, <2>1
    <3>3. OfSymlink(a + b + j)
      BY <1>13
    <3>4. PICK l \in 1 .. c : E[a + b + j] = [make |-> "symlink", entry |-> L0[l]] /\ a + b + j = a + b + l
      BY <3>3 DEF OfSymlink
    <3>5. l = j
      BY <1>1, <3>4
    <3>6. E[a + b + j].make = "symlink" /\ E[a + b + j].entry = L0[j]
      BY <3>4, <3>5
    <3> QED
      BY <2>2, <3>1, <3>2, <3>6 DEF PathOf
  <2> QED
    BY <2>4, <2>5, <2>6
<1>17. /\ \A x \in ToSet(X) : x # <<>> /\ Above(x) \cap NonDirectories(f) = {}
       /\ \A j, k \in 1 .. Len(E) : X[j] = X[k] => j = k
  BY <1>12 DEF ValidFixture, IsInjective, X
<1>18. Orderly(E)
  <2>1. \A k \in 1 .. Len(E) :
          /\ E[k].make \in {"directory", "file", "symlink", "hardlink"}
          /\ PathOf(E[k]) \in Path \ {<<>>}
    BY <1>15, <1>17
  <2>2. ASSUME NEW j \in 1 .. Len(E), NEW k \in 1 .. Len(E)
        PROVE  /\ PathOf(E[j]) = PathOf(E[k]) => j = k
               /\ E[k].make # "directory" => PathOf(E[k]) \notin Above(PathOf(E[j]))
    BY <1>15, <1>17
  <2> QED
    BY <1>16, <2>1, <2>2 DEF Orderly
<1>19. ASSUME NEW p \in ToSet(D) PROVE \E k \in 1 .. Len(E) : E[k].make = "directory" /\ PathOf(E[k]) = p
  <2>1. PICK k \in 1 .. a : p = D[k]
    BY <1>2 DEF ToSet
  <2>2. k \in 1 .. Len(E) /\ OfDirectory(k)
    BY <1>13
  <2>3. E[k].make = "directory" /\ E[k].entry = p
    BY <2>1, <2>2 DEF OfDirectory
  <2> QED
    BY <2>2, <2>3 DEF PathOf
<1>20. ASSUME NEW p \in NonDirectories(f)
       PROVE  \E k \in 1 .. Len(E) : E[k].make # "directory" /\ PathOf(E[k]) = p
  <2>1. CASE p \in ToSet(Pluck(F0))
    <3>1. PICK i \in 1 .. b : p = F0[i].path
      BY <1>2, <2>1 DEF ToSet, Pluck
    <3>2. a + i \in 1 .. Len(E) /\ E[a + i] = [make |-> "file", entry |-> F0[i]]
      BY <1>9, <1>13
    <3> QED
      BY <3>1, <3>2 DEF PathOf
  <2>2. CASE p \in ToSet(Pluck(L0))
    <3>1. PICK i \in 1 .. c : p = L0[i].path
      BY <1>2, <2>2 DEF ToSet, Pluck
    <3>2. a + b + i \in 1 .. Len(E) /\ E[a + b + i] = [make |-> "symlink", entry |-> L0[i]]
      BY <1>9, <1>13
    <3> QED
      BY <3>1, <3>2 DEF PathOf
  <2>3. CASE p \in ToSet(Pluck(H0))
    <3>1. PICK i \in 1 .. d : p = H0[i].path
      BY <1>2, <2>3 DEF ToSet, Pluck
    <3>2. a + b + c + i \in 1 .. Len(E) /\ E[a + b + c + i] = [make |-> "hardlink", entry |-> H0[i]]
      BY <1>9, <1>13
    <3> QED
      BY <3>1, <3>2 DEF PathOf
  <2> QED
    BY <1>4, <2>1, <2>2, <2>3
<1> QED
  BY <1>9, <1>18, <1>19, <1>20 DEF D, E

\* The first part of a path.
LEMMA UpTo ==
  ASSUME NEW S, NEW p \in Seq(S), NEW n \in 0 .. Len(p)
  PROVE  SubSeq(p, 1, n) \in Seq(S) /\ Len(SubSeq(p, 1, n)) = n /\ \A i \in 1 .. n : SubSeq(p, 1, n)[i] = p[i]
<1>1. 1 \in Int /\ n \in Int /\ n - 1 + 1 = n /\ Len(p) \in Nat
  OBVIOUS
<1>2. \A i \in 1 .. n : p[i] \in S
  OBVIOUS
<1>3. /\ SubSeq(p, 1, n) \in Seq(S)
      /\ Len(SubSeq(p, 1, n)) = IF 1 <= n THEN n - 1 + 1 ELSE 0
      /\ \A i \in 1 .. n - 1 + 1 : SubSeq(p, 1, n)[i] = p[1 + i - 1]
  BY <1>1, <1>2, SubSeqProperties
<1> QED
  BY <1>1, <1>3

\* What is above a path: its parent, and what is above that.
LEMMA AboveIs ==
  ASSUME NEW p \in Path, p # <<>>
  PROVE  /\ Above(p) = Above(Front(p)) \cup {Front(p)}
         /\ p \notin Above(p)
<1> DEFINE q == Front(p)
           n == Len(p)
<1>1. /\ q \in Seq(STRING) /\ Len(q) = n - 1 /\ n \in Nat \ {0} /\ p \in Seq(STRING)
      /\ \A i \in 1 .. n - 1 : q[i] = p[i]
  BY FrontIs DEF Path
<1>2. q = SubSeq(p, 1, n - 1)
  BY DEF Front
<1> HIDE DEF n, q
<1>3. ASSUME NEW m \in 0 .. n - 1 PROVE SubSeq(q, 1, m) = SubSeq(p, 1, m)
  <2>1. /\ SubSeq(q, 1, m) \in Seq(STRING) /\ Len(SubSeq(q, 1, m)) = m
        /\ \A i \in 1 .. m : SubSeq(q, 1, m)[i] = q[i]
    <3>1. m \in 0 .. Len(q)
      BY <1>1
    <3> QED
      BY <1>1, <3>1, UpTo
  <2>2. /\ SubSeq(p, 1, m) \in Seq(STRING) /\ Len(SubSeq(p, 1, m)) = m
        /\ \A i \in 1 .. m : SubSeq(p, 1, m)[i] = p[i]
    <3>1. m \in 0 .. Len(p)
      BY <1>1 DEF n
    <3> QED
      BY <1>1, <3>1, UpTo
  <2>3. \A i \in 1 .. m : SubSeq(q, 1, m)[i] = SubSeq(p, 1, m)[i]
    BY <1>1, <2>1, <2>2
  <2> QED
    BY <2>1, <2>2, <2>3, SeqEqual
<1>4. Above(p) = {SubSeq(p, 1, m) : m \in 0 .. n - 1}
  BY DEF Above, n
<1>5. Above(q) = {SubSeq(q, 1, m) : m \in 0 .. n - 2}
  <2>1. Len(q) - 1 = n - 2
    BY <1>1
  <2> QED
    BY <2>1 DEF Above
<1>6. 0 .. n - 1 = (0 .. n - 2) \cup {n - 1} /\ 0 .. n - 2 \subseteq 0 .. n - 1
  BY <1>1
<1>7. Above(p) = Above(q) \cup {q}
  <2>1. Above(q) = {SubSeq(p, 1, m) : m \in 0 .. n - 2}
    BY <1>3, <1>5, <1>6
  <2> QED
    BY <1>2, <1>4, <1>6, <2>1
<1>8. p \notin Above(p)
  <2>1. ASSUME NEW m \in 0 .. n - 1 PROVE SubSeq(p, 1, m) # p
    <3>1. m \in 0 .. Len(p) /\ m # Len(p)
      BY <1>1 DEF n
    <3>2. Len(SubSeq(p, 1, m)) = m
      BY <1>1, <3>1, UpTo
    <3> QED
      BY <3>1, <3>2
  <2> QED
    BY <1>4, <2>1
<1> QED
  BY <1>7, <1>8 DEF q

\* A tree that holds the first n entries, each as what it is, and whatever leads there.
Made(T, E, n) ==
  /\ <<>> \in DOMAIN T /\ T[<<>>] = "directory"
  /\ \A p \in DOMAIN T : p = <<>> \/ \E k \in 1 .. n : p = PathOf(E[k]) \/ p \in Above(PathOf(E[k]))
  /\ \A p \in DOMAIN T : T[p] # "directory" => \E k \in 1 .. n : p = PathOf(E[k]) /\ E[k].make # "directory"
  /\ \A k \in 1 .. n :
       PathOf(E[k]) \in DOMAIN T /\ (T[PathOf(E[k])] = "directory" <=> E[k].make = "directory")

\* Nothing is in the way of the next entry.
LEMMA NothingInTheWay ==
  ASSUME NEW E, Orderly(E), NEW n \in Nat, n + 1 \in 1 .. Len(E), NEW T, Made(T, E, n)
  PROVE  LET p == PathOf(E[n + 1]) IN
         /\ p \in Path \ {<<>>}
         /\ \A q \in Above(p) : q \in DOMAIN T => T[q] = "directory"
         /\ p \in DOMAIN T => E[n + 1].make = "directory" /\ T[p] = "directory"
<1> DEFINE p == PathOf(E[n + 1])
<1>0. 1 .. n \subseteq 1 .. Len(E) /\ n + 1 \notin 1 .. n
  OBVIOUS
<1>1. p \in Path \ {<<>>}
  BY DEF Orderly
<1>2. ASSUME NEW q \in Above(p), q \in DOMAIN T PROVE T[q] = "directory"
  <2> SUFFICES ASSUME NEW k \in 1 .. n, q = PathOf(E[k]), E[k].make # "directory" PROVE FALSE
    BY <1>2 DEF Made
  <2> QED
    BY <1>0 DEF Orderly
<1>3. ASSUME p \in DOMAIN T PROVE E[n + 1].make = "directory" /\ T[p] = "directory"
  <2>1. \A k \in 1 .. n : p # PathOf(E[k])
    BY <1>0 DEF Orderly
  <2>2. PICK k \in 1 .. n : p \in Above(PathOf(E[k]))
    BY <1>1, <1>3, <2>1 DEF Made
  <2>3. E[n + 1].make = "directory"
    BY <1>0, <2>2 DEF Orderly
  <2> QED
    BY <1>3, <2>1, <2>3 DEF Made
<1> QED
  BY <1>1, <1>2, <1>3

\* The next entry is made, and what was there stays as it was.
LEMMA CreateKeepsMade ==
  ASSUME NEW E, Orderly(E), NEW n \in Nat, n + 1 \in 1 .. Len(E), NEW T, Made(T, E, n)
  PROVE  Made(Create(T, E[n + 1]), E, n + 1)
<1> DEFINE e == E[n + 1]
           p == PathOf(e)
           U == Create(T, e)
<1>0. 1 .. n + 1 = 1 .. n \cup {n + 1} /\ n + 1 \notin 1 .. n
  OBVIOUS
<1>1. /\ p \in Path \ {<<>>}
      /\ \A q \in Above(p) : q \in DOMAIN T => T[q] = "directory"
      /\ p \in DOMAIN T => e.make = "directory" /\ T[p] = "directory"
  BY NothingInTheWay
<1>2. e.make \in {"directory", "file", "symlink", "hardlink"}
  BY DEF Orderly
<1>3. Above(p) = Above(Front(p)) \cup {Front(p)} /\ p \notin Above(p)
  BY <1>1, AboveIs
<1>4. T # Broken /\ <<>> \in DOMAIN T
  BY DEF Made, Broken
<1>5. \/ e.make = "directory" /\ U = Grown(T, Above(p) \cup {p}, "directory")
      \/ /\ e.make # "directory"
         /\ \E form : form # "directory" /\ U = Grown(Grown(T, Above(p), "directory"), {p}, form)
  <2>1. CASE e.make = "directory"
    <3>1. U = CreateDirs(T, p) /\ p = e.entry
      BY <2>1 DEF Create, PathOf
    <3>2. ~ \E q \in Above(p) \cup {p} : q \in DOMAIN T /\ T[q] # "directory"
      BY <1>1
    <3>3. CreateDirs(T, p) = Grown(T, Above(p) \cup {p}, "directory")
      BY <1>4, <3>2 DEF CreateDirs
    <3> QED
      BY <2>1, <3>1, <3>3
  <2>2. ASSUME NEW form, e.make # "directory"
        PROVE  CreateEntry(T, p, form) = Grown(Grown(T, Above(p), "directory"), {p}, form)
    <3> DEFINE parents == Grown(T, Above(p), "directory")
    <3>1. ~ \E q \in Above(Front(p)) \cup {Front(p)} : q \in DOMAIN T /\ T[q] # "directory"
      BY <1>1, <1>3
    <3>2. CreateDirs(T, Front(p)) = parents
      BY <1>3, <1>4, <3>1 DEF CreateDirs
    <3>3. DOMAIN parents = DOMAIN T \cup Above(p)
      BY DEF Grown
    <3> HIDE DEF parents
    <3>4. parents # Broken /\ p \notin DOMAIN parents
      <4>1. p \notin DOMAIN parents
        BY <1>1, <1>3, <2>2, <3>3
      <4>2. <<>> \in DOMAIN parents
        BY <1>4, <3>3
      <4> QED
        BY <4>1, <4>2 DEF Broken
    <3> QED
      BY <3>2, <3>4 DEF CreateEntry, parents
  <2>3. CASE e.make \in {"file", "symlink"}
    <3>1. U = CreateEntry(T, p, e.make)
      BY <2>3 DEF Create, PathOf
    <3> QED
      BY <2>2, <2>3, <3>1
  <2>4. CASE e.make = "hardlink"
    <3>1. p = e.entry.path /\ U = CreateHardlink(T, e.entry)
      BY <2>4 DEF Create, PathOf
    <3>2. PICK j \in 1 .. n : E[j].make # "directory" /\ PathOf(E[j]) = e.entry.source
      <4>1. (n + 1) - 1 = n
        OBVIOUS
      <4> QED
        BY <2>4, <4>1 DEF Orderly
    <3>3. e.entry.source \in DOMAIN T /\ T[e.entry.source] # "directory"
      BY <3>2 DEF Made
    <3>4. U = CreateEntry(T, p, T[e.entry.source])
      BY <3>1, <3>3 DEF CreateHardlink
    <3> QED
      BY <2>2, <2>4, <3>3, <3>4
  <2> QED
    BY <1>2, <2>1, <2>3, <2>4
<1> HIDE DEF U, p
<1>6. /\ DOMAIN U = DOMAIN T \cup Above(p) \cup {p}
      /\ \A q \in DOMAIN T : U[q] = T[q]
      /\ \A q \in Above(p) \ DOMAIN T : U[q] = "directory"
      /\ U[p] = "directory" <=> e.make = "directory"
  <2>1. CASE e.make = "directory" /\ U = Grown(T, Above(p) \cup {p}, "directory")
    <3> DEFINE wanted == Above(p) \cup {p}
    <3>1. U = Grown(T, wanted, "directory")
      BY <2>1
    <3> HIDE DEF wanted
    <3>2. /\ DOMAIN U = DOMAIN T \cup wanted
          /\ \A q \in DOMAIN T : U[q] = T[q]
          /\ \A q \in wanted \ DOMAIN T : U[q] = "directory"
      BY <3>1 DEF Grown
    <3> QED
      BY <1>1, <2>1, <3>2 DEF wanted
  <2>2. ASSUME NEW form, e.make # "directory", form # "directory",
               U = Grown(Grown(T, Above(p), "directory"), {p}, form)
        PROVE  /\ DOMAIN U = DOMAIN T \cup Above(p) \cup {p}
               /\ \A q \in DOMAIN T : U[q] = T[q]
               /\ \A q \in Above(p) \ DOMAIN T : U[q] = "directory"
               /\ U[p] = "directory" <=> e.make = "directory"
    <3> DEFINE parents == Grown(T, Above(p), "directory")
    <3>1. /\ DOMAIN parents = DOMAIN T \cup Above(p)
          /\ \A q \in DOMAIN T : parents[q] = T[q]
          /\ \A q \in Above(p) \ DOMAIN T : parents[q] = "directory"
      BY DEF Grown
    <3>0. U = Grown(parents, {p}, form)
      BY <2>2
    <3> HIDE DEF parents
    <3>2. /\ DOMAIN U = DOMAIN parents \cup {p}
          /\ \A q \in DOMAIN parents : U[q] = parents[q]
          /\ \A q \in {p} \ DOMAIN parents : U[q] = form
      BY <2>2, <3>0 DEF Grown
    <3>3. p \notin DOMAIN parents
      BY <1>1, <1>3, <2>2, <3>1
    <3> QED
      BY <2>2, <3>1, <3>2, <3>3
  <2> QED
    BY <1>5, <2>1, <2>2
<1>7. <<>> \in DOMAIN U /\ U[<<>>] = "directory"
  BY <1>6 DEF Made
<1>8. ASSUME NEW q \in DOMAIN U
      PROVE  q = <<>> \/ \E k \in 1 .. n + 1 : q = PathOf(E[k]) \/ q \in Above(PathOf(E[k]))
  BY <1>0, <1>6 DEF Made, p
<1>9. ASSUME NEW q \in DOMAIN U, U[q] # "directory"
      PROVE  \E k \in 1 .. n + 1 : q = PathOf(E[k]) /\ E[k].make # "directory"
  <2>1. CASE q \in DOMAIN T
    BY <1>0, <1>6, <1>9, <2>1 DEF Made
  <2>2. CASE q \notin DOMAIN T
    <3>1. q = p /\ e.make # "directory"
      BY <1>6, <1>9, <2>2
    <3> QED
      BY <1>0, <3>1 DEF p
  <2> QED
    BY <2>1, <2>2
<1>10. ASSUME NEW k \in 1 .. n + 1
       PROVE  PathOf(E[k]) \in DOMAIN U /\ (U[PathOf(E[k])] = "directory" <=> E[k].make = "directory")
  <2>1. CASE k \in 1 .. n
    BY <1>6, <2>1 DEF Made
  <2>2. CASE k = n + 1
    BY <1>6, <2>2 DEF p
  <2> QED
    BY <1>0, <2>1, <2>2
<1> QED
  BY <1>7, <1>8, <1>9, <1>10 DEF Made, U

\* Every entry of a fixture that validate_fixture accepts can be made, and is there
\* as what it is.
LEMMA ValidIsMade ==
  ASSUME NEW f \in Blueprints, ValidFixture(f)
  PROVE  Made(Materialised(f), Entries(f), Len(Entries(f)))
<1> DEFINE E == Entries(f)
<1>1. PICK S : E \in Seq(S)
  BY EntriesAreOrderly
<1>2. Orderly(E)
  BY EntriesAreOrderly
<1> HIDE DEF E
<1>3. PICK upTo :
        /\ FoldLeft(Create, EmptyRoot, E) = upTo[Len(E)]
        /\ upTo[0] = EmptyRoot
        /\ \A n \in 1 .. Len(E) : upTo[n] = Create(upTo[n - 1], E[n])
  BY <1>1, CreateSteps
<1> DEFINE holds == {n \in Nat : n <= Len(E) => Made(upTo[n], E, n)}
<1>4. holds \in SUBSET Nat /\ 0 \in holds
  <2>1. 1 .. 0 = {} /\ DOMAIN EmptyRoot = {<<>>} /\ EmptyRoot[<<>>] = "directory"
    BY DEF EmptyRoot
  <2>2. Made(EmptyRoot, E, 0)
    BY <2>1 DEF Made
  <2> QED
    BY <1>3, <2>2
<1>5. ASSUME NEW n \in holds PROVE n + 1 \in holds
  <2> SUFFICES ASSUME n + 1 <= Len(E) PROVE Made(upTo[n + 1], E, n + 1)
    OBVIOUS
  <2>1. n \in Nat /\ Len(E) \in Nat /\ n + 1 \in 1 .. Len(E) /\ (n + 1) - 1 = n /\ n <= Len(E)
    BY <1>1
  <2>2. Made(upTo[n], E, n)
    BY <2>1
  <2>3. upTo[n + 1] = Create(upTo[n], E[n + 1])
    BY <1>3, <2>1
  <2> QED
    BY <1>2, <2>1, <2>2, <2>3, CreateKeepsMade
<1>6. Len(E) \in holds
  <2>1. Len(E) \in Nat
    BY <1>1
  <2> HIDE DEF holds
  <2> QED
    BY <1>4, <1>5, <2>1, Induction
<1> QED
  BY <1>1, <1>3, <1>6 DEF Materialised, E

\* A fixture that validate_fixture accepts can be put on disk whole
\* (materialize_fixture, fuzz/system_state_concretizer.rs:285-334): no system call
\* fails over what an earlier one made, and each entry is what it was declared to be.
THEOREM ValidFixturesMaterialise ==
  \A f \in Blueprints :
    ValidFixture(f) =>
      /\ Materialised(f) # Broken
      /\ \A p \in ToSet(f.directories) :
           p \in DOMAIN Materialised(f) /\ Materialised(f)[p] = "directory"
      /\ \A p \in NonDirectories(f) :
           p \in DOMAIN Materialised(f) /\ Materialised(f)[p] # "directory"
<1> SUFFICES ASSUME NEW f \in Blueprints, ValidFixture(f)
             PROVE  /\ Materialised(f) # Broken
                    /\ \A p \in ToSet(f.directories) :
                         p \in DOMAIN Materialised(f) /\ Materialised(f)[p] = "directory"
                    /\ \A p \in NonDirectories(f) :
                         p \in DOMAIN Materialised(f) /\ Materialised(f)[p] # "directory"
  OBVIOUS
<1> DEFINE T == Materialised(f)
           E == Entries(f)
<1>1. Made(T, E, Len(E))
  BY ValidIsMade
<1>2. /\ \A p \in ToSet(f.directories) : \E k \in 1 .. Len(E) : E[k].make = "directory" /\ PathOf(E[k]) = p
      /\ \A p \in NonDirectories(f) : \E k \in 1 .. Len(E) : E[k].make # "directory" /\ PathOf(E[k]) = p
  BY EntriesAreOrderly
<1> HIDE DEF T, E
<1>3. T # Broken
  BY <1>1 DEF Made, Broken
<1>4. \A p \in ToSet(f.directories) : p \in DOMAIN T /\ T[p] = "directory"
  BY <1>1, <1>2 DEF Made
<1>5. \A p \in NonDirectories(f) : p \in DOMAIN T /\ T[p] # "directory"
  BY <1>1, <1>2 DEF Made
<1> QED
  BY <1>3, <1>4, <1>5 DEF T

\* A staged case can be started: its working directory is there.
LEMMA StagedLaunches == ASSUME NEW c, c.fixture \in Blueprints, Staged(c) PROVE Launchable(c)
<1> DEFINE T == Materialised(c.fixture)
           E == Entries(c.fixture)
<1>1. c.fixture \in Blueprints /\ ValidFixture(c.fixture)
  BY DEF Staged
<1>2. Made(T, E, Len(E))
  BY <1>1, ValidIsMade
<1>3. c.cwd \in DOMAIN T /\ T[c.cwd] = "directory"
  <2>1. CASE c.cwd = <<>>
    BY <1>2, <2>1 DEF Made
  <2>2. CASE c.cwd \in ToSet(c.fixture.directories)
    <3>1. PICK k \in 1 .. Len(E) : E[k].make = "directory" /\ PathOf(E[k]) = c.cwd
      BY <1>1, <2>2, EntriesAreOrderly
    <3> QED
      BY <1>2, <3>1 DEF Made
  <2> QED
    BY <2>1, <2>2 DEF Staged
<1>4. T # Broken
  BY <1>3 DEF Broken
<1> QED
  BY <1>3, <1>4 DEF Launchable

\* What the search tries can be started.
LEMMA CandidatesAreLaunchable ==
  ASSUME PassSoFar, Staged(best.case)
  PROVE  CandidatesLaunch
<1> SUFFICES ASSUME NEW r \in ToSet(Reductions(best.case))
             PROVE  ValidFixture(r.fixture) /\ Launchable(r)
  BY DEF CandidatesLaunch
<1>1. best.case \in Cases
  BY DEF PassSoFar
<1>2. r \in Better(best.case)
  <2>1. Reductions(best.case) \in Seq(Better(best.case))
    BY <1>1, ReductionsReduce
  <2> QED
    BY <2>1 DEF ToSet
<1>3. r \in Cases /\ Staged(r)
  BY <1>2 DEF Better
<1> QED
  BY <1>3, StagedLaunches DEF Cases, Staged

\* Where every case the search may be given is staged, as random and mutated ones are
\* (random_cwd, fuzz/input/system_state.rs), whatever it tries on the way down can be
\* started in its working directory (the test at fuzz/shrink.rs:783).
THEOREM CandidatesLaunchHolds ==
  ASSUME \A c \in Originals : Staged(c)
  PROVE  Spec => []CandidatesLaunch
<1> DEFINE Staging == PassSoFar /\ Staged(best.case)
<1>1. Init => Staging
  BY OriginalsAssumption DEF Init, PassSoFar, Evaluations
<1>2. IInv /\ Staging /\ [Next]_vars => Staging'
  <2> SUFFICES ASSUME IInv, PassSoFar, Staged(best.case), [Next]_vars PROVE Staging'
    OBVIOUS
  <2>1. PassSoFar'
    BY NextPassSoFar
  <2>2. CASE Accept
    <3>1. Candidate \in Better(best.case)
      BY <2>2, CandidateIsBetter DEF Accept
    <3>2. Staged(best'.case)
      BY <2>2, <3>1 DEF Accept, Better
    <3> QED
      BY <2>1, <3>2
  <2>3. CASE ~ Accept
    <3>1. best' = best
      BY <2>3 DEF Next, Begin, Refuse, Fail, OutOfBudget, Finish, vars
    <3> QED
      BY <2>1, <3>1
  <2> QED
    BY <2>2, <2>3
<1>3. Staging => CandidatesLaunch
  BY CandidatesAreLaunchable
<1> HIDE DEF Staging
<1> QED
  BY <1>1, <1>2, <1>3, InductiveInvariant, PTL DEF Spec

-----------------------------------------------------------------------------
(* Where a path leads.                                                     *)

\* One name further.
NormalStep(at, name) ==
  CASE at = Escape -> Escape
    [] name = Here -> at
    [] name = Up -> IF at = <<>> THEN Escape ELSE Front(at)
    [] OTHER -> Append(at, name)

\* A path is followed one name after another.
LEMMA NormalSteps ==
  ASSUME NEW S, NEW s \in Seq(S)
  PROVE  \E upTo :
           /\ Normal(s) = upTo[Len(s)]
           /\ upTo[0] = <<>>
           /\ \A n \in 1 .. Len(s) : upTo[n] = NormalStep(upTo[n - 1], s[n])
<1> DEFINE table(f, D) == [t \in SUBSET D |->
                             IF t = {} THEN <<>> ELSE NormalStep(f[t \ {Max(t)}], s[Max(t)])]
           fold == CHOOSE f : f = table(f, DOMAIN s)
           holds == {m \in Nat : m <= Len(s) => \E f : f = table(f, 1 .. m)}
<1>1. Normal(s) = fold[DOMAIN s]
  BY DEF Normal, NormalStep, FoldLeft, MapThenFoldSet
<1>2. Len(s) \in Nat /\ DOMAIN s = 1 .. Len(s)
  OBVIOUS
<1> HIDE DEF fold, table
<1>3. ASSUME NEW m \in Nat, NEW t \in SUBSET (1 .. m + 1), m + 1 \in t PROVE Max(t) = m + 1
  <2>1. \A y \in t : m + 1 >= y
    BY <1>3
  <2>2. \A x \in t : x >= m + 1 => x = m + 1
    BY <1>3
  <2> QED
    BY <2>1, <2>2, <1>3 DEF Max
<1>4. holds \in SUBSET Nat /\ 0 \in holds
  <2> DEFINE f == [t \in SUBSET (1 .. 0) |-> <<>>]
  <2>1. SUBSET (1 .. 0) = {{}}
    OBVIOUS
  <2>2. f = table(f, 1 .. 0)
    BY <2>1 DEF table
  <2> HIDE DEF f
  <2> QED
    BY <2>2
<1>5. ASSUME NEW m \in holds PROVE m + 1 \in holds
  <2> SUFFICES ASSUME m + 1 <= Len(s) PROVE \E f : f = table(f, 1 .. m + 1)
    OBVIOUS
  <2>1. m \in Nat /\ m + 1 \in 1 .. Len(s)
    BY <1>2
  <2>2. PICK g : g = table(g, 1 .. m)
    BY <2>1, <1>2
  <2> DEFINE f == [t \in SUBSET (1 .. m + 1) |->
                     IF m + 1 \in t THEN NormalStep(g[t \ {m + 1}], s[m + 1]) ELSE g[t]]
  <2>3. f = [t \in SUBSET (1 .. m + 1) |-> f[t]]
    OBVIOUS
  <2>4. ASSUME NEW t \in SUBSET (1 .. m + 1)
        PROVE  f[t] = IF t = {} THEN <<>> ELSE NormalStep(f[t \ {Max(t)}], s[Max(t)])
    <3>1. CASE m + 1 \in t
      <4>1. Max(t) = m + 1 /\ t # {}
        BY <1>3, <2>1, <3>1
      <4>2. t \ {m + 1} \in SUBSET (1 .. m + 1) /\ m + 1 \notin t \ {m + 1}
        OBVIOUS
      <4>3. f[t \ {m + 1}] = g[t \ {m + 1}]
        BY <4>2
      <4>4. f[t] = NormalStep(g[t \ {m + 1}], s[m + 1])
        BY <3>1
      <4> QED
        BY <4>1, <4>3, <4>4
    <3>2. CASE m + 1 \notin t
      <4>1. t \in SUBSET (1 .. m)
        BY <2>1, <3>2
      <4>2. t \ {Max(t)} \in SUBSET (1 .. m + 1) /\ m + 1 \notin t \ {Max(t)}
        BY <3>2
      <4>3. f[t] = g[t] /\ f[t \ {Max(t)}] = g[t \ {Max(t)}]
        BY <3>2, <4>2
      <4>4. g[t] = IF t = {} THEN <<>> ELSE NormalStep(g[t \ {Max(t)}], s[Max(t)])
        BY <2>2, <4>1 DEF table
      <4> QED
        BY <4>3, <4>4
    <3> QED
      BY <3>1, <3>2
  <2> HIDE DEF f
  <2>5. f = table(f, 1 .. m + 1)
    BY <2>3, <2>4 DEF table
  <2> QED
    BY <2>5
<1>6. \E f : f = table(f, DOMAIN s)
  <2>1. Len(s) \in holds
    <3> HIDE DEF holds
    <3> QED
      BY <1>2, <1>4, <1>5, Induction
  <2> QED
    BY <1>2, <2>1
<1>7. fold = table(fold, DOMAIN s)
  <2> QED
    BY <1>6 DEF fold
<1> DEFINE upTo == [n \in 0 .. Len(s) |-> fold[1 .. n]]
<1>8. upTo[0] = <<>>
  <2>1. 1 .. 0 = {} /\ {} \in SUBSET DOMAIN s
    OBVIOUS
  <2>2. fold[{}] = <<>>
    BY <1>7, <2>1 DEF table
  <2> QED
    BY <1>2, <2>1, <2>2
<1>9. ASSUME NEW n \in 1 .. Len(s)
      PROVE  upTo[n] = NormalStep(upTo[n - 1], s[n])
  <2>1. n \in Nat /\ n - 1 \in Nat /\ (n - 1) + 1 = n /\ n \in 0 .. Len(s) /\ n - 1 \in 0 .. Len(s)
    BY <1>2
  <2>2. n \in 1 .. n /\ 1 .. n \in SUBSET DOMAIN s
    BY <1>2, <2>1
  <2>3. Max(1 .. n) = n
    BY <1>3, <2>1, <2>2
  <2>4. (1 .. n) \ {n} = 1 .. (n - 1)
    BY <2>1
  <2>5. fold[1 .. n] = NormalStep(fold[(1 .. n) \ {Max(1 .. n)}], s[Max(1 .. n)])
    BY <1>7, <2>2 DEF table
  <2>6. fold[1 .. n] = NormalStep(fold[1 .. (n - 1)], s[n])
    BY <1>2, <2>3, <2>4, <2>5
  <2> QED
    BY <2>1, <2>6
<1>10. Normal(s) = upTo[Len(s)]
  BY <1>1, <1>2
<1> QED
  BY <1>8, <1>9, <1>10

\* A list of one, and of two.
LEMMA OneOf == ASSUME NEW S, NEW a \in S PROVE <<a>> \in Seq(S) /\ Len(<<a>>) = 1 /\ <<a>>[1] = a
  OBVIOUS

\* A list of two.
LEMMA TwoOf ==
  ASSUME NEW S, NEW a \in S, NEW b \in S
  PROVE  <<a, b>> \in Seq(S) /\ Len(<<a, b>>) = 2 /\ <<a, b>>[1] = a /\ <<a, b>>[2] = b
  OBVIOUS

\* A path with a bound below its depth at each name does not climb above the root.
LEMMA NormalStays ==
  ASSUME NEW p \in Path, NEW low \in [0 .. Len(p) -> Nat], low[0] = 0,
         \A n \in 1 .. Len(p) :
           /\ p[n] = Up => low[n] + 1 <= low[n - 1]
           /\ p[n] = Here => low[n] <= low[n - 1]
           /\ low[n] <= low[n - 1] + 1
  PROVE  Normal(p) # Escape
<1>1. p \in Seq(STRING) /\ Len(p) \in Nat /\ \A n \in 1 .. Len(p) : p[n] \in STRING
  BY DEF Path
<1>2. PICK upTo : /\ Normal(p) = upTo[Len(p)]
                  /\ upTo[0] = <<>>
                  /\ \A n \in 1 .. Len(p) : upTo[n] = NormalStep(upTo[n - 1], p[n])
  BY <1>1, NormalSteps
<1> DEFINE names == STRING \ {Up}
           deep(n) == upTo[n] \in Seq(names) /\ Len(upTo[n]) >= low[n]
           holds == {n \in Nat : n <= Len(p) => deep(n)}
<1>3. Up \in STRING /\ Here \in STRING /\ Up # Here
  BY NamesAssumption DEF Up, Here
<1>4. ASSUME NEW at \in Seq(names) PROVE at # Escape
  <2> SUFFICES ASSUME at = Escape PROVE FALSE
    OBVIOUS
  <2>1. 1 \in DOMAIN at /\ at[1] = Up
    BY DEF Escape
  <2> QED
    BY <2>1
<1>5. 0 \in holds
  <2>1. <<>> \in Seq(names) /\ Len(<<>>) = 0
    OBVIOUS
  <2>2. low[0] \in Nat /\ Len(upTo[0]) >= low[0]
    BY <1>1, <1>2, <2>1
  <2> QED
    BY <1>2, <2>1, <2>2
<1>6. ASSUME NEW m \in holds PROVE m + 1 \in holds
  <2> SUFFICES ASSUME m + 1 <= Len(p) PROVE deep(m + 1)
    OBVIOUS
  <2> DEFINE n == m + 1
  <2>1. m \in Nat /\ n \in 1 .. Len(p) /\ n - 1 = m /\ m \in 0 .. Len(p) /\ n \in 0 .. Len(p)
    BY <1>1
  <2> DEFINE at == upTo[m]
  <2>2. at \in Seq(names) /\ Len(at) >= low[m] /\ at # Escape /\ Len(at) \in Nat
    BY <1>1, <1>4, <2>1
  <2>3. upTo[n] = NormalStep(at, p[n])
    BY <1>2, <2>1
  <2>4. low[n] \in Nat /\ low[m] \in Nat
    BY <2>1
  <2> HIDE DEF n, at
  <2>5. CASE p[n] = Up
    <3>1. low[n] + 1 <= low[m]
      BY <2>1, <2>5
    <3>2. at # <<>>
      BY <2>2, <2>4, <3>1
    <3>3. upTo[n] = Front(at)
      BY <1>3, <2>2, <2>3, <2>5, <3>2 DEF NormalStep
    <3>4. Front(at) \in Seq(names) /\ Len(Front(at)) = Len(at) - 1
      BY <2>2, <3>2, FrontIs
    <3> QED
      BY <2>2, <2>4, <3>1, <3>3, <3>4 DEF n
  <2>6. CASE p[n] = Here
    <3>1. low[n] <= low[m]
      BY <1>3, <2>1, <2>6
    <3>2. upTo[n] = at
      BY <1>3, <2>2, <2>3, <2>6 DEF NormalStep
    <3> QED
      BY <2>2, <2>4, <3>1, <3>2 DEF n
  <2>7. CASE p[n] \notin {Up, Here}
    <3>1. low[n] <= low[m] + 1
      BY <2>1, <2>7
    <3>2. upTo[n] = Append(at, p[n])
      BY <2>2, <2>3, <2>7 DEF NormalStep
    <3>3. p[n] \in names
      BY <1>1, <2>1, <2>7
    <3>4. Append(at, p[n]) \in Seq(names) /\ Len(Append(at, p[n])) = Len(at) + 1
      BY <2>2, <3>3
    <3> QED
      BY <2>2, <2>4, <3>1, <3>2, <3>4 DEF n
  <2> QED
    BY <2>5, <2>6, <2>7
<1>7. Len(p) \in holds
  <2>1. holds \in SUBSET Nat
    OBVIOUS
  <2> HIDE DEF holds
  <2> QED
    BY <1>1, <1>5, <1>6, <2>1, Induction
<1> QED
  BY <1>1, <1>2, <1>4, <1>7

\* How deep one is at least, j names on the way down n and then up to k again.
Depth(n, k, j) == IF j <= n THEN j ELSE IF j <= n + k THEN n - (j - n) ELSE n - k

\* The way from one place to another: up, then down; or no further.
LEMMA DepthIs ==
  ASSUME NEW n \in Nat, NEW k \in Nat, k <= n, NEW j \in Nat
  PROVE  /\ Depth(n, k, j) \in Nat
         /\ j # 0 => /\ Depth(n, k, j) <= Depth(n, k, j - 1) + 1
                     /\ n < j /\ j <= n + k => Depth(n, k, j) + 1 <= Depth(n, k, j - 1)
                     /\ n + k < j => Depth(n, k, j) <= Depth(n, k, j - 1)
  BY DEF Depth

\* A target that climbs no further than its link is deep stays within the fixture.
LEMMA Leads ==
  ASSUME NEW p \in Path, NEW t \in Path, p # <<>>, t # <<>>, NEW k \in 0 .. Len(p) - 1,
         \A i \in 1 .. Len(p) : p[i] \notin {Up, Here},
         \A i \in 1 .. Len(t) : t[i] = Up => i <= k
  PROVE  StaysWithin(p, t)
<1> DEFINE b == Front(p)
           q == b \o t
           n == Len(b)
           low == [i \in 0 .. Len(q) |-> Depth(n, k, i)]
<1>1. /\ p \in Seq(STRING) /\ t \in Seq(STRING)
      /\ b \in Seq(STRING) /\ n = Len(p) - 1 /\ n \in Nat /\ \A i \in 1 .. n : b[i] = p[i]
  <2>1. p \in Seq(STRING) /\ t \in Seq(STRING)
    BY DEF Path
  <2>2. /\ Front(p) \in Seq(STRING) /\ Len(Front(p)) = Len(p) - 1
        /\ \A i \in 1 .. Len(p) - 1 : Front(p)[i] = p[i]
        /\ Len(p) \in Nat \ {0}
    BY <2>1, FrontIs
  <2> QED
    BY <2>1, <2>2
<1>2. k \in Nat /\ k <= n /\ Len(t) \in Nat /\ Len(p) \in Nat
  BY <1>1
<1>3. /\ q \in Path /\ Len(q) = n + Len(t)
      /\ \A i \in 1 .. n : q[i] = b[i]
      /\ \A i \in 1 .. Len(t) : q[n + i] = t[i]
  <2>1. /\ b \o t \in Seq(STRING) /\ Len(b \o t) = Len(b) + Len(t)
        /\ \A i \in 1 .. Len(b) : (b \o t)[i] = b[i]
        /\ \A i \in 1 .. Len(t) : (b \o t)[Len(b) + i] = t[i]
    <3>1. PICK S : S = STRING
      OBVIOUS
    <3>2. b \in Seq(S) /\ t \in Seq(S)
      BY <1>1, <3>1
    <3> HIDE DEF b
    <3>3. /\ b \o t \in Seq(S) /\ Len(b \o t) = Len(b) + Len(t)
          /\ \A i \in 1 .. Len(b) : (b \o t)[i] = b[i]
          /\ \A i \in 1 .. Len(t) : (b \o t)[Len(b) + i] = t[i]
      BY <3>2, TwoLists
    <3> QED
      BY <3>1, <3>3
  <2> QED
    BY <2>1 DEF Path
<1> HIDE DEF b, q, n
<1>4. low \in [0 .. Len(q) -> Nat] /\ low[0] = 0
  <2>1. \A i \in 0 .. Len(q) : i \in Nat /\ Depth(n, k, i) \in Nat
    <3> SUFFICES ASSUME NEW i \in 0 .. Len(q) PROVE i \in Nat /\ Depth(n, k, i) \in Nat
      OBVIOUS
    <3>1. i \in Nat
      OBVIOUS
    <3> QED
      BY <1>1, <1>2, <3>1, DepthIs
  <2>2. 0 \in 0 .. Len(q) /\ Depth(n, k, 0) = 0
    BY <1>1, <1>2, <1>3 DEF Depth
  <2> QED
    BY <2>1, <2>2
<1>5. ASSUME NEW j \in 1 .. Len(q)
      PROVE  /\ q[j] = Up => low[j] + 1 <= low[j - 1]
             /\ q[j] = Here => low[j] <= low[j - 1]
             /\ low[j] <= low[j - 1] + 1
  <2>1. j \in 0 .. Len(q) /\ j - 1 \in 0 .. Len(q) /\ j \in Nat \ {0}
    BY <1>1, <1>2, <1>3
  <2>2. low[j] = Depth(n, k, j) /\ low[j - 1] = Depth(n, k, j - 1)
    BY <2>1
  <2>3. Depth(n, k, j) \in Nat /\ Depth(n, k, j - 1) \in Nat
    <3>1. j - 1 \in Nat
      BY <2>1
    <3> QED
      BY <1>1, <1>2, <2>1, <3>1, DepthIs
  <2>4. /\ Depth(n, k, j) <= Depth(n, k, j - 1) + 1
        /\ n < j /\ j <= n + k => Depth(n, k, j) + 1 <= Depth(n, k, j - 1)
        /\ n + k < j => Depth(n, k, j) <= Depth(n, k, j - 1)
    BY <1>1, <1>2, <2>1, DepthIs
  <2>5. q[j] = Up => n < j /\ j <= n + k
    <3>1. CASE j <= n
      <4>1. j \in 1 .. n /\ j \in 1 .. Len(p)
        BY <1>1, <1>2, <2>1, <3>1
      <4> QED
        BY <1>1, <1>3, <4>1
    <3>2. CASE n < j
      <4>1. j - n \in 1 .. Len(t) /\ n + (j - n) = j
        BY <1>1, <1>2, <1>3, <2>1, <3>2
      <4>2. q[j] = t[j - n]
        BY <1>3, <4>1
      <4>3. q[j] = Up => j - n <= k
        BY <4>1, <4>2
      <4> QED
        BY <1>1, <1>2, <2>1, <3>2, <4>3
    <3> QED
      BY <1>1, <2>1, <3>1, <3>2
  <2>6. q[j] = Here => n < j
    <3>1. ASSUME j <= n PROVE q[j] # Here
      <4>1. j \in 1 .. n /\ j \in 1 .. Len(p)
        BY <1>1, <1>2, <2>1, <3>1
      <4> QED
        BY <1>1, <1>3, <4>1
    <3> QED
      BY <1>1, <2>1, <3>1
  <2> HIDE DEF low
  <2> QED
    BY <1>1, <1>2, <2>1, <2>2, <2>3, <2>4, <2>5, <2>6, SMTT(30)
<1>6. Normal(q) # Escape
  <2> HIDE DEF low
  <2> QED
    BY <1>3, <1>4, <1>5, NormalStays
<1> QED
  BY <1>6 DEF StaysWithin, Target, q, b

\* A link in the root to a name there, or to one in a directory there.
LEMMA TopLeads ==
  ASSUME NEW a \in STRING, NEW b \in STRING, b # Up
  PROVE  StaysWithin(<<a>>, <<b>>) /\ \A c \in STRING \ {Up} : StaysWithin(<<a>>, <<b, c>>)
<1>1. ASSUME NEW t \in Path, t # <<>>, \A i \in 1 .. Len(t) : t[i] # Up
      PROVE  StaysWithin(<<a>>, t)
  <2>1. Front(<<a>>) \o t = t
    BY DEF Front, Path
  <2> DEFINE low == [i \in 0 .. Len(t) |-> 0]
  <2>2. Normal(t) # Escape
    <3>1. low \in [0 .. Len(t) -> Nat] /\ \A i \in 0 .. Len(t) : low[i] = 0
      OBVIOUS
    <3>2. Len(t) \in Nat /\ 0 \in 0 .. Len(t) /\ \A i \in 1 .. Len(t) : i \in 0 .. Len(t) /\ i - 1 \in 0 .. Len(t)
      BY DEF Path
    <3> HIDE DEF low
    <3> QED
      BY <1>1, <3>1, <3>2, NormalStays
  <2> QED
    BY <1>1, <2>1, <2>2 DEF StaysWithin, Target
<1>2. PICK S : S = STRING
  OBVIOUS
<1>3. StaysWithin(<<a>>, <<b>>)
  <2> DEFINE t == <<b>>
  <2>1. t \in Seq(S) /\ Len(t) = 1 /\ t[1] = b
    BY <1>2, OneOf
  <2> HIDE DEF t
  <2>2. t \in Path /\ t # <<>> /\ \A i \in 1 .. Len(t) : t[i] # Up
    <3>1. t \in Path
      BY <1>2, <2>1 DEF Path
    <3>2. t # <<>>
      BY <2>1
    <3>3. ASSUME NEW i \in 1 .. Len(t) PROVE t[i] # Up
      <4>1. i = 1
        BY <2>1
      <4> QED
        BY <2>1, <4>1
    <3> QED
      BY <3>1, <3>2, <3>3
  <2>3. StaysWithin(<<a>>, t)
    BY <1>1, <2>2
  <2> QED
    BY <2>3 DEF t
<1>4. ASSUME NEW c \in STRING \ {Up} PROVE StaysWithin(<<a>>, <<b, c>>)
  <2> DEFINE t == <<b, c>>
  <2>1. t \in Seq(S) /\ Len(t) = 2 /\ t[1] = b /\ t[2] = c
    BY <1>2, TwoOf
  <2> HIDE DEF t
  <2>2. t \in Path /\ t # <<>> /\ \A i \in 1 .. Len(t) : t[i] # Up
    <3>1. t \in Path
      BY <1>2, <2>1 DEF Path
    <3>2. t # <<>>
      BY <2>1
    <3>3. ASSUME NEW i \in 1 .. Len(t) PROVE t[i] # Up
      <4>1. i \in {1, 2}
        BY <2>1
      <4> QED
        BY <2>1, <4>1
    <3> QED
      BY <3>1, <3>2, <3>3
  <2>3. StaysWithin(<<a>>, t)
    BY <1>1, <2>2
  <2> QED
    BY <2>3 DEF t
<1> QED
  BY <1>3, <1>4

-----------------------------------------------------------------------------
(* Fixtures that are made, not reduced.                                    *)

\* Places for the entries of a fixture, directories and others: each is in the
\* root or in one of the directories.
Layout(D, N) ==
  /\ D \subseteq Path \ {<<>>} /\ N \subseteq Path \ {<<>>} /\ D \cap N = {}
  /\ \A p \in D \cup N : Front(p) \in D \cup {<<>>}

\* A valid fixture whose entries are at these places.
Fits(f, D, N) ==
  /\ Layout(D, N) /\ f \in Blueprints /\ ValidFixture(f)
  /\ ToSet(f.directories) \subseteq D /\ NonDirectories(f) \subseteq N

\* Whatever leads to a place is a directory or the root.
LEMMA AboveLaidOut ==
  ASSUME NEW D, NEW N, Layout(D, N), NEW p \in D \cup N
  PROVE  Above(p) \subseteq D \cup {<<>>}
<1> DEFINE holds == {n \in Nat : \A q \in D \cup N : Len(q) <= n => Above(q) \subseteq D \cup {<<>>}}
<1>1. \A q \in D \cup N : q \in Path /\ q # <<>> /\ q \in Seq(STRING) /\ Len(q) \in Nat \ {0}
  BY DEF Layout, Path
<1>2. 0 \in holds
  BY <1>1
<1>3. ASSUME NEW n \in holds PROVE n + 1 \in holds
  <2> SUFFICES ASSUME NEW q \in D \cup N, Len(q) <= n + 1 PROVE Above(q) \subseteq D \cup {<<>>}
    OBVIOUS
  <2>1. Above(q) = Above(Front(q)) \cup {Front(q)}
    BY <1>1, AboveIs
  <2>2. Front(q) \in D \cup {<<>>} /\ Len(Front(q)) = Len(q) - 1
    BY <1>1, FrontIs DEF Layout
  <2>3. Above(Front(q)) \subseteq D \cup {<<>>}
    <3>1. CASE Front(q) = <<>>
      <4>1. Above(<<>>) = {}
        BY DEF Above
      <4> QED
        BY <3>1, <4>1
    <3>2. CASE Front(q) \in D
      BY <1>1, <2>2, <3>2
    <3> QED
      BY <2>2, <3>1, <3>2
  <2> QED
    BY <2>1, <2>2, <2>3
<1>4. holds = Nat
  <2>1. holds \in SUBSET Nat
    OBVIOUS
  <2> HIDE DEF holds
  <2> QED
    BY <1>2, <1>3, <2>1, Induction
<1>5. Len(p) \in holds
  BY <1>1, <1>4
<1> QED
  BY <1>5

\* What makes a fixture at these places valid.
LEMMA LaidOut ==
  ASSUME NEW f \in Blueprints, NEW D, NEW N, Layout(D, N),
         ToSet(f.directories) \subseteq D, NonDirectories(f) \subseteq N,
         IsInjective(f.directories), IsInjective(Pluck(f.files)),
         IsInjective(Pluck(f.symlinks)), IsInjective(Pluck(f.hardlinks)),
         LET F == ToSet(Pluck(f.files))
             L == ToSet(Pluck(f.symlinks))
             H == ToSet(Pluck(f.hardlinks))
         IN F \cap L = {} /\ F \cap H = {} /\ L \cap H = {},
         \A s \in ToSet(f.symlinks) : StaysWithin(s.path, s.target),
         \A h \in ToSet(f.hardlinks) :
           /\ h.source \in ToSet(Pluck(f.files)) \cup ToSet(Pluck(f.symlinks))
           /\ \A s \in ToSet(f.symlinks) : s.path = h.source => StaysWithin(h.path, s.target)
  PROVE  Fits(f, D, N)
<1> DEFINE F == ToSet(Pluck(f.files))
           L == ToSet(Pluck(f.symlinks))
           H == ToSet(Pluck(f.hardlinks))
<1>1. Listed(f)
  BY BlueprintsAreLists
<1>2. /\ ToSet(Destinations(f)) = ToSet(f.directories) \cup F \cup L \cup H
      /\ NonDirectories(f) = F \cup L \cup H
      /\ ToSet(Pluck(f.files) \o Pluck(f.symlinks)) = F \cup L
      /\ Symlinks(f) = L
  BY <1>1, DestinationsAre DEF Symlinks
<1>3. D \cap N = {} /\ <<>> \notin N /\ <<>> \notin D
  BY DEF Layout
<1>4. IsInjective(Destinations(f))
  <2>1. /\ ToSet(f.directories) \cap F = {} /\ ToSet(f.directories) \cap L = {}
        /\ ToSet(f.directories) \cap H = {}
    BY <1>2, <1>3
  <2> QED
    BY <1>1, <2>1, DestinationsAre
<1>5. \A p \in ToSet(Destinations(f)) : p # <<>> /\ p \in D \cup N
  BY <1>2, <1>3
<1>6. \A p \in D \cup N : Above(p) \cap N = {}
  BY <1>3, AboveLaidOut
<1>7. ASSUME NEW h \in ToSet(f.hardlinks) PROVE ValidHardlink(f, h)
  <2>1. h.path \in H /\ h.source \in F \cup L
    <3>1. h.path \in H
      BY DEF Pluck, ToSet
    <3> QED
      BY <3>1
  <2>2. AliasesOfSymlinks(f) \subseteq H
    BY DEF AliasesOfSymlinks, Pluck, ToSet
  <2>3. \A p \in {h.path, h.source} : Above(p) \cap (L \cup AliasesOfSymlinks(f)) = {}
    <3>1. h.path \in D \cup N /\ h.source \in D \cup N /\ L \cup AliasesOfSymlinks(f) \subseteq N
      BY <1>2, <2>1, <2>2
    <3> QED
      BY <1>6, <3>1
  <2> QED
    BY <1>2, <2>1, <2>3 DEF ValidHardlink
<1>8. \A p \in ToSet(Destinations(f)) : p # <<>> /\ Above(p) \cap NonDirectories(f) = {}
  BY <1>5, <1>6
<1>9. ValidFixture(f)
  BY <1>4, <1>7, <1>8 DEF ValidFixture
<1> QED
  BY <1>9 DEF Fits

\* The paths of two lists of entries one after the other.
LEMMA PlucksJoin ==
  ASSUME NEW R, NEW a \in Seq(R), NEW b \in Seq(R)
  PROVE  Pluck(a \o b) = Pluck(a) \o Pluck(b)
<1>1. /\ a \o b \in Seq(R) /\ Len(a \o b) = Len(a) + Len(b) /\ Len(a) \in Nat /\ Len(b) \in Nat
      /\ \A i \in 1 .. Len(a) : (a \o b)[i] = a[i]
      /\ \A i \in 1 .. Len(b) : (a \o b)[Len(a) + i] = b[i]
  BY TwoLists
<1> DEFINE P == {r.path : r \in R}
           u == Pluck(a)
           v == Pluck(b)
           w == Pluck(a \o b)
<1>2. /\ u \in Seq(P) /\ Len(u) = Len(a) /\ \A i \in 1 .. Len(a) : u[i] = a[i].path
      /\ v \in Seq(P) /\ Len(v) = Len(b) /\ \A i \in 1 .. Len(b) : v[i] = b[i].path
      /\ w \in Seq(P) /\ Len(w) = Len(a \o b) /\ \A i \in 1 .. Len(a \o b) : w[i] = (a \o b)[i].path
  <2>1. \A r \in R : r.path \in P
    OBVIOUS
  <2> HIDE DEF P
  <2>2. \A c \in Seq(R) : Pluck(c) \in Seq(P) /\ Len(Pluck(c)) = Len(c) /\ \A i \in 1 .. Len(c) : Pluck(c)[i] = c[i].path
    BY <2>1, PluckIs, ZenonT(40)
  <2> QED
    BY <1>1, <2>2
<1> HIDE DEF u, v, w, P
<1>3. /\ u \o v \in Seq(P) /\ Len(u \o v) = Len(u) + Len(v)
      /\ \A i \in 1 .. Len(u) : (u \o v)[i] = u[i]
      /\ \A i \in 1 .. Len(v) : (u \o v)[Len(u) + i] = v[i]
  <2>1. u \in Seq(P) /\ v \in Seq(P)
    BY <1>2
  <2> QED
    BY <2>1, TwoLists
<1>4. ASSUME NEW i \in 1 .. Len(w) PROVE w[i] = (u \o v)[i]
  <2>1. CASE i <= Len(a)
    <3>1. i \in 1 .. Len(a) /\ i \in 1 .. Len(u) /\ i \in 1 .. Len(a \o b)
      BY <1>1, <1>2, <2>1
    <3>2. w[i] = (a \o b)[i].path /\ (a \o b)[i] = a[i] /\ u[i] = a[i].path /\ (u \o v)[i] = u[i]
      BY <1>1, <1>2, <1>3, <3>1, Zenon
    <3> QED
      BY <3>2
  <2>2. CASE i > Len(a)
    <3>1. i - Len(a) \in 1 .. Len(b) /\ Len(a) + (i - Len(a)) = i
      BY <1>1, <1>2, <2>2
    <3>2. (a \o b)[i] = b[i - Len(a)]
      BY <1>1, <3>1
    <3>3. (u \o v)[i] = v[i - Len(a)]
      BY <1>2, <1>3, <3>1
    <3> QED
      BY <1>2, <3>1, <3>2, <3>3
  <2> QED
    BY <1>1, <1>2, <2>1, <2>2
<1>5. w = u \o v
  BY <1>1, <1>2, <1>3, <1>4
<1> QED
  BY <1>5 DEF u, v, w

\* Places for the entries of these lists among more places than there were.
Placed(d, x, s, h, D, N, D2, N2) ==
  /\ d \in Seq(Path) /\ x \in Seq(Path) /\ s \in Seq(SymlinkEntries) /\ h \in Seq(HardlinkEntries)
  /\ Layout(D2, N2) /\ D \subseteq D2 /\ N \subseteq N2
  /\ ToSet(d) \subseteq D2 \ D /\ ToSet(x) \subseteq N2 \ N
  /\ ToSet(Pluck(s)) \subseteq N2 \ N /\ ToSet(Pluck(h)) \subseteq N2 \ N
  /\ IsInjective(d) /\ IsInjective(x) /\ IsInjective(Pluck(s)) /\ IsInjective(Pluck(h))
  /\ ToSet(x) \cap ToSet(Pluck(s)) = {} /\ ToSet(x) \cap ToSet(Pluck(h)) = {}
  /\ ToSet(Pluck(s)) \cap ToSet(Pluck(h)) = {}
  /\ \A l \in ToSet(s) : StaysWithin(l.path, l.target)

\* Hardlinks to some of these.
Aliasing(h, sources) == \A l \in ToSet(h) : l.source \in sources

\* What a fixture given by its lists consists of.
LEMMA TreeIs ==
  ASSUME NEW d \in Seq(Path), NEW x \in Seq(Path), NEW s \in Seq(SymlinkEntries), NEW h \in Seq(HardlinkEntries),
         NEW f, f = Tree(d, x, s, h)
  PROVE  /\ f \in Blueprints
         /\ f.directories = d /\ Pluck(f.files) = x /\ f.symlinks = s /\ f.hardlinks = h
<1>1. /\ f.directories = d /\ f.symlinks = s /\ f.hardlinks = h
      /\ f.files = [i \in DOMAIN x |-> File(x[i], 1)]
      /\ f = [directories |-> d, files |-> f.files, symlinks |-> s, hardlinks |-> h]
  BY DEF Tree
<1>2. f.files \in Seq([path : Path, size : Nat]) /\ Pluck(f.files) = x
  <2>1. DOMAIN x = 1 .. Len(x) /\ Len(x) \in Nat /\ \A i \in 1 .. Len(x) : x[i] \in Path
    OBVIOUS
  <2>2. \A i \in 1 .. Len(x) : File(x[i], 1) \in [path : Path, size : Nat] /\ File(x[i], 1).path = x[i]
    BY <2>1 DEF File
  <2>3. f.files = [i \in 1 .. Len(x) |-> File(x[i], 1)]
    BY <1>1, <2>1
  <2>4. f.files \in Seq([path : Path, size : Nat])
    BY <2>1, <2>2, <2>3
  <2>5. Pluck(f.files) = [i \in 1 .. Len(x) |-> x[i]]
    BY <2>2, <2>3 DEF Pluck
  <2> QED
    BY <2>1, <2>4, <2>5
<1>3. f \in Blueprints
  BY <1>1, <1>2, Zenon DEF Blueprints, SymlinkEntries, HardlinkEntries
<1> QED
  BY <1>1, <1>2, <1>3

\* A fixture given by its lists, in these places, where each hardlink is of a file.
LEMMA TreeFits ==
  ASSUME NEW d, NEW x, NEW s, NEW h, NEW D, NEW N,
         Placed(d, x, s, h, {}, {}, D, N), Aliasing(h, ToSet(x)), NEW f, f = Tree(d, x, s, h)
  PROVE  Fits(f, D, N) /\ ToSet(Pluck(f.files)) = ToSet(x)
<1>1. f \in Blueprints /\ f.directories = d /\ Pluck(f.files) = x /\ f.symlinks = s /\ f.hardlinks = h
  BY TreeIs DEF Placed
<1>2. NonDirectories(f) = ToSet(x) \cup ToSet(Pluck(s)) \cup ToSet(Pluck(h))
  BY <1>1, BlueprintsAreLists, DestinationsAre
<1>3. \A l \in ToSet(f.hardlinks) :
        /\ l.source \in ToSet(x) \cup ToSet(Pluck(s))
        /\ \A m \in ToSet(s) : m.path = l.source => StaysWithin(l.path, m.target)
  <2>1. \A m \in ToSet(s) : m.path \in ToSet(Pluck(s))
    BY DEF ToSet, Pluck
  <2> QED
    BY <1>1, <2>1 DEF Placed, Aliasing
<1>4. Fits(f, D, N)
  BY <1>1, <1>2, <1>3, LaidOut DEF Placed
<1> QED
  BY <1>1, <1>4

\* Entries in new places, of which the hardlinks are of files.
LEMMA Grows ==
  ASSUME NEW f, NEW D, NEW N, Fits(f, D, N), NEW k \in Blueprints,
         NEW d, NEW x, NEW s, NEW h,
         k.directories = f.directories \o d, Pluck(k.files) = Pluck(f.files) \o x,
         k.symlinks = f.symlinks \o s, k.hardlinks = f.hardlinks \o h,
         NEW D2, NEW N2, Placed(d, x, s, h, D, N, D2, N2), Aliasing(h, ToSet(Pluck(k.files)))
  PROVE  Fits(k, D2, N2)
<1>1. /\ f \in Blueprints /\ ValidFixture(f) /\ Layout(D, N)
      /\ ToSet(f.directories) \subseteq D /\ NonDirectories(f) \subseteq N
  BY DEF Fits
<1> USE DEF Placed, Aliasing
<1>2. /\ Listed(f) /\ Listed(k)
      /\ f.symlinks \in Seq(SymlinkEntries) /\ f.hardlinks \in Seq(HardlinkEntries)
      /\ f.directories \in Seq(Path) /\ Pluck(f.files) \in Seq(Path)
  BY <1>1, BlueprintsAreLists DEF Listed
<1> DEFINE F == ToSet(Pluck(f.files))
           L == ToSet(Pluck(f.symlinks))
           H == ToSet(Pluck(f.hardlinks))
<1>3. /\ NonDirectories(f) = F \cup L \cup H /\ F \cap L = {} /\ F \cap H = {} /\ L \cap H = {}
      /\ IsInjective(f.directories) /\ IsInjective(Pluck(f.files))
      /\ IsInjective(Pluck(f.symlinks)) /\ IsInjective(Pluck(f.hardlinks))
  BY <1>1, <1>2, DestinationsAre DEF ValidFixture
<1>4. /\ ToSet(k.directories) = ToSet(f.directories) \cup ToSet(d) /\ IsInjective(k.directories)
  BY <1>1, <1>2, <1>3, ConcatIs
<1>5. ToSet(Pluck(k.files)) = F \cup ToSet(x) /\ IsInjective(Pluck(k.files))
  BY <1>1, <1>2, <1>3, ConcatIs
<1>6. /\ ToSet(k.symlinks) = ToSet(f.symlinks) \cup ToSet(s)
      /\ ToSet(k.hardlinks) = ToSet(f.hardlinks) \cup ToSet(h)
  BY <1>2, ConcatIs
<1>7. Pluck(s) \in Seq(Path) /\ Pluck(h) \in Seq(Path)
  <2>1. (\A r \in SymlinkEntries : r.path \in Path) /\ (\A r \in HardlinkEntries : r.path \in Path)
    BY DEF SymlinkEntries, HardlinkEntries
  <2> QED
    BY <2>1, PluckIs
<1>8. /\ Pluck(k.symlinks) = Pluck(f.symlinks) \o Pluck(s)
      /\ Pluck(k.hardlinks) = Pluck(f.hardlinks) \o Pluck(h)
  BY <1>2, PlucksJoin, ZenonT(40)
<1>9. /\ ToSet(Pluck(k.symlinks)) = L \cup ToSet(Pluck(s)) /\ IsInjective(Pluck(k.symlinks))
      /\ ToSet(Pluck(k.hardlinks)) = H \cup ToSet(Pluck(h)) /\ IsInjective(Pluck(k.hardlinks))
  BY <1>1, <1>2, <1>3, <1>7, <1>8, ConcatIs, SMTT(30) DEF Listed
<1>10. NonDirectories(k) = ToSet(Pluck(k.files)) \cup ToSet(Pluck(k.symlinks)) \cup ToSet(Pluck(k.hardlinks))
  BY <1>2, DestinationsAre
<1>11. \A l \in ToSet(k.symlinks) : StaysWithin(l.path, l.target)
  BY <1>1, <1>6 DEF ValidFixture
<1>12. ASSUME NEW l \in ToSet(k.hardlinks)
       PROVE  /\ l.source \in ToSet(Pluck(k.files)) \cup ToSet(Pluck(k.symlinks))
              /\ \A m \in ToSet(k.symlinks) : m.path = l.source => StaysWithin(l.path, m.target)
  <2>1. \A m \in ToSet(s) : m.path \in N2 \ N /\ m.path \notin ToSet(x)
    <3>1. \A m \in ToSet(s) : m.path \in ToSet(Pluck(s))
      BY DEF ToSet, Pluck
    <3> QED
      BY <3>1
  <2>2. \A m \in ToSet(f.symlinks) : m.path \in L
    BY DEF ToSet, Pluck
  <2>3. CASE l \in ToSet(f.hardlinks)
    <3>1. ValidHardlink(f, l)
      BY <1>1, <2>3 DEF ValidFixture
    <3>2. l.source \in F \cup L
      BY <1>2, <3>1, DestinationsAre DEF ValidHardlink
    <3>3. l.source \in N
      BY <1>1, <1>3, <3>2
    <3>4. \A m \in ToSet(k.symlinks) : m.path = l.source => m \in ToSet(f.symlinks)
      BY <1>6, <2>1, <3>3
    <3> QED
      BY <1>5, <1>9, <3>1, <3>2, <3>4 DEF ValidHardlink
  <2>4. CASE l \in ToSet(h)
    <3>1. l.source \in F \cup ToSet(x)
      BY <1>5, <2>4
    <3>2. \A m \in ToSet(k.symlinks) : m.path # l.source
      BY <1>1, <1>3, <1>6, <2>1, <2>2, <3>1
    <3> QED
      BY <1>5, <3>1, <3>2
  <2> QED
    BY <1>6, <2>3, <2>4
<1>13. /\ ToSet(k.directories) \subseteq D2 /\ NonDirectories(k) \subseteq N2
       /\ ToSet(Pluck(k.files)) \cap ToSet(Pluck(k.symlinks)) = {}
       /\ ToSet(Pluck(k.files)) \cap ToSet(Pluck(k.hardlinks)) = {}
       /\ ToSet(Pluck(k.symlinks)) \cap ToSet(Pluck(k.hardlinks)) = {}
  <2> HIDE DEF F, L, H
  <2>1. F \subseteq N /\ L \subseteq N /\ H \subseteq N
    BY <1>1, <1>3
  <2> QED
    BY <1>1, <1>3, <1>4, <1>5, <1>9, <1>10, <2>1
<1> QED
  BY <1>4, <1>5, <1>9, <1>11, <1>12, <1>13, LaidOut

\* Four lists make a blueprint.
LEMMA BlueprintOf ==
  ASSUME NEW d \in Seq(Path), NEW x \in Seq(Files), NEW s \in Seq(SymlinkEntries), NEW h \in Seq(HardlinkEntries)
  PROVE  [directories |-> d, files |-> x, symlinks |-> s, hardlinks |-> h] \in Blueprints
  BY Zenon DEF Blueprints, Files, SymlinkEntries, HardlinkEntries

\* A fixture with entries of its own and more.
LEMMA PlusIs ==
  ASSUME NEW f \in Blueprints, NEW g \in Blueprints, NEW k, k = Plus(f, g)
  PROVE  /\ k \in Blueprints
         /\ k.directories = f.directories \o g.directories /\ Pluck(k.files) = Pluck(f.files) \o Pluck(g.files)
         /\ k.symlinks = f.symlinks \o g.symlinks /\ k.hardlinks = f.hardlinks \o g.hardlinks
<1>2. k = [directories |-> f.directories \o g.directories, files |-> f.files \o g.files,
           symlinks |-> f.symlinks \o g.symlinks, hardlinks |-> f.hardlinks \o g.hardlinks]
  BY DEF Plus
<1>3. /\ f.directories \in Seq(Path) /\ f.files \in Seq(Files)
      /\ f.symlinks \in Seq(SymlinkEntries) /\ f.hardlinks \in Seq(HardlinkEntries)
      /\ g.directories \in Seq(Path) /\ g.files \in Seq(Files)
      /\ g.symlinks \in Seq(SymlinkEntries) /\ g.hardlinks \in Seq(HardlinkEntries)
  BY BlueprintsAreLists
<1>4. /\ f.directories \o g.directories \in Seq(Path) /\ f.files \o g.files \in Seq(Files)
      /\ f.symlinks \o g.symlinks \in Seq(SymlinkEntries) /\ f.hardlinks \o g.hardlinks \in Seq(HardlinkEntries)
  BY <1>3, ConcatIs
<1>5. k \in Blueprints
  BY <1>2, <1>4, BlueprintOf, Zenon
<1>6. Pluck(f.files \o g.files) = Pluck(f.files) \o Pluck(g.files)
  BY <1>3, PlucksJoin
<1>7. k.directories = f.directories \o g.directories /\ k.files = f.files \o g.files
  BY Zenon DEF Plus
<1>8. k.symlinks = f.symlinks \o g.symlinks /\ k.hardlinks = f.hardlinks \o g.hardlinks
  BY Zenon DEF Plus
<1> QED
  BY <1>5, <1>6, <1>7, <1>8, Zenon

\* A place for one more entry.
Free(p, D, N) == p \in Path \ {<<>>} /\ p \notin D \cup N /\ Front(p) \in D \cup {<<>>}

\* The list of one entry, and of none.
LEMMA NoEntry ==
  ASSUME NEW R
  PROVE  <<>> \in Seq(R) /\ ToSet(<<>>) = {} /\ IsInjective(<<>>) /\ Pluck(<<>>) = <<>>
  BY DEF ToSet, IsInjective, Pluck

\* A list of one entry, and of none.
LEMMA OneEntry ==
  ASSUME NEW R, NEW e \in R
  PROVE  /\ <<e>> \in Seq(R) /\ ToSet(<<e>>) = {e} /\ IsInjective(<<e>>)
         /\ Pluck(<<e>>) = <<e.path>>
         /\ <<>> \in Seq(R) /\ ToSet(<<>>) = {} /\ IsInjective(<<>>) /\ Pluck(<<>>) = <<>>
<1>1. <<e>> \in Seq(R) /\ Len(<<e>>) = 1 /\ <<e>>[1] = e /\ DOMAIN <<e>> = {1}
  OBVIOUS
<1>2. ToSet(<<e>>) = {e} /\ IsInjective(<<e>>) /\ Pluck(<<e>>) = <<e.path>>
  BY <1>1 DEF ToSet, IsInjective, Pluck
<1>3. <<>> \in Seq(R) /\ ToSet(<<>>) = {} /\ IsInjective(<<>>) /\ Pluck(<<>>) = <<>>
  BY DEF ToSet, IsInjective, Pluck
<1> QED
  BY <1>1, <1>2, <1>3

\* A fixture with the entries of these lists too.
With(k, f, d, x, s, h) == k = Plus(f, Tree(d, x, s, h))

\* A fixture with more entries fits where there are places for them.
LEMMA PlusFits ==
  ASSUME NEW f, NEW D, NEW N, Fits(f, D, N),
         NEW d, NEW x, NEW s, NEW h,
         NEW k, With(k, f, d, x, s, h),
         NEW D2, NEW N2, Placed(d, x, s, h, D, N, D2, N2),
         Aliasing(h, ToSet(Pluck(f.files)) \cup ToSet(x))
  PROVE  Fits(k, D2, N2) /\ ToSet(Pluck(k.files)) = ToSet(Pluck(f.files)) \cup ToSet(x)
<1>1. PICK g : g = Tree(d, x, s, h)
  OBVIOUS
<1>2. g \in Blueprints /\ g.directories = d /\ Pluck(g.files) = x /\ g.symlinks = s /\ g.hardlinks = h
  BY <1>1, TreeIs DEF Placed
<1>3. f \in Blueprints /\ k = Plus(f, g)
  BY <1>1 DEF Fits, With
<1>4. /\ k \in Blueprints
      /\ k.directories = f.directories \o d /\ Pluck(k.files) = Pluck(f.files) \o x
      /\ k.symlinks = f.symlinks \o s /\ k.hardlinks = f.hardlinks \o h
  <2>1. /\ k \in Blueprints
        /\ k.directories = f.directories \o g.directories /\ Pluck(k.files) = Pluck(f.files) \o Pluck(g.files)
        /\ k.symlinks = f.symlinks \o g.symlinks /\ k.hardlinks = f.hardlinks \o g.hardlinks
    BY <1>2, <1>3, PlusIs
  <2> QED
    BY <1>2, <2>1, Zenon
<1>5. ToSet(Pluck(k.files)) = ToSet(Pluck(f.files)) \cup ToSet(x)
  <2>1. Pluck(f.files) \in Seq(Path)
    BY <1>3, BlueprintsAreLists DEF Listed
  <2> QED
    BY <1>4, <2>1, ConcatIs DEF Placed
<1>6. Fits(k, D2, N2)
  <2>1. Aliasing(h, ToSet(Pluck(k.files)))
    BY <1>5
  <2> QED
    BY <1>4, <2>1, Grows, Zenon
<1> QED
  BY <1>5, <1>6

\* One more file.
LEMMA PlusFileFits ==
  ASSUME NEW f, NEW D, NEW N, Fits(f, D, N), NEW p, Free(p, D, N), NEW k, k = PlusFile(f, p)
  PROVE  Fits(k, D, N \cup {p}) /\ ToSet(Pluck(k.files)) = ToSet(Pluck(f.files)) \cup {p}
<1>1. p \in Path /\ Layout(D, N)
  BY DEF Free, Fits
<1>2. PICK d, x, s, h : d = <<>> /\ x = <<p>> /\ s = <<>> /\ h = <<>>
  OBVIOUS
<1>3. d \in Seq(Path) /\ x \in Seq(Path) /\ s \in Seq(SymlinkEntries) /\ h \in Seq(HardlinkEntries)
  BY <1>1, <1>2
<1>4. /\ ToSet(d) = {} /\ ToSet(s) = {} /\ ToSet(h) = {} /\ ToSet(Pluck(s)) = {} /\ ToSet(Pluck(h)) = {}
      /\ IsInjective(d) /\ IsInjective(Pluck(s)) /\ IsInjective(Pluck(h))
      /\ ToSet(x) = {p} /\ IsInjective(x)
  BY <1>1, <1>2, OneEntry, Zenon
<1> DEFINE M == N \cup {p}
<1>5. Layout(D, M) /\ D \subseteq D /\ N \subseteq M /\ {p} \subseteq M \ N
  BY <1>1 DEF Layout, Free
<1>6. With(k, f, d, x, s, h)
  BY <1>2 DEF PlusFile, With
<1> HIDE DEF M
<1>7. Placed(d, x, s, h, D, N, D, M) /\ Aliasing(h, ToSet(Pluck(f.files)) \cup ToSet(x))
  BY <1>3, <1>4, <1>5 DEF Placed, Aliasing
<1>8. Fits(k, D, M) /\ ToSet(Pluck(k.files)) = ToSet(Pluck(f.files)) \cup ToSet(x)
  BY <1>6, <1>7, PlusFits
<1> QED
  BY <1>4, <1>8 DEF M

\* One more symlink.
LEMMA PlusSymlinkFits ==
  ASSUME NEW f, NEW D, NEW N, Fits(f, D, N), NEW p, Free(p, D, N), NEW t \in Path, StaysWithin(p, t),
         NEW k, k = PlusSymlink(f, p, t)
  PROVE  Fits(k, D, N \cup {p}) /\ ToSet(Pluck(k.files)) = ToSet(Pluck(f.files))
<1>1. p \in Path /\ Layout(D, N)
  BY DEF Free, Fits
<1>2. PICK e : e = Symlink(p, t)
  OBVIOUS
<1>3. e \in SymlinkEntries /\ e.path = p /\ e.target = t
  BY <1>1, <1>2 DEF Symlink, SymlinkEntries
<1>4. PICK d, x, s, h : d = <<>> /\ x = <<>> /\ s = <<e>> /\ h = <<>>
  OBVIOUS
<1>5. d \in Seq(Path) /\ x \in Seq(Path) /\ s \in Seq(SymlinkEntries) /\ h \in Seq(HardlinkEntries)
  BY <1>3, <1>4
<1>6. /\ ToSet(d) = {} /\ ToSet(x) = {} /\ ToSet(h) = {} /\ ToSet(Pluck(h)) = {}
      /\ IsInjective(d) /\ IsInjective(x) /\ IsInjective(Pluck(h))
      /\ ToSet(s) = {e}
  BY <1>3, <1>4, OneEntry, Zenon
<1>7. ToSet(Pluck(s)) = {p} /\ IsInjective(Pluck(s))
  <2>1. Pluck(s) = <<p>>
    BY <1>3, <1>4, OneEntry, Zenon
  <2> QED
    BY <1>1, <2>1, OneEntry, Zenon
<1> DEFINE M == N \cup {p}
<1>8. Layout(D, M) /\ D \subseteq D /\ N \subseteq M /\ {p} \subseteq M \ N
  BY <1>1 DEF Layout, Free
<1>9. With(k, f, d, x, s, h)
  BY <1>2, <1>4 DEF PlusSymlink, With
<1>10. \A l \in ToSet(s) : StaysWithin(l.path, l.target)
  BY <1>3, <1>6
<1> HIDE DEF M
<1>11. Placed(d, x, s, h, D, N, D, M) /\ Aliasing(h, ToSet(Pluck(f.files)) \cup ToSet(x))
  BY <1>5, <1>6, <1>7, <1>8, <1>10 DEF Placed, Aliasing
<1>12. Fits(k, D, M) /\ ToSet(Pluck(k.files)) = ToSet(Pluck(f.files)) \cup ToSet(x)
  BY <1>9, <1>11, PlusFits
<1> QED
  BY <1>6, <1>12 DEF M

\* One more hardlink, to a file.
LEMMA PlusHardlinkFits ==
  ASSUME NEW f, NEW D, NEW N, Fits(f, D, N), NEW p, Free(p, D, N), NEW t \in ToSet(Pluck(f.files)),
         NEW k, k = PlusHardlink(f, p, t)
  PROVE  Fits(k, D, N \cup {p}) /\ ToSet(Pluck(k.files)) = ToSet(Pluck(f.files))
<1>1. p \in Path /\ Layout(D, N) /\ f \in Blueprints
  BY DEF Free, Fits
<1>2. PICK e : e = Hardlink(p, t)
  OBVIOUS
<1>3. e \in HardlinkEntries /\ e.path = p /\ e.source = t
  <2>1. Pluck(f.files) \in Seq(Path)
    BY <1>1, BlueprintsAreLists DEF Listed
  <2>2. t \in Path
    BY <2>1 DEF ToSet
  <2> QED
    BY <1>1, <1>2, <2>2 DEF Hardlink, HardlinkEntries
<1>4. PICK d, x, s, h : d = <<>> /\ x = <<>> /\ s = <<>> /\ h = <<e>>
  OBVIOUS
<1>5. d \in Seq(Path) /\ x \in Seq(Path) /\ s \in Seq(SymlinkEntries) /\ h \in Seq(HardlinkEntries)
  BY <1>3, <1>4
<1>6. /\ ToSet(d) = {} /\ ToSet(x) = {} /\ ToSet(s) = {} /\ ToSet(Pluck(s)) = {}
      /\ IsInjective(d) /\ IsInjective(x) /\ IsInjective(Pluck(s))
      /\ ToSet(h) = {e}
  BY <1>3, <1>4, OneEntry, Zenon
<1>7. ToSet(Pluck(h)) = {p} /\ IsInjective(Pluck(h))
  <2>1. Pluck(h) = <<p>>
    BY <1>3, <1>4, OneEntry, Zenon
  <2> QED
    BY <1>1, <2>1, OneEntry, Zenon
<1> DEFINE M == N \cup {p}
<1>8. Layout(D, M) /\ D \subseteq D /\ N \subseteq M /\ {p} \subseteq M \ N
  BY <1>1 DEF Layout, Free
<1>9. With(k, f, d, x, s, h)
  BY <1>2, <1>4 DEF PlusHardlink, With
<1>10. \A l \in ToSet(h) : l.source \in ToSet(Pluck(f.files)) \cup ToSet(x)
  BY <1>3, <1>6
<1> HIDE DEF M
<1>11. Placed(d, x, s, h, D, N, D, M) /\ Aliasing(h, ToSet(Pluck(f.files)) \cup ToSet(x))
  BY <1>5, <1>6, <1>7, <1>8, <1>10 DEF Placed, Aliasing
<1>12. Fits(k, D, M) /\ ToSet(Pluck(k.files)) = ToSet(Pluck(f.files)) \cup ToSet(x)
  BY <1>9, <1>11, PlusFits
<1> QED
  BY <1>6, <1>12 DEF M

\* More directories, each in one of the fixture, in another of these or in the root.
FreeDirectories(d, D, N) ==
  /\ d \in Seq(Path) /\ IsInjective(d)
  /\ \A p \in ToSet(d) : p # <<>> /\ p \notin D \cup N /\ Front(p) \in D \cup ToSet(d) \cup {<<>>}

\* A fixture with more directories, each below what is there when it is listed.
LEMMA PlusDirectoriesFits ==
  ASSUME NEW f, NEW D, NEW N, Fits(f, D, N), NEW d, FreeDirectories(d, D, N), NEW k, k = PlusDirectories(f, d)
  PROVE  Fits(k, D \cup ToSet(d), N) /\ ToSet(Pluck(k.files)) = ToSet(Pluck(f.files))
<1>1. Layout(D, N) /\ ToSet(d) \subseteq Path /\ d \in Seq(Path) /\ IsInjective(d)
  BY DEF Fits, ToSet, FreeDirectories
<1>2. PICK x, s, h : x = <<>> /\ s = <<>> /\ h = <<>>
  OBVIOUS
<1>3. x \in Seq(Path) /\ s \in Seq(SymlinkEntries) /\ h \in Seq(HardlinkEntries)
  BY <1>2
<1>4. /\ ToSet(x) = {} /\ ToSet(s) = {} /\ ToSet(h) = {} /\ ToSet(Pluck(s)) = {} /\ ToSet(Pluck(h)) = {}
      /\ IsInjective(x) /\ IsInjective(Pluck(s)) /\ IsInjective(Pluck(h))
  BY <1>2, OneEntry, Zenon
<1> DEFINE M == D \cup ToSet(d)
<1>5. Layout(M, N) /\ D \subseteq M /\ N \subseteq N /\ ToSet(d) \subseteq M \ D
  BY <1>1 DEF Layout, FreeDirectories
<1>6. With(k, f, d, x, s, h)
  BY <1>2 DEF PlusDirectories, With
<1> HIDE DEF M
<1>7. Placed(d, x, s, h, D, N, M, N) /\ Aliasing(h, ToSet(Pluck(f.files)) \cup ToSet(x))
  BY <1>1, <1>3, <1>4, <1>5 DEF Placed, Aliasing
<1>8. Fits(k, M, N) /\ ToSet(Pluck(k.files)) = ToSet(Pluck(f.files)) \cup ToSet(x)
  BY <1>6, <1>7, PlusFits
<1> QED
  BY <1>4, <1>8 DEF M

\* A fixture with other files.
Refilled(k, f, x) == k = [f EXCEPT !.files = x]

\* The same fixture with files of other sizes.
LEMMA Resized ==
  ASSUME NEW f \in Blueprints, NEW x \in Seq(Files), Pluck(x) = Pluck(f.files),
         NEW k, Refilled(k, f, x)
  PROVE  /\ k \in Blueprints
         /\ k.directories = f.directories /\ k.files = x /\ k.symlinks = f.symlinks /\ k.hardlinks = f.hardlinks
         /\ ValidFixture(f) => ValidFixture(k)
         /\ \A D, N : Fits(f, D, N) => Fits(k, D, N)
<1>1. /\ f.directories \in Seq(Path) /\ f.symlinks \in Seq(SymlinkEntries) /\ f.hardlinks \in Seq(HardlinkEntries)
      /\ f = [directories |-> f.directories, files |-> f.files, symlinks |-> f.symlinks, hardlinks |-> f.hardlinks]
  <2>1. f = [directories |-> f.directories, files |-> f.files, symlinks |-> f.symlinks, hardlinks |-> f.hardlinks]
    BY DEF Blueprints
  <2> QED
    BY <2>1, BlueprintsAreLists
<1>2. k.directories = f.directories /\ k.files = x /\ k.symlinks = f.symlinks /\ k.hardlinks = f.hardlinks
  BY <1>1 DEF Refilled
<1>3. k = [directories |-> f.directories, files |-> x, symlinks |-> f.symlinks, hardlinks |-> f.hardlinks]
  BY <1>1 DEF Refilled
<1>4. k \in Blueprints
  <2>1. [directories |-> f.directories, files |-> x, symlinks |-> f.symlinks, hardlinks |-> f.hardlinks] \in Blueprints
    BY <1>1, BlueprintOf
  <2> QED
    BY <1>3, <2>1, Zenon
<1>5. ValidFixture(f) => ValidFixture(k)
  <2> SUFFICES ASSUME ValidFixture(f) PROVE ValidFixture(k)
    OBVIOUS
  <2>1. /\ Part(k.directories, f.directories) /\ Part(Pluck(k.files), Pluck(f.files))
        /\ Part(k.symlinks, f.symlinks) /\ Part(k.hardlinks, f.hardlinks)
    BY <1>2, PartOfItself
  <2>2. \A h \in ToSet(k.hardlinks) : h.source \in ToSet(Pluck(k.files)) \cup ToSet(Pluck(k.symlinks))
    BY <1>2, SourcesOf
  <2> QED
    BY <1>4, <2>1, <2>2, PartIsValid
<1>6. \A D, N : Fits(f, D, N) => Fits(k, D, N)
  BY <1>2, <1>4, <1>5 DEF Fits, NonDirectories
<1> QED
  BY <1>2, <1>4, <1>5, <1>6

\* Names of entries in the root.
TopPaths == {<<a>> : a \in STRING}

\* An entry of the root has a path of one name.
LEMMA TopPathsAre == \A p \in TopPaths : p \in Path /\ p # <<>> /\ Front(p) = <<>>
<1> SUFFICES ASSUME NEW a \in STRING PROVE <<a>> \in Path /\ <<a>> # <<>> /\ Front(<<a>>) = <<>>
  BY DEF TopPaths
<1>1. PICK S : S = STRING
  OBVIOUS
<1>2. <<a>> \in Seq(S)
  BY <1>1, OneOf
<1>3. <<a>> \in Path
  BY <1>1, <1>2 DEF Path
<1>4. Front(<<a>>) = <<>>
  BY DEF Front
<1> QED
  BY <1>3, <1>4

\* Entries of the root only are laid out.
LEMMA TopLayout ==
  ASSUME NEW D \in SUBSET TopPaths, NEW N \in SUBSET TopPaths, D \cap N = {}
  PROVE  Layout(D, N)
  BY TopPathsAre DEF Layout

\* The paths of entries of the root with these names.
Tops(names) == {<<a>> : a \in ToSet(names)}

\* The entries of the root that have these names.
LEMMA TopIs ==
  ASSUME NEW names \in Seq(STRING), IsInjective(names)
  PROVE  /\ Top(names) \in Seq(Path) /\ ToSet(Top(names)) = Tops(names) /\ IsInjective(Top(names))
         /\ Tops(names) \subseteq TopPaths
<1> DEFINE t == Top(names)
<1>1. Len(names) \in Nat /\ DOMAIN names = 1 .. Len(names) /\ \A i \in 1 .. Len(names) : names[i] \in STRING
  OBVIOUS
<1>2. t = [i \in 1 .. Len(names) |-> <<names[i]>>]
  BY <1>1 DEF Top
<1>3. \A i \in 1 .. Len(names) : <<names[i]>> \in Path
  BY <1>1, TopPathsAre DEF TopPaths
<1>4. t \in Seq(Path) /\ DOMAIN t = 1 .. Len(names) /\ \A i \in 1 .. Len(names) : t[i] = <<names[i]>>
  BY <1>1, <1>2, <1>3
<1>5. ToSet(names) = {names[i] : i \in 1 .. Len(names)} /\ ToSet(t) = {t[i] : i \in 1 .. Len(names)}
  BY <1>1, <1>4 DEF ToSet
<1>6. ToSet(t) = Tops(names)
  BY <1>4, <1>5 DEF Tops
<1>7. IsInjective(t)
  <2>1. \A i, j \in 1 .. Len(names) : names[i] = names[j] => i = j
    BY <1>1 DEF IsInjective
  <2>2. ASSUME NEW i \in 1 .. Len(names), NEW j \in 1 .. Len(names), t[i] = t[j] PROVE i = j
    <3>1. <<names[i]>> = <<names[j]>>
      BY <1>4, <2>2
    <3>2. names[i] = names[j]
      BY <3>1
    <3> QED
      BY <2>1, <3>2
  <2> QED
    BY <1>4, <2>2 DEF IsInjective
<1>8. Tops(names) \subseteq TopPaths
  BY <1>1, <1>5 DEF Tops, TopPaths
<1> QED
  BY <1>4, <1>6, <1>7, <1>8 DEF t

\* A fixture of one directory, of files and of symlinks in its root.
LEMMA FlatFits ==
  ASSUME NEW names \in Seq(STRING), IsInjective(names), "dir" \notin ToSet(names),
         NEW s \in Seq(SymlinkEntries), IsInjective(Pluck(s)),
         ToSet(Pluck(s)) \subseteq TopPaths \ ({<<"dir">>} \cup Tops(names)),
         \A l \in ToSet(s) : StaysWithin(l.path, l.target),
         NEW f, f = Tree(Top(<<"dir">>), Top(names), s, <<>>)
  PROVE  Fits(f, {<<"dir">>}, Tops(names) \cup ToSet(Pluck(s))) /\ ToSet(Pluck(f.files)) = Tops(names)
<1> DEFINE D == {<<"dir">>}
           N == Tops(names) \cup ToSet(Pluck(s))
<1>1. PICK d, x, h : d = Top(<<"dir">>) /\ x = Top(names) /\ h = <<>>
  OBVIOUS
<1>2. /\ x \in Seq(Path) /\ ToSet(x) = Tops(names) /\ IsInjective(x)
      /\ Tops(names) \subseteq TopPaths
  BY <1>1, TopIs
<1>3. d \in Seq(Path) /\ ToSet(d) = D /\ IsInjective(d) /\ D \subseteq TopPaths
  <2>1. <<"dir">> \in TopPaths
    BY NamesAssumption DEF TopPaths
  <2>2. d = <<<<"dir">>>>
    BY <1>1 DEF Top
  <2>3. <<"dir">> \in Path
    BY <2>1, TopPathsAre
  <2> QED
    BY <2>1, <2>2, <2>3, OneEntry
<1>4. h \in Seq(HardlinkEntries) /\ ToSet(h) = {} /\ ToSet(Pluck(h)) = {} /\ IsInjective(Pluck(h))
  BY <1>1, NoEntry, Zenon
<1>5. <<"dir">> \notin Tops(names)
  BY DEF Tops
<1>6. Layout(D, N)
  <2>1. D \in SUBSET TopPaths /\ N \in SUBSET TopPaths /\ D \cap N = {}
    BY <1>2, <1>3, <1>5
  <2> HIDE DEF D, N
  <2> QED
    BY <2>1, TopLayout
<1>7. Placed(d, x, s, h, {}, {}, D, N)
  <2>1. /\ ToSet(x) \cap ToSet(Pluck(s)) = {} /\ ToSet(x) \cap ToSet(Pluck(h)) = {}
        /\ ToSet(Pluck(s)) \cap ToSet(Pluck(h)) = {}
    BY <1>2, <1>4
  <2>2. /\ ToSet(d) \subseteq D \ {} /\ ToSet(x) \subseteq N \ {} /\ {} \subseteq D /\ {} \subseteq N
        /\ ToSet(Pluck(s)) \subseteq N \ {} /\ ToSet(Pluck(h)) \subseteq N \ {}
    BY <1>2, <1>3, <1>4
  <2> HIDE DEF D, N
  <2> QED
    BY <1>2, <1>3, <1>4, <1>6, <2>1, <2>2 DEF Placed
<1>8. Aliasing(h, ToSet(x)) /\ f = Tree(d, x, s, h)
  BY <1>1, <1>4 DEF Aliasing
<1> HIDE DEF D, N
<1>9. Fits(f, D, N) /\ ToSet(Pluck(f.files)) = ToSet(x)
  BY <1>7, <1>8, TreeFits
<1> QED
  BY <1>2, <1>9 DEF D, N

\* The same without symlinks, and with one symlink.
LEMMA FlatFilesFit ==
  ASSUME NEW names \in Seq(STRING), IsInjective(names), "dir" \notin ToSet(names),
         NEW f, f = Tree(Top(<<"dir">>), Top(names), <<>>, <<>>)
  PROVE  Fits(f, {<<"dir">>}, Tops(names)) /\ ToSet(Pluck(f.files)) = Tops(names)
<1>1. PICK s : s = <<>>
  OBVIOUS
<1>2. s \in Seq(SymlinkEntries) /\ ToSet(s) = {} /\ ToSet(Pluck(s)) = {} /\ IsInjective(Pluck(s))
  BY <1>1, NoEntry, Zenon
<1>3. f = Tree(Top(<<"dir">>), Top(names), s, <<>>)
  BY <1>1
<1>4. Fits(f, {<<"dir">>}, Tops(names) \cup ToSet(Pluck(s))) /\ ToSet(Pluck(f.files)) = Tops(names)
  BY <1>2, <1>3, FlatFits
<1>5. Tops(names) \cup ToSet(Pluck(s)) = Tops(names)
  BY <1>2
<1> QED
  BY <1>4, <1>5, Zenon

\* A fixture of a directory, files and a link, all in the root.
LEMMA FlatLinkFits ==
  ASSUME NEW names \in Seq(STRING), IsInjective(names), "dir" \notin ToSet(names),
         NEW a \in STRING, NEW b \in STRING, b # Up, a # "dir", a \notin ToSet(names),
         NEW f, f = Tree(Top(<<"dir">>), Top(names), <<Symlink(<<a>>, <<b>>)>>, <<>>)
  PROVE  Fits(f, {<<"dir">>}, Tops(names) \cup {<<a>>}) /\ ToSet(Pluck(f.files)) = Tops(names)
<1>1. PICK e, s : e = Symlink(<<a>>, <<b>>) /\ s = <<e>>
  OBVIOUS
<1>2. e \in SymlinkEntries /\ e.path = <<a>> /\ StaysWithin(e.path, e.target) /\ <<a>> \in TopPaths
  <2>1. <<a>> \in TopPaths /\ <<b>> \in TopPaths
    BY DEF TopPaths
  <2>2. <<a>> \in Path /\ <<b>> \in Path
    BY <2>1, TopPathsAre
  <2>3. StaysWithin(<<a>>, <<b>>)
    BY TopLeads
  <2> QED
    BY <1>1, <2>1, <2>2, <2>3 DEF Symlink, SymlinkEntries
<1>3. s \in Seq(SymlinkEntries) /\ ToSet(s) = {e} /\ ToSet(Pluck(s)) = {<<a>>} /\ IsInjective(Pluck(s))
  <2>1. Pluck(s) = <<e.path>>
    BY <1>1, <1>2, OneEntry, Zenon
  <2> QED
    BY <1>1, <1>2, <2>1, OneEntry, Zenon
<1>4. <<a>> \notin {<<"dir">>} \cup Tops(names)
  BY DEF Tops
<1>5. f = Tree(Top(<<"dir">>), Top(names), s, <<>>)
  BY <1>1
<1>6. ToSet(Pluck(s)) \subseteq TopPaths \ ({<<"dir">>} \cup Tops(names)) /\ \A l \in ToSet(s) : StaysWithin(l.path, l.target)
  BY <1>2, <1>3, <1>4
<1>7. Fits(f, {<<"dir">>}, Tops(names) \cup ToSet(Pluck(s))) /\ ToSet(Pluck(f.files)) = Tops(names)
  BY <1>3, <1>5, <1>6, FlatFits
<1> QED
  BY <1>3, <1>7, Zenon

-----------------------------------------------------------------------------
(* The fixtures that are written out.                                      *)

\* A fixture that can be put on disk.
Sound(f) == f \in Blueprints /\ ValidFixture(f)

\* The fixture without an entry.
LEMMA NoFixtureFits == Fits(NoFixture, {}, {})
<1>1. PICK d, x, s, h : d = <<>> /\ x = <<>> /\ s = <<>> /\ h = <<>>
  OBVIOUS
<1>2. /\ d \in Seq(Path) /\ x \in Seq(Path) /\ s \in Seq(SymlinkEntries) /\ h \in Seq(HardlinkEntries)
      /\ ToSet(d) = {} /\ ToSet(x) = {} /\ ToSet(s) = {} /\ ToSet(h) = {}
      /\ ToSet(Pluck(s)) = {} /\ ToSet(Pluck(h)) = {}
      /\ IsInjective(d) /\ IsInjective(x) /\ IsInjective(Pluck(s)) /\ IsInjective(Pluck(h))
  BY <1>1, NoEntry, Zenon
<1>3. Layout({}, {})
  BY DEF Layout
<1>4. Placed(d, x, s, h, {}, {}, {}, {}) /\ Aliasing(h, ToSet(x))
  BY <1>2, <1>3 DEF Placed, Aliasing
<1>5. NoFixture = Tree(d, x, s, h)
  BY <1>1 DEF NoFixture
<1> QED
  BY <1>4, <1>5, TreeFits

\* The fixture most scenarios have.
LEMMA BasicFits ==
  /\ Fits(BasicFixture, {<<"dir">>}, {<<"a.txt">>, <<"b.txt">>, <<"target.txt">>, <<"a-link">>})
  /\ <<"a.txt">> \in ToSet(Pluck(BasicFixture.files))
<1>1. PICK names : names = <<"a.txt", "b.txt", "target.txt">>
  OBVIOUS
<1>2. names \in Seq(STRING) /\ IsInjective(names) /\ ToSet(names) = {"a.txt", "b.txt", "target.txt"}
  BY <1>1, NamesAssumption DEF IsInjective, ToSet
<1>3. BasicFixture = Tree(Top(<<"dir">>), Top(names), <<Symlink(<<"a-link">>, <<"a.txt">>)>>, <<>>)
  BY <1>1 DEF BasicFixture
<1>4. "a.txt" \in STRING /\ "a-link" \in STRING /\ "a.txt" # Up /\ "a-link" # "dir"
  BY NamesAssumption DEF Up
<1>5. /\ Fits(BasicFixture, {<<"dir">>}, Tops(names) \cup {<<"a-link">>})
      /\ ToSet(Pluck(BasicFixture.files)) = Tops(names)
  BY <1>2, <1>3, <1>4, FlatLinkFits
<1>6. Tops(names) = {<<"a.txt">>, <<"b.txt">>, <<"target.txt">>}
  BY <1>2 DEF Tops
<1>7. Tops(names) \cup {<<"a-link">>} = {<<"a.txt">>, <<"b.txt">>, <<"target.txt">>, <<"a-link">>}
  BY <1>6
<1> QED
  BY <1>5, <1>6, <1>7, Zenon

\* One file of another size.
Sized(k, f, i, n) == k = [f EXCEPT !.files[i].size = n]

\* What is in a file does not matter.
LEMMA SizeSet ==
  ASSUME NEW f \in Blueprints, NEW i \in DOMAIN f.files, NEW n \in Nat, NEW k, Sized(k, f, i, n)
  PROVE  /\ k \in Blueprints /\ k.directories = f.directories
         /\ ValidFixture(f) => ValidFixture(k)
         /\ \A D, N : Fits(f, D, N) => Fits(k, D, N)
<1>1. f.files \in Seq(Files) /\ f = [directories |-> f.directories, files |-> f.files, symlinks |-> f.symlinks, hardlinks |-> f.hardlinks]
  BY BlueprintsAreLists DEF Blueprints
<1>2. DOMAIN f.files = 1 .. Len(f.files) /\ Len(f.files) \in Nat /\ \A j \in 1 .. Len(f.files) : f.files[j] \in Files
  BY <1>1
<1> DEFINE y == [f.files[i] EXCEPT !.size = n]
           x == [f.files EXCEPT ![i] = y]
<1>3. y \in Files /\ y.path = f.files[i].path
  BY <1>2 DEF Files
<1>4. Refilled(k, f, x)
  BY DEF Refilled, Sized
<1> HIDE DEF y
<1>5. x \in Seq(Files) /\ DOMAIN x = 1 .. Len(f.files) /\ \A j \in 1 .. Len(f.files) : x[j].path = f.files[j].path
  <2>1. x \in Seq(Files)
    BY <1>1, <1>3
  <2>2. DOMAIN x = 1 .. Len(f.files) /\ \A j \in 1 .. Len(f.files) : x[j] = IF j = i THEN y ELSE f.files[j]
    BY <1>1, <1>2
  <2> QED
    BY <1>3, <2>1, <2>2
<1>6. Pluck(x) = Pluck(f.files)
  BY <1>2, <1>5 DEF Pluck
<1> HIDE DEF x
<1>7. k.directories = f.directories
  BY <1>1, <1>4 DEF Refilled
<1> QED
  BY <1>4, <1>5, <1>6, <1>7, Resized

\* A file without contents.
LEMMA EmptiedFits ==
  ASSUME NEW f \in Blueprints, NEW k, k = Emptied(f)
  PROVE  /\ k \in Blueprints
         /\ ValidFixture(f) => ValidFixture(k)
         /\ \A D, N : Fits(f, D, N) => Fits(k, D, N)
<1>1. f.files \in Seq(Files) /\ f = [directories |-> f.directories, files |-> f.files, symlinks |-> f.symlinks, hardlinks |-> f.hardlinks]
  BY BlueprintsAreLists DEF Blueprints
<1> DEFINE file(i) == IF f.files[i].path = <<"empty.txt">> THEN File(f.files[i].path, 0) ELSE f.files[i]
           x == [i \in DOMAIN f.files |-> file(i)]
<1>2. Refilled(k, f, x)
  BY Zenon DEF Refilled, Emptied
<1>3. DOMAIN f.files = 1 .. Len(f.files) /\ Len(f.files) \in Nat /\ \A j \in 1 .. Len(f.files) : f.files[j] \in Files
  BY <1>1
<1>4. \A j \in 1 .. Len(f.files) : file(j) \in Files /\ file(j).path = f.files[j].path
  BY <1>3 DEF File, Files
<1>5. x \in Seq(Files) /\ DOMAIN x = 1 .. Len(f.files) /\ \A j \in 1 .. Len(f.files) : x[j].path = f.files[j].path
  <2> HIDE DEF file
  <2> QED
    BY <1>3, <1>4
<1>6. Pluck(x) = Pluck(f.files)
  <2> HIDE DEF x
  <2> QED
    BY <1>3, <1>5 DEF Pluck
<1> HIDE DEF x
<1> QED
  BY <1>2, <1>5, <1>6, Resized

\* A fixture that fits can be put on disk.
LEMMA FitsIsSound == ASSUME NEW f, NEW D, NEW N, Fits(f, D, N) PROVE Sound(f)
  BY DEF Fits, Sound

\* The fixture of line-oriented utilities.
LEMMA LineFits == Sound(LineFixture)
<1>1. PICK names : names = <<"a.txt", "b.txt", "left.txt", "right.txt", "split.txt", "dups.txt",
                             "case.txt", "empty.txt", "payload.bin", "target.txt">>
  OBVIOUS
<1>2. names \in Seq(STRING) /\ IsInjective(names) /\ "dir" \notin ToSet(names) /\ "a-link" \notin ToSet(names)
  BY <1>1, NamesAssumption DEF IsInjective, ToSet
<1>3. PICK f : f = Tree(Top(<<"dir">>), Top(names), <<Symlink(<<"a-link">>, <<"a.txt">>)>>, <<>>)
  OBVIOUS
<1>4. "a.txt" \in STRING /\ "a-link" \in STRING /\ "a.txt" # Up /\ "a-link" # "dir"
  BY NamesAssumption DEF Up
<1>5. Fits(f, {<<"dir">>}, Tops(names) \cup {<<"a-link">>})
  BY <1>2, <1>3, <1>4, FlatLinkFits
<1>6. LineFixture = Emptied(f)
  BY <1>1, <1>3 DEF LineFixture
<1> QED
  BY <1>5, <1>6, FitsIsSound, EmptiedFits DEF Sound

\* The fixture their generators take.
LEMMA GeneratedLineFits ==
  Fits(GeneratedLineFixture, {<<"dir">>},
       {<<"a.txt">>, <<"b.txt">>, <<"split.txt">>, <<"dups.txt">>, <<"case.txt">>, <<"empty.txt">>})
<1>1. PICK names : names = <<"a.txt", "b.txt", "split.txt", "dups.txt", "case.txt", "empty.txt">>
  OBVIOUS
<1>2. names \in Seq(STRING) /\ IsInjective(names) /\ "dir" \notin ToSet(names)
  BY <1>1, NamesAssumption DEF IsInjective, ToSet
<1>3. PICK f : f = Tree(Top(<<"dir">>), Top(names), <<>>, <<>>)
  OBVIOUS
<1>4. Fits(f, {<<"dir">>}, Tops(names))
  BY <1>2, <1>3, FlatFilesFit
<1>5. GeneratedLineFixture = Emptied(f)
  BY <1>1, <1>3 DEF GeneratedLineFixture
<1>6. Tops(names) = {<<"a.txt">>, <<"b.txt">>, <<"split.txt">>, <<"dups.txt">>, <<"case.txt">>, <<"empty.txt">>}
  BY <1>1 DEF Tops, ToSet
<1>7. f \in Blueprints
  BY <1>4 DEF Fits
<1>8. Fits(GeneratedLineFixture, {<<"dir">>}, Tops(names))
  BY <1>4, <1>5, <1>7, EmptiedFits
<1> QED
  BY <1>6, <1>8, Zenon

\* The fixtures of one directory and a few files.
LEMMA FewFilesFit ==
  Sound(CommFixture) /\ Sound(CsplitFixture) /\ Sound(ExpandFixture) /\ Sound(JoinScenarioFixture)
<1>1. ASSUME NEW names \in Seq(STRING), IsInjective(names), "dir" \notin ToSet(names)
      PROVE  Sound(Tree(Top(<<"dir">>), Top(names), <<>>, <<>>)) /\ Sound(Emptied(Tree(Top(<<"dir">>), Top(names), <<>>, <<>>)))
  <2>1. PICK f : f = Tree(Top(<<"dir">>), Top(names), <<>>, <<>>)
    OBVIOUS
  <2>2. Sound(f)
    BY <1>1, <2>1, FlatFilesFit, FitsIsSound
  <2>3. Sound(Emptied(f))
    BY <2>2, EmptiedFits DEF Sound
  <2> QED
    BY <2>1, <2>2, <2>3, Zenon
<1>2. /\ <<"left.txt", "right.txt", "left0.txt", "right0.txt">> \in Seq(STRING)
      /\ IsInjective(<<"left.txt", "right.txt", "left0.txt", "right0.txt">>)
      /\ "dir" \notin ToSet(<<"left.txt", "right.txt", "left0.txt", "right0.txt">>)
  BY NamesAssumption DEF IsInjective, ToSet
<1>3. /\ <<"split.txt", "a.txt">> \in Seq(STRING) /\ IsInjective(<<"split.txt", "a.txt">>)
      /\ "dir" \notin ToSet(<<"split.txt", "a.txt">>)
  BY NamesAssumption DEF IsInjective, ToSet
<1>4. /\ <<"a.txt", "b.txt", "empty.txt">> \in Seq(STRING) /\ IsInjective(<<"a.txt", "b.txt", "empty.txt">>)
      /\ "dir" \notin ToSet(<<"a.txt", "b.txt", "empty.txt">>)
  BY NamesAssumption DEF IsInjective, ToSet
<1>5. <<"left", "right">> \in Seq(STRING) /\ IsInjective(<<"left", "right">>) /\ "dir" \notin ToSet(<<"left", "right">>)
  BY NamesAssumption DEF IsInjective, ToSet
<1> QED
  BY <1>1, <1>2, <1>3, <1>4, <1>5, Zenon DEF CommFixture, CsplitFixture, ExpandFixture, JoinScenarioFixture

\* The fixture of join, whatever is in the file on the left.
LEMMA JoinFits == \A n \in Nat : Sound([JoinFixture EXCEPT !.files[1].size = n])
<1>1. PICK names : names = <<"left", "right", "colon-left", "colon-right", "nul-left", "nul-right", "zero-left",
             "zero-right", "blank-name", "unreadable">>
  OBVIOUS
<1>2. names \in Seq(STRING) /\ IsInjective(names) /\ "dir" \notin ToSet(names) /\ "a:b" \notin ToSet(names)
  BY <1>1, NamesAssumption DEF IsInjective, ToSet
<1>3. JoinFixture = Tree(Top(<<"dir">>), Top(names), <<Symlink(<<"a:b">>, <<"left">>)>>, <<>>)
  BY <1>1 DEF JoinFixture
<1>4. "left" \in STRING /\ "a:b" \in STRING /\ "left" # Up /\ "a:b" # "dir"
  BY NamesAssumption DEF Up
<1>5. Fits(JoinFixture, {<<"dir">>}, Tops(names) \cup {<<"a:b">>})
  BY <1>2, <1>3, <1>4, FlatLinkFits
<1>6. PICK f : f = JoinFixture
  OBVIOUS
<1>7. Sound(f) /\ f.files \in Seq(Files)
  BY <1>5, <1>6, FitsIsSound, BlueprintsAreLists DEF Sound
<1>8. 1 \in DOMAIN f.files
  <2>1. DOMAIN f.files = DOMAIN Top(names)
    BY <1>3, <1>6 DEF Tree
  <2> QED
    BY <1>1, <2>1 DEF Top
<1>9. ASSUME NEW n \in Nat PROVE Sound([f EXCEPT !.files[1].size = n])
  <2>1. PICK k : k = [f EXCEPT !.files[1].size = n]
    OBVIOUS
  <2>2. Sized(k, f, 1, n)
    BY <2>1 DEF Sized
  <2>3. Sound(k)
    BY <1>7, <1>8, <2>2, SizeSet DEF Sound
  <2> QED
    BY <2>1, <2>3, Zenon
<1> QED
  BY <1>6, <1>9, Zenon

\* A list of these paths, each once.
Lists(q, P) == q \in Seq(Path) /\ IsInjective(q) /\ ToSet(q) = P

\* A list of symlinks at these places, each leading nowhere else.
Links(s, P) ==
  /\ s \in Seq(SymlinkEntries) /\ IsInjective(Pluck(s)) /\ ToSet(Pluck(s)) = P
  /\ \A l \in ToSet(s) : StaysWithin(l.path, l.target)

\* A symlink at this place that leads nowhere else.
Link(e, p) == e \in SymlinkEntries /\ e.path = p /\ StaysWithin(e.path, e.target)

\* A link to a place that does not lie outside.
LEMMA LinkIs == ASSUME NEW p \in Path, NEW t \in Path, StaysWithin(p, t) PROVE Link(Symlink(p, t), p)
  BY DEF Link, Symlink, SymlinkEntries

\* A link of the root to an entry of the root.
LEMMA TopLink ==
  ASSUME NEW a \in STRING, NEW b \in STRING, b # Up
  PROVE  Link(Symlink(<<a>>, <<b>>), <<a>>)
<1>1. <<a>> \in Path /\ <<b>> \in Path
  BY TopPathsAre DEF TopPaths
<1>2. StaysWithin(<<a>>, <<b>>)
  BY TopLeads
<1> QED
  BY <1>1, <1>2, LinkIs

\* Symlinks in distinct places.
Sited(s, p, n) ==
  /\ n \in Nat /\ s \in Seq(SymlinkEntries) /\ DOMAIN s = 1 .. n
  /\ \A i \in 1 .. n : Link(s[i], p[i])
  /\ \A i, j \in 1 .. n : p[i] = p[j] => i = j

\* Links at places of their own, all different.
LEMMA LinksAre ==
  ASSUME NEW s, NEW n, NEW p, Sited(s, p, n)
  PROVE  Links(s, {p[i] : i \in 1 .. n})
<1>1. Pluck(s) = [i \in 1 .. n |-> p[i]]
  BY DEF Pluck, Link, Sited
<1>2. IsInjective(Pluck(s)) /\ ToSet(Pluck(s)) = {p[i] : i \in 1 .. n}
  BY <1>1 DEF IsInjective, ToSet, Sited
<1>3. \A l \in ToSet(s) : StaysWithin(l.path, l.target)
  BY DEF ToSet, Link, Sited
<1> QED
  BY <1>2, <1>3 DEF Links, Sited

\* A list of no links.
LEMMA NoLinks == Links(<<>>, {})
  BY NoEntry DEF Links, ToSet, SymlinkEntries

\* Entries of the root and of listed directories, in places of their own.
Apart(A, B, C, D, N) ==
  /\ A \cap B = {} /\ A \cap C = {} /\ B \cap C = {}
  /\ \A p \in A \cup B \cup C : p \in Path /\ p # <<>> /\ p \notin D \cup N /\ Front(p) \in D \cup A \cup {<<>>}

\* Directories, files and links that are apart from what there is fit to it.
LEMMA ApartPlaced ==
  ASSUME NEW A, NEW B, NEW C, NEW D, NEW N, Layout(D, N), Apart(A, B, C, D, N),
         NEW d, NEW x, NEW s, Lists(d, A), Lists(x, B), Links(s, C), NEW h, h = <<>>
  PROVE  Placed(d, x, s, h, D, N, D \cup A, N \cup B \cup C)
<1> DEFINE M == D \cup A
           O == N \cup B \cup C
<1>1. h \in Seq(HardlinkEntries) /\ ToSet(h) = {} /\ ToSet(Pluck(h)) = {} /\ IsInjective(Pluck(h))
  BY NoEntry, Zenon
<1>2. Layout(M, O)
  <2>1. M \subseteq Path \ {<<>>} /\ O \subseteq Path \ {<<>>} /\ M \cap O = {}
    BY DEF Layout, Apart
  <2>2. \A p \in M \cup O : Front(p) \in M \cup {<<>>}
    BY DEF Layout, Apart
  <2> QED
    BY <2>1, <2>2 DEF Layout
<1>3. /\ D \subseteq M /\ N \subseteq O /\ A \subseteq M \ D /\ B \subseteq O \ N /\ C \subseteq O \ N
  BY DEF Apart
<1>4. B \cap C = {}
  BY DEF Apart
<1> HIDE DEF M, O
<1>5. Placed(d, x, s, h, D, N, M, O)
  BY <1>1, <1>2, <1>3, <1>4 DEF Placed, Lists, Links
<1> QED
  BY <1>5 DEF M, O

\* A fixture with these directories, files and links more.
Enlarged(k, f, d, x, s) == k = Plus(f, Tree(d, x, s, <<>>))

\* A fixture with these entries, and one of these entries alone.
LEMMA PlusApartFits ==
  ASSUME NEW f, NEW A, NEW B, NEW C, NEW D, NEW N, Fits(f, D, N), Apart(A, B, C, D, N),
         NEW d, NEW x, NEW s, Lists(d, A), Lists(x, B), Links(s, C),
         NEW k, Enlarged(k, f, d, x, s)
  PROVE  Fits(k, D \cup A, N \cup B \cup C) /\ ToSet(Pluck(k.files)) = ToSet(Pluck(f.files)) \cup B
<1>1. PICK h : h = <<>>
  OBVIOUS
<1>2. PICK M, O : M = D \cup A /\ O = N \cup B \cup C
  OBVIOUS
<1>3. Placed(d, x, s, h, D, N, M, O)
  <2>1. Layout(D, N)
    BY DEF Fits
  <2> QED
    BY <1>1, <1>2, <2>1, ApartPlaced
<1>4. Aliasing(h, ToSet(Pluck(f.files)) \cup ToSet(x))
  BY <1>1, NoEntry DEF Aliasing
<1>5. With(k, f, d, x, s, h)
  BY <1>1 DEF Enlarged, With
<1>6. Fits(k, M, O) /\ ToSet(Pluck(k.files)) = ToSet(Pluck(f.files)) \cup ToSet(x)
  BY <1>3, <1>4, <1>5, PlusFits
<1> QED
  BY <1>2, <1>6 DEF Lists

\* The same for a fixture of nothing else.
LEMMA ApartFits ==
  ASSUME NEW A, NEW B, NEW C, Apart(A, B, C, {}, {}),
         NEW d, NEW x, NEW s, Lists(d, A), Lists(x, B), Links(s, C),
         NEW k, k = Tree(d, x, s, <<>>)
  PROVE  Fits(k, A, B \cup C) /\ ToSet(Pluck(k.files)) = B
<1>1. PICK h : h = <<>>
  OBVIOUS
<1>2. PICK N : N = B \cup C
  OBVIOUS
<1>3. Placed(d, x, s, h, {}, {}, A, N)
  <2>1. Layout({}, {})
    BY DEF Layout
  <2>2. PICK D, M : D = {} /\ M = {}
    OBVIOUS
  <2>3. Placed(d, x, s, h, D, M, D \cup A, M \cup B \cup C)
    BY <1>1, <2>1, <2>2, ApartPlaced
  <2>4. D \cup A = A /\ M \cup B \cup C = N
    BY <1>2, <2>2
  <2> QED
    BY <2>2, <2>3, <2>4
<1>4. Aliasing(h, ToSet(x))
  BY <1>1, NoEntry DEF Aliasing
<1>5. k = Tree(d, x, s, h)
  BY <1>1
<1>6. Fits(k, A, N) /\ ToSet(Pluck(k.files)) = ToSet(x)
  BY <1>3, <1>4, <1>5, TreeFits
<1> QED
  BY <1>2, <1>6 DEF Lists

\* What a path of two names is below.
LEMMA FrontOfTwo ==
  ASSUME NEW S, NEW a \in S, NEW b \in S
  PROVE  <<a, b>> \in Seq(S) /\ <<a, b>> # <<>> /\ Front(<<a, b>>) = <<a>>
<1>1. PICK s, t : s = <<a, b>> /\ t = <<a>>
  OBVIOUS
<1>2. s \in Seq(S) /\ Len(s) = 2 /\ s[1] = a /\ t \in Seq(S) /\ Len(t) = 1 /\ t[1] = a /\ s # <<>>
  BY <1>1
<1>3. Front(s) \in Seq(S) /\ Len(Front(s)) = 1 /\ Front(s)[1] = a
  <2>1. Front(s) \in Seq(S) /\ Len(Front(s)) = Len(s) - 1 /\ \A i \in 1 .. Len(s) - 1 : Front(s)[i] = s[i]
    BY <1>2, FrontIs
  <2> QED
    BY <1>2, <2>1
<1>4. Front(s) = t
  BY <1>2, <1>3
<1> QED
  BY <1>1, <1>2, <1>4

\* What a path of three names is below.
LEMMA FrontOfThree ==
  ASSUME NEW S, NEW a \in S, NEW b \in S, NEW c \in S
  PROVE  <<a, b, c>> \in Seq(S) /\ <<a, b, c>> # <<>> /\ Front(<<a, b, c>>) = <<a, b>>
<1>1. PICK s, t : s = <<a, b, c>> /\ t = <<a, b>>
  OBVIOUS
<1>2. /\ s \in Seq(S) /\ Len(s) = 3 /\ s[1] = a /\ s[2] = b
      /\ t \in Seq(S) /\ Len(t) = 2 /\ t[1] = a /\ t[2] = b /\ s # <<>>
  BY <1>1
<1>3. Front(s) \in Seq(S) /\ Len(Front(s)) = 2 /\ Front(s)[1] = a /\ Front(s)[2] = b
  <2>1. Front(s) \in Seq(S) /\ Len(Front(s)) = Len(s) - 1 /\ \A i \in 1 .. Len(s) - 1 : Front(s)[i] = s[i]
    BY <1>2, FrontIs
  <2> QED
    BY <1>2, <2>1
<1>4. Front(s) = t
  BY <1>2, <1>3
<1> QED
  BY <1>1, <1>2, <1>4

\* Places one or two names below the root.
LEMMA Below ==
  ASSUME NEW a \in STRING
  PROVE  /\ <<a>> \in Path /\ <<a>> # <<>> /\ Front(<<a>>) = <<>>
         /\ \A b \in STRING : <<a, b>> \in Path /\ <<a, b>> # <<>> /\ Front(<<a, b>>) = <<a>>
         /\ \A b, c \in STRING : <<a, b, c>> \in Path /\ <<a, b, c>> # <<>> /\ Front(<<a, b, c>>) = <<a, b>>
<1>1. <<a>> \in Path /\ <<a>> # <<>> /\ Front(<<a>>) = <<>>
  BY TopPathsAre DEF TopPaths
<1>2. PICK S : S = STRING
  OBVIOUS
<1>3. ASSUME NEW b \in STRING PROVE <<a, b>> \in Path /\ <<a, b>> # <<>> /\ Front(<<a, b>>) = <<a>>
  <2>1. a \in S /\ b \in S /\ Path = Seq(S)
    BY <1>2 DEF Path
  <2> HIDE <1>2
  <2>2. <<a, b>> \in Seq(S) /\ <<a, b>> # <<>> /\ Front(<<a, b>>) = <<a>>
    BY <2>1, FrontOfTwo
  <2> QED
    BY <2>1, <2>2
<1>4. ASSUME NEW b \in STRING, NEW c \in STRING
      PROVE  <<a, b, c>> \in Path /\ <<a, b, c>> # <<>> /\ Front(<<a, b, c>>) = <<a, b>>
  <2>1. a \in S /\ b \in S /\ c \in S /\ Path = Seq(S)
    BY <1>2 DEF Path
  <2> HIDE <1>2
  <2>2. <<a, b, c>> \in Seq(S) /\ <<a, b, c>> # <<>> /\ Front(<<a, b, c>>) = <<a, b>>
    BY <2>1, FrontOfThree
  <2> QED
    BY <2>1, <2>2
<1> QED
  BY <1>1, <1>3, <1>4

\* A list of one path.
LEMMA OneListed == ASSUME NEW p \in Path PROVE Lists(<<p>>, {p})
  BY OneEntry DEF Lists

\* A list of no path.
LEMMA NoneListed == Lists(<<>>, {})
  BY NoEntry DEF Lists

\* The places of the fixture for failures.
FailureD == {<<"dir">>, <<"occupied">>}
FailureN ==
  {<<"a.txt">>, <<"b.txt">>, <<"target.txt">>, <<"a-link">>, <<"occupied", "child">>,
   <<"dir-link">>, <<"loop">>, <<"dangling">>}

\* The fixture in which operations fail.
LEMMA FailureFits ==
  /\ Fits(FailureFixture, FailureD, FailureN)
  /\ <<"a.txt">> \in ToSet(Pluck(FailureFixture.files))
<1>0. /\ "occupied" \in STRING /\ "child" \in STRING /\ "dir-link" \in STRING /\ "loop" \in STRING
      /\ "dangling" \in STRING /\ "missing" \in STRING /\ "dir" \in STRING
  BY NamesAssumption
<1>1. PICK D, N : D = {<<"dir">>} /\ N = {<<"a.txt">>, <<"b.txt">>, <<"target.txt">>, <<"a-link">>}
  OBVIOUS
<1>2. Fits(BasicFixture, D, N) /\ <<"a.txt">> \in ToSet(Pluck(BasicFixture.files))
  BY <1>1, BasicFits
<1>3. PICK d, x, A, B, C :
        /\ d = <<<<"occupied">>>> /\ x = <<<<"occupied", "child">>>>
        /\ A = {<<"occupied">>} /\ B = {<<"occupied", "child">>}
        /\ C = {<<"dir-link">>, <<"loop">>, <<"dangling">>}
  OBVIOUS
<1>4. PICK s : s = <<Symlink(<<"dir-link">>, <<"dir">>), Symlink(<<"loop">>, <<"loop">>),
                     Symlink(<<"dangling">>, <<"missing">>)>>
  OBVIOUS
<1>5. Lists(d, A) /\ Lists(x, B)
  <2>1. <<"occupied">> \in Path /\ <<"occupied", "child">> \in Path
    BY <1>0, Below
  <2> QED
    BY <1>3, <2>1, OneListed
<1>6. Links(s, C)
  <2>1. PICK p : p = <<<<"dir-link">>, <<"loop">>, <<"dangling">>>>
    OBVIOUS
  <2>2. Link(s[1], p[1]) /\ Link(s[2], p[2]) /\ Link(s[3], p[3])
    BY <1>4, <2>1, TopLink, NamesAssumption DEF Up
  <2>3. DOMAIN s = 1 .. 3 /\ s \in Seq(SymlinkEntries)
    BY <1>4, <2>2 DEF Link
  <2>4. \A i \in 1 .. 3 : Link(s[i], p[i])
    BY <2>2
  <2>7. \A i, j \in 1 .. 3 : p[i] = p[j] => i = j
    BY <2>1
  <2>8. PICK n \in Nat : n = 3
    OBVIOUS
  <2>5. Links(s, {p[i] : i \in 1 .. n})
    <3>1. Sited(s, p, n)
      BY <2>3, <2>4, <2>7, <2>8 DEF Sited
    <3> QED
      BY <3>1, LinksAre
  <2>6. {p[i] : i \in 1 .. n} = C
    BY <1>3, <2>1, <2>8
  <2> QED
    BY <2>5, <2>6
<1>7. Apart(A, B, C, D, N)
  <2>1. /\ \A p \in A \cup C : p \in Path /\ p # <<>> /\ Front(p) = <<>>
        /\ \A p \in B : p \in Path /\ p # <<>> /\ Front(p) = <<"occupied">>
    BY <1>0, <1>3, Below
  <2>2. A \cap B = {} /\ A \cap C = {} /\ B \cap C = {} /\ (A \cup B \cup C) \cap (D \cup N) = {} /\ <<"occupied">> \in A
    BY <1>1, <1>3
  <2> QED
    BY <2>1, <2>2 DEF Apart
<1>8. PICK f, k : f = BasicFixture /\ k = FailureFixture
  OBVIOUS
<1>9. Enlarged(k, f, d, x, s)
  BY <1>3, <1>4, <1>8 DEF FailureFixture, Enlarged
<1>10. Fits(k, D \cup A, N \cup B \cup C) /\ ToSet(Pluck(k.files)) = ToSet(Pluck(f.files)) \cup B
  <2>1. Fits(f, D, N)
    BY <1>2, <1>8
  <2> QED
    BY <1>5, <1>6, <1>7, <1>9, <2>1, PlusApartFits
<1>11. D \cup A = FailureD /\ N \cup B \cup C = FailureN
  BY <1>1, <1>3 DEF FailureD, FailureN
<1> QED
  BY <1>2, <1>8, <1>10, <1>11

\* One more entry in the root.
LEMMA OneMore ==
  ASSUME NEW f, NEW D, NEW N, Fits(f, D, N), NEW a \in STRING, <<a>> \notin D \cup N
  PROVE  /\ Fits(PlusFile(f, <<a>>), D, N \cup {<<a>>})
         /\ \A b \in STRING \ {Up} : Fits(PlusSymlink(f, <<a>>, <<b>>), D, N \cup {<<a>>})
         /\ \A t \in ToSet(Pluck(f.files)) : Fits(PlusHardlink(f, <<a>>, t), D, N \cup {<<a>>})
         /\ Fits(PlusDirectories(f, <<<<a>>>>), D \cup {<<a>>}, N)
<1>1. PICK p : p = <<a>>
  OBVIOUS
<1>2. p \in Path /\ p # <<>> /\ Front(p) = <<>>
  BY <1>1, Below
<1>3. Free(p, D, N)
  BY <1>1, <1>2 DEF Free
<1>4. Fits(PlusFile(f, p), D, N \cup {p})
  BY <1>3, PlusFileFits
<1>5. ASSUME NEW b \in STRING \ {Up} PROVE Fits(PlusSymlink(f, p, <<b>>), D, N \cup {p})
  <2>1. <<b>> \in Path /\ StaysWithin(p, <<b>>)
    BY <1>1, Below, TopLeads
  <2> QED
    BY <1>3, <2>1, PlusSymlinkFits
<1>6. ASSUME NEW t \in ToSet(Pluck(f.files)) PROVE Fits(PlusHardlink(f, p, t), D, N \cup {p})
  BY <1>3, PlusHardlinkFits
<1>7. Fits(PlusDirectories(f, <<p>>), D \cup {p}, N)
  <2>1. PICK d : d = <<p>>
    OBVIOUS
  <2>2. d \in Seq(Path) /\ IsInjective(d) /\ ToSet(d) = {p}
    BY <1>2, <2>1, OneEntry
  <2>3. FreeDirectories(d, D, N)
    BY <1>3, <2>2 DEF FreeDirectories, Free
  <2>4. Fits(PlusDirectories(f, d), D \cup ToSet(d), N)
    BY <2>3, PlusDirectoriesFits
  <2> QED
    BY <2>1, <2>2, <2>4
<1> QED
  BY <1>1, <1>4, <1>5, <1>6, <1>7

\* One more entry in a directory of the root.
LEMMA OneBelow ==
  ASSUME NEW f, NEW D, NEW N, Fits(f, D, N), NEW a \in STRING, NEW b \in STRING, <<a>> \in D, <<a, b>> \notin D \cup N
  PROVE  /\ Fits(PlusFile(f, <<a, b>>), D, N \cup {<<a, b>>})
         /\ \A t \in ToSet(Pluck(f.files)) : Fits(PlusHardlink(f, <<a, b>>, t), D, N \cup {<<a, b>>})
         /\ Fits(PlusDirectories(f, <<<<a, b>>>>), D \cup {<<a, b>>}, N)
         /\ \A t \in Path \ {<<>>} : a \notin {Up, Here} /\ b \notin {Up, Here} /\ (\A i \in 1 .. Len(t) : t[i] = Up => i <= 1)
              => Fits(PlusSymlink(f, <<a, b>>, t), D, N \cup {<<a, b>>})
<1>1. PICK p : p = <<a, b>>
  OBVIOUS
<1>2. p \in Path /\ p # <<>> /\ Front(p) = <<a>>
  BY <1>1, Below
<1>3. Free(p, D, N)
  BY <1>1, <1>2 DEF Free
<1>4. Fits(PlusFile(f, p), D, N \cup {p})
  BY <1>3, PlusFileFits
<1>5. ASSUME NEW t \in Path \ {<<>>}, a \notin {Up, Here}, b \notin {Up, Here}, \A i \in 1 .. Len(t) : t[i] = Up => i <= 1
      PROVE  Fits(PlusSymlink(f, p, t), D, N \cup {p})
  <2>1. Len(p) = 2 /\ p[1] = a /\ p[2] = b
    BY <1>1
  <2>2. PICK k : k = 1
    OBVIOUS
  <2>3. k \in 0 .. Len(p) - 1 /\ (\A i \in 1 .. Len(p) : p[i] \notin {Up, Here}) /\ \A i \in 1 .. Len(t) : t[i] = Up => i <= k
    <3>1. k \in 0 .. Len(p) - 1
      BY <2>1, <2>2
    <3>2. \A i \in 1 .. Len(p) : p[i] \notin {Up, Here}
      <4>1. \A i \in 1 .. Len(p) : i = 1 \/ i = 2
        BY <2>1
      <4> QED
        BY <1>5, <2>1, <4>1
    <3>3. \A i \in 1 .. Len(t) : t[i] = Up => i <= k
      BY <1>5, <2>2
    <3> QED
      BY <3>1, <3>2, <3>3
  <2>4. StaysWithin(p, t)
    BY <1>2, <2>3, Leads
  <2> QED
    BY <1>3, <2>4, PlusSymlinkFits
<1>6. ASSUME NEW t \in ToSet(Pluck(f.files)) PROVE Fits(PlusHardlink(f, p, t), D, N \cup {p})
  BY <1>3, PlusHardlinkFits
<1>7. Fits(PlusDirectories(f, <<p>>), D \cup {p}, N)
  <2>1. PICK d : d = <<p>>
    OBVIOUS
  <2>2. d \in Seq(Path) /\ IsInjective(d) /\ ToSet(d) = {p}
    BY <1>2, <2>1, OneEntry
  <2>3. FreeDirectories(d, D, N)
    BY <1>2, <1>3, <2>2 DEF FreeDirectories, Free
  <2>4. Fits(PlusDirectories(f, d), D \cup ToSet(d), N)
    BY <2>3, PlusDirectoriesFits
  <2> QED
    BY <2>1, <2>2, <2>4
<1> QED
  BY <1>1, <1>4, <1>5, <1>6, <1>7

\* The places of the basic fixture.
BasicD == {<<"dir">>}
BasicN == {<<"a.txt">>, <<"b.txt">>, <<"target.txt">>, <<"a-link">>}

\* What scenarios add to the basic fixture.
LEMMA BasicMore ==
  /\ Sound(BasicFixture)
  /\ Sound(PlusFile(BasicFixture, <<"--help">>))
  /\ Sound(PlusHardlink(BasicFixture, Alias, AText))
  /\ Sound(PlusDirectories(BasicFixture, <<Blocked>>))
  /\ Sound(PlusSymlink(BasicFixture, <<"slink">>, <<Here>>))
  /\ Sound(PlusSymlink(BasicFixture, <<"dangling">>, <<"absent">>))
  /\ Sound(PlusSymlink(BasicFixture, <<"dangling">>, <<"missing.txt">>))
  /\ Sound(PlusFile(PlusDirectories(BasicFixture, <<Blocked>>), <<"blocked", "target">>))
<1>0. /\ "--help" \in STRING /\ "alias" \in STRING /\ "blocked" \in STRING /\ "slink" \in STRING
      /\ "dangling" \in STRING /\ "absent" \in STRING /\ "missing.txt" \in STRING /\ "target" \in STRING
      /\ Here \in STRING \ {Up} /\ "absent" # Up /\ "missing.txt" # Up
  BY NamesAssumption DEF Up, Here
<1>1. PICK f : f = BasicFixture
  OBVIOUS
<1>2. PICK D, N : D = BasicD /\ N = BasicN
  OBVIOUS
<1>3. Fits(f, D, N) /\ AText \in ToSet(Pluck(f.files))
  BY <1>1, <1>2, BasicFits DEF BasicD, BasicN, AText
<1>4. <<"--help">> \notin D \cup N /\ Alias \notin D \cup N /\ Blocked \notin D \cup N /\ <<"slink">> \notin D \cup N /\ <<"dangling">> \notin D \cup N
  BY <1>2 DEF BasicD, BasicN, Alias, Blocked
<1>5. Sound(f)
  BY <1>3, FitsIsSound
<1>6. Sound(PlusFile(f, <<"--help">>))
  BY <1>0, <1>3, <1>4, OneMore, FitsIsSound
<1>7. Sound(PlusHardlink(f, Alias, AText))
  BY <1>0, <1>3, <1>4, OneMore, FitsIsSound DEF Alias
<1>8. Fits(PlusDirectories(f, <<Blocked>>), D \cup {Blocked}, N)
  BY <1>0, <1>3, <1>4, OneMore DEF Blocked
<1>9. Sound(PlusSymlink(f, <<"slink">>, <<Here>>))
  BY <1>0, <1>3, <1>4, OneMore, FitsIsSound
<1>10. Sound(PlusSymlink(f, <<"dangling">>, <<"absent">>)) /\ Sound(PlusSymlink(f, <<"dangling">>, <<"missing.txt">>))
  BY <1>0, <1>3, <1>4, OneMore, FitsIsSound
<1>11. Sound(PlusFile(PlusDirectories(f, <<Blocked>>), <<"blocked", "target">>))
  <2>1. PICK k, M : k = PlusDirectories(f, <<Blocked>>) /\ M = D \cup {Blocked}
    OBVIOUS
  <2>2. <<"blocked">> \in M /\ <<"blocked", "target">> \notin M \cup N
    BY <1>2, <2>1 DEF BasicD, BasicN, Blocked
  <2>3. Fits(k, M, N)
    BY <1>8, <2>1
  <2>4. Fits(PlusFile(k, <<"blocked", "target">>), M, N \cup {<<"blocked", "target">>})
    BY <1>0, <2>2, <2>3, OneBelow
  <2> QED
    BY <2>1, <2>4, FitsIsSound
<1> QED
  BY <1>1, <1>5, <1>6, <1>7, <1>8, <1>9, <1>10, <1>11, FitsIsSound

\* What scenarios add to the fixture for failures.
LEMMA FailureMore ==
  /\ Sound(FailureFixture)
  /\ Fits(PlusHardlink(FailureFixture, Alias, AText), FailureD, FailureN \cup {Alias})
  /\ Sound(PlusFile(PlusDirectories(FailureFixture, <<Blocked>>), <<"blocked", "keep">>))
  /\ Sound(PlusDirectories(FailureFixture, <<<<"unreadable">>>>))
  /\ Sound(PlusFile(FailureFixture, <<"--help">>))
  /\ Sound(PlusSymlink(FailureFixture, <<"occupied", "link">>, <<Up, "a.txt">>))
<1>0. /\ "--help" \in STRING /\ "alias" \in STRING /\ "blocked" \in STRING /\ "unreadable" \in STRING
      /\ "keep" \in STRING /\ "occupied" \in STRING /\ "link" \in STRING /\ "a.txt" \in STRING /\ Up \in STRING
      /\ "occupied" \notin {Up, Here} /\ "link" \notin {Up, Here} /\ "a.txt" # Up
  BY NamesAssumption DEF Up, Here
<1>1. PICK f : f = FailureFixture
  OBVIOUS
<1>2. PICK D, N : D = FailureD /\ N = FailureN
  OBVIOUS
<1>3. Fits(f, D, N) /\ AText \in ToSet(Pluck(f.files))
  BY <1>1, <1>2, FailureFits DEF AText
<1>4. <<"--help">> \notin D \cup N /\ Alias \notin D \cup N /\ Blocked \notin D \cup N /\ <<"unreadable">> \notin D \cup N
  BY <1>2 DEF FailureD, FailureN, Alias, Blocked
<1>5. Sound(f)
  BY <1>3, FitsIsSound
<1>6. Sound(PlusFile(f, <<"--help">>))
  BY <1>0, <1>3, <1>4, OneMore, FitsIsSound
<1>7. Fits(PlusHardlink(f, Alias, AText), D, N \cup {Alias})
  BY <1>0, <1>3, <1>4, OneMore DEF Alias
<1>8. Fits(PlusDirectories(f, <<Blocked>>), D \cup {Blocked}, N)
  BY <1>0, <1>3, <1>4, OneMore DEF Blocked
<1>9. Sound(PlusDirectories(f, <<<<"unreadable">>>>))
  BY <1>0, <1>3, <1>4, OneMore, FitsIsSound
<1>10. Sound(PlusFile(PlusDirectories(f, <<Blocked>>), <<"blocked", "keep">>))
  <2>1. PICK k, M : k = PlusDirectories(f, <<Blocked>>) /\ M = D \cup {Blocked}
    OBVIOUS
  <2>2. <<"blocked">> \in M /\ <<"blocked", "keep">> \notin M \cup N
    BY <1>2, <2>1 DEF FailureD, FailureN, Blocked
  <2>3. Fits(k, M, N)
    BY <1>8, <2>1
  <2>4. Fits(PlusFile(k, <<"blocked", "keep">>), M, N \cup {<<"blocked", "keep">>})
    BY <1>0, <2>2, <2>3, OneBelow
  <2> QED
    BY <2>1, <2>4, FitsIsSound
<1>11. Sound(PlusSymlink(f, <<"occupied", "link">>, <<Up, "a.txt">>))
  <2>1. <<"occupied">> \in D /\ <<"occupied", "link">> \notin D \cup N
    BY <1>2 DEF FailureD, FailureN
  <2>2. PICK t : t = <<Up, "a.txt">>
    OBVIOUS
  <2>3. t \in Path \ {<<>>} /\ \A i \in 1 .. Len(t) : t[i] = Up => i <= 1
    <3>1. t \in Path \ {<<>>}
      BY <1>0, <2>2, Below
    <3>2. Len(t) = 2 /\ t[2] = "a.txt"
      BY <2>2
    <3> QED
      BY <1>0, <3>1, <3>2
  <2>4. Fits(PlusSymlink(f, <<"occupied", "link">>, t), D, N \cup {<<"occupied", "link">>})
    BY <1>0, <1>3, <2>1, <2>3, OneBelow
  <2> QED
    BY <2>2, <2>4, FitsIsSound
<1> QED
  BY <1>1, <1>2, <1>5, <1>6, <1>7, <1>8, <1>9, <1>10, <1>11, FitsIsSound

\* The fixture of truncate.
LEMMA TruncateFits == Sound(TruncateFixture)
  BY FailureMore, FitsIsSound, Zenon DEF TruncateFixture, Alias, AText

\* One file of another size, in a fixture that can be put on disk.
LEMMA SizedIsSound ==
  ASSUME NEW f, Sound(f), NEW i \in DOMAIN f.files, NEW n \in Nat, NEW k, Sized(k, f, i, n)
  PROVE  Sound(k)
  BY SizeSet DEF Sound

\* The fixture of tsort, whatever its graph is.
LEMMA TsortFits == ASSUME NEW n \in Nat PROVE Sound(TsortFixture(n))
<1>1. PICK f, D, N : f = FailureFixture /\ D = FailureD /\ N = FailureN
  OBVIOUS
<1>2. "denied" \in STRING /\ "graph" \in STRING
  BY NamesAssumption
<1>3. PICK g, M : g = PlusFile(f, <<"denied">>) /\ M = N \cup {<<"denied">>}
  OBVIOUS
<1>4. Fits(g, D, M)
  <2>1. Fits(f, D, N) /\ <<"denied">> \notin D \cup N
    BY <1>1, FailureFits DEF FailureD, FailureN
  <2> QED
    BY <1>2, <1>3, <2>1, OneMore
<1>5. PICK h : h = PlusFile(g, <<"graph">>)
  OBVIOUS
<1>6. Fits(h, D, M \cup {<<"graph">>}) /\ <<"graph">> \in ToSet(Pluck(h.files))
  <2>1. <<"graph">> \notin D \cup M /\ <<"graph">> \in Path /\ <<"graph">> # <<>> /\ Front(<<"graph">>) = <<>>
    BY <1>1, <1>2, <1>3, Below DEF FailureD, FailureN
  <2>2. Free(<<"graph">>, D, M)
    BY <2>1 DEF Free
  <2> QED
    BY <1>4, <1>5, <2>2, PlusFileFits
<1>7. Sound(h)
  BY <1>6, FitsIsSound
<1>8. Len(h.files) \in DOMAIN h.files
  <2>1. h.files \in Seq(Files) /\ h.files # <<>>
    <3>1. h.files \in Seq(Files)
      BY <1>7, BlueprintsAreLists DEF Sound
    <3>2. ASSUME h.files = <<>> PROVE FALSE
      BY <1>6, <3>2, NoEntry
    <3> QED
      BY <3>1, <3>2
  <2> QED
    BY <2>1
<1>9. PICK k : k = [h EXCEPT !.files[Len(h.files)].size = n]
  OBVIOUS
<1>10. Sized(k, h, Len(h.files), n)
  BY <1>9 DEF Sized
<1>11. Sound(k)
  BY <1>7, <1>8, <1>10, SizedIsSound
<1>12. k = TsortFixture(n)
  BY <1>1, <1>3, <1>5, <1>9, Zenon DEF TsortFixture
<1> QED
  BY <1>11, <1>12

\* The fixture of cut.
LEMMA CutFits == Sound(CutFixture)
<1>1. PICK f, D, N : f = GeneratedLineFixture /\ D = {<<"dir">>} /\
        N = {<<"a.txt">>, <<"b.txt">>, <<"split.txt">>, <<"dups.txt">>, <<"case.txt">>, <<"empty.txt">>}
  OBVIOUS
<1>2. Fits(f, D, N) /\ <<"nul.txt">> \notin D \cup N /\ "nul.txt" \in STRING
  BY <1>1, GeneratedLineFits, NamesAssumption
<1>3. Sound(PlusFile(f, <<"nul.txt">>))
  BY <1>2, OneMore, FitsIsSound
<1> QED
  BY <1>1, <1>3 DEF CutFixture

\* Two links to one another: neither has to lead to anything.
LEMMA MvLoopFits == Sound(MvLoopFixture)
<1>1. "loop-a" \in STRING /\ "loop-b" \in STRING /\ "loop-a" # Up /\ "loop-b" # Up
  BY NamesAssumption DEF Up
<1>2. PICK f, D, N : f = NoFixture /\ D = {} /\ N = {}
  OBVIOUS
<1>3. PICK g, M : g = PlusSymlink(f, <<"loop-a">>, <<"loop-b">>) /\ M = N \cup {<<"loop-a">>}
  OBVIOUS
<1>4. Fits(g, D, M)
  <2>1. Fits(f, D, N) /\ <<"loop-a">> \notin D \cup N
    BY <1>2, NoFixtureFits
  <2> QED
    BY <1>1, <1>3, <2>1, OneMore
<1>5. Sound(PlusSymlink(g, <<"loop-b">>, <<"loop-a">>))
  <2>1. <<"loop-b">> \notin D \cup M
    BY <1>2, <1>3
  <2> QED
    BY <1>1, <1>4, <2>1, OneMore, FitsIsSound
<1> QED
  BY <1>2, <1>3, <1>5, Zenon DEF MvLoopFixture

\* Directories and files without links.
LEMMA PlainFits ==
  ASSUME NEW A, NEW B, Apart(A, B, {}, {}, {}), NEW d, NEW x, Lists(d, A), Lists(x, B)
  PROVE  Sound(Tree(d, x, <<>>, <<>>))
<1>1. PICK s, C : s = <<>> /\ C = {}
  OBVIOUS
<1>2. Links(s, C) /\ Apart(A, B, C, {}, {})
  BY <1>1, NoLinks
<1>3. PICK k : k = Tree(d, x, s, <<>>)
  OBVIOUS
<1>4. Fits(k, A, B \cup C)
  BY <1>2, <1>3, ApartFits
<1> QED
  BY <1>1, <1>3, <1>4, FitsIsSound, Zenon

\* A directory in another.
LEMMA ChmodTreeFits == Sound(Tree(<<<<"d">>, <<"d", "e">>>>, <<>>, <<>>, <<>>))
<1>1. "d" \in STRING /\ "e" \in STRING
  BY NamesAssumption
<1>2. PICK p, q : p = <<"d">> /\ q = <<"d", "e">>
  OBVIOUS
<1>3. p \in Path /\ p # <<>> /\ Front(p) = <<>> /\ q \in Path /\ q # <<>> /\ Front(q) = p /\ p # q
  BY <1>1, <1>2, Below
<1>4. PICK d, x, A, B : d = <<p, q>> /\ x = <<>> /\ A = {p, q} /\ B = {}
  OBVIOUS
<1>5. Lists(d, A)
  BY <1>3, <1>4 DEF Lists, IsInjective, ToSet
<1>6. Lists(x, B)
  BY <1>4, NoneListed
<1>7. Apart(A, B, {}, {}, {})
  BY <1>3, <1>4 DEF Apart
<1>8. Sound(Tree(d, x, <<>>, <<>>))
  BY <1>5, <1>6, <1>7, PlainFits
<1> QED
  BY <1>2, <1>4, <1>8, Zenon

\* The fixture of mv with directories to move.
LEMMA MvDirectoryFits == Sound(MvDirectoryFixture)
<1>1. /\ "srcdir" \in STRING /\ "child" \in STRING /\ "empty-dest" \in STRING /\ "full-dest" \in STRING
      /\ "file.txt" \in STRING /\ "kept.txt" \in STRING
  BY NamesAssumption
<1>2. PICK d, x, A, B :
        /\ d = <<<<"srcdir">>, <<"srcdir", "child">>, <<"empty-dest">>, <<"full-dest">>>>
        /\ x = <<<<"srcdir", "file.txt">>, <<"full-dest", "kept.txt">>>>
        /\ A = {<<"srcdir">>, <<"srcdir", "child">>, <<"empty-dest">>, <<"full-dest">>}
        /\ B = {<<"srcdir", "file.txt">>, <<"full-dest", "kept.txt">>}
  OBVIOUS
<1>3. /\ \A p \in A \cup B : p \in Path /\ p # <<>> /\ Front(p) \in A \cup {<<>>}
      /\ A \cap B = {}
  BY <1>1, <1>2, Below
<1>4. Lists(d, A)
  BY <1>2, <1>3 DEF Lists, IsInjective, ToSet
<1>5. Lists(x, B)
  BY <1>2, <1>3 DEF Lists, IsInjective, ToSet
<1>6. Apart(A, B, {}, {}, {})
  BY <1>3 DEF Apart
<1>7. Sound(Tree(d, x, <<>>, <<>>))
  BY <1>4, <1>5, <1>6, PlainFits
<1> QED
  BY <1>2, <1>7, Zenon DEF MvDirectoryFixture

\* The fixtures of cp.
LEMMA CpFits ==
  LET base == PlusHardlink(PlusFile(PlusFile(FailureFixture, <<"dir", "nested">>), <<"read-only">>), Alias, AText) IN
  /\ Sound(base)
  /\ Sound(PlusSymlink(base, <<"dir", "cycle">>, <<Here>>))
  /\ Sound(PlusDirectories(base, <<<<"unreadable">>>>))
  /\ Sound(PlusFile(PlusFile(base, <<"target.txt.~3~">>), <<"target.txt.~7~">>))
  /\ Sound(PlusHardlink(PlusHardlink(base, <<"dir", "alias">>, AText), <<"dir", "alias2">>, AText))
<1>1. /\ "dir" \in STRING /\ "nested" \in STRING /\ "read-only" \in STRING /\ "alias" \in STRING /\ "cycle" \in STRING
      /\ "unreadable" \in STRING /\ "target.txt.~3~" \in STRING /\ "target.txt.~7~" \in STRING /\ "alias2" \in STRING
      /\ "dir" \notin {Up, Here} /\ "cycle" \notin {Up, Here} /\ Here \in STRING /\ Here # Up
  BY NamesAssumption DEF Up, Here
<1>2. PICK e, D, N : e = FailureFixture /\ D = FailureD /\ N = FailureN
  OBVIOUS
<1>3. Fits(e, D, N) /\ <<"dir">> \in D /\ AText \in ToSet(Pluck(e.files))
  BY <1>2, FailureFits DEF FailureD, AText
<1>4. PICK f, M : f = PlusFile(e, <<"dir", "nested">>) /\ M = N \cup {<<"dir", "nested">>}
  OBVIOUS
<1>5. Fits(f, D, M) /\ AText \in ToSet(Pluck(f.files))
  <2>1. <<"dir", "nested">> \notin D \cup N
    BY <1>2 DEF FailureD, FailureN
  <2>2. Free(<<"dir", "nested">>, D, N)
    BY <1>1, <1>3, <2>1, Below DEF Free
  <2> QED
    BY <1>3, <1>4, <2>2, PlusFileFits
<1>6. PICK g, O : g = PlusFile(f, <<"read-only">>) /\ O = M \cup {<<"read-only">>}
  OBVIOUS
<1>7. Fits(g, D, O) /\ AText \in ToSet(Pluck(g.files))
  <2>1. <<"read-only">> \notin D \cup M
    BY <1>2, <1>4 DEF FailureD, FailureN
  <2>2. Free(<<"read-only">>, D, M)
    BY <1>1, <2>1, Below DEF Free
  <2> QED
    BY <1>5, <1>6, <2>2, PlusFileFits
<1>8. PICK base, P : base = PlusHardlink(g, Alias, AText) /\ P = O \cup {Alias}
  OBVIOUS
<1>9. Fits(base, D, P) /\ AText \in ToSet(Pluck(base.files))
  <2>1. Alias \notin D \cup O
    BY <1>2, <1>4, <1>6 DEF FailureD, FailureN, Alias
  <2>2. Free(Alias, D, O)
    BY <1>1, <2>1, Below DEF Free, Alias
  <2> QED
    BY <1>7, <1>8, <2>2, PlusHardlinkFits
<1>10. P = FailureN \cup {<<"dir", "nested">>, <<"read-only">>, Alias} /\ D = FailureD
  BY <1>2, <1>4, <1>6, <1>8
<1>11. Sound(base)
  BY <1>9, FitsIsSound
<1>12. Sound(PlusSymlink(base, <<"dir", "cycle">>, <<Here>>))
  <2>1. PICK t : t = <<Here>>
    OBVIOUS
  <2>2. t \in Path \ {<<>>} /\ \A i \in 1 .. Len(t) : t[i] = Up => i <= 1
    <3>1. t \in Path \ {<<>>}
      BY <1>1, <2>1, Below
    <3>2. Len(t) = 1
      BY <2>1
    <3> QED
      BY <3>1, <3>2
  <2>3. <<"dir", "cycle">> \notin D \cup P
    BY <1>10 DEF FailureD, FailureN, Alias
  <2>4. Fits(PlusSymlink(base, <<"dir", "cycle">>, t), D, P \cup {<<"dir", "cycle">>})
    BY <1>1, <1>3, <1>9, <2>2, <2>3, OneBelow
  <2> QED
    BY <2>1, <2>4, FitsIsSound
<1>13. Sound(PlusDirectories(base, <<<<"unreadable">>>>))
  <2>1. <<"unreadable">> \notin D \cup P
    BY <1>10 DEF FailureD, FailureN, Alias
  <2> QED
    BY <1>1, <1>9, <2>1, OneMore, FitsIsSound
<1>14. Sound(PlusFile(PlusFile(base, <<"target.txt.~3~">>), <<"target.txt.~7~">>))
  <2>1. <<"target.txt.~3~">> \notin D \cup P /\ <<"target.txt.~7~">> \notin D \cup P /\ <<"target.txt.~7~">> # <<"target.txt.~3~">>
    BY <1>10 DEF FailureD, FailureN, Alias
  <2>2. PICK k, Q : k = PlusFile(base, <<"target.txt.~3~">>) /\ Q = P \cup {<<"target.txt.~3~">>}
    OBVIOUS
  <2>3. Fits(k, D, Q)
    BY <1>1, <1>9, <2>1, <2>2, OneMore
  <2>4. <<"target.txt.~7~">> \notin D \cup Q
    BY <2>1, <2>2
  <2>5. Fits(PlusFile(k, <<"target.txt.~7~">>), D, Q \cup {<<"target.txt.~7~">>})
    BY <1>1, <2>3, <2>4, OneMore
  <2> QED
    BY <2>2, <2>5, FitsIsSound
<1>15. Sound(PlusHardlink(PlusHardlink(base, <<"dir", "alias">>, AText), <<"dir", "alias2">>, AText))
  <2>1. /\ <<"dir", "alias">> \notin D \cup P /\ <<"dir", "alias2">> \notin D \cup P
        /\ <<"dir", "alias">> # <<"dir", "alias2">>
    BY <1>10 DEF FailureD, FailureN, Alias
  <2>2. PICK k, Q : k = PlusHardlink(base, <<"dir", "alias">>, AText) /\ Q = P \cup {<<"dir", "alias">>}
    OBVIOUS
  <2>3. Fits(k, D, Q) /\ AText \in ToSet(Pluck(k.files))
    <3>1. Free(<<"dir", "alias">>, D, P)
      BY <1>1, <1>3, <2>1, Below DEF Free
    <3> QED
      BY <1>9, <2>2, <3>1, PlusHardlinkFits
  <2>4. <<"dir", "alias2">> \notin D \cup Q
    BY <2>1, <2>2
  <2>5. Fits(PlusHardlink(k, <<"dir", "alias2">>, AText), D, Q \cup {<<"dir", "alias2">>})
    BY <1>1, <1>3, <2>3, <2>4, OneBelow
  <2> QED
    BY <2>2, <2>5, FitsIsSound
<1> QED
  BY <1>2, <1>4, <1>6, <1>8, <1>11, <1>12, <1>13, <1>14, <1>15

\* The fixtures of rmdir.
LEMMA RmdirFits ==
  LET linked == PlusSymlink(PlusSymlink(BasicFixture, <<"empty-link">>, <<"empty">>),
                            <<"missing-link">>, <<"missing">>)
      base == PlusDirectories(linked, <<<<"empty">>, <<"chain">>, <<"chain", "leaf">>,
                                        <<"nonempty">>, <<"nonempty", "child">>>>)
      below == PlusDirectories(base, <<Blocked, <<"blocked", "nonempty">>>>)
  IN /\ Sound(base) /\ Sound(PlusDirectories(base, <<<<"empty", "child">>>>))
     /\ Sound(PlusDirectories(base, <<<<"--help">>>>)) /\ Sound(below)
     /\ Sound(PlusFile(below, <<"blocked", "nonempty", "keep">>))
<1>1. /\ "empty-link" \in STRING /\ "empty" \in STRING /\ "missing-link" \in STRING /\ "missing" \in STRING
      /\ "chain" \in STRING /\ "leaf" \in STRING /\ "nonempty" \in STRING /\ "child" \in STRING
      /\ "--help" \in STRING /\ "blocked" \in STRING /\ "keep" \in STRING /\ "empty" # Up /\ "missing" # Up
  BY NamesAssumption DEF Up
<1>2. PICK e, D, N : e = BasicFixture /\ D = BasicD /\ N = BasicN
  OBVIOUS
<1>3. PICK f, M : f = PlusSymlink(e, <<"empty-link">>, <<"empty">>) /\ M = N \cup {<<"empty-link">>}
  OBVIOUS
<1>4. Fits(f, D, M)
  <2>1. Fits(e, D, N) /\ <<"empty-link">> \notin D \cup N
    BY <1>2, BasicFits DEF BasicD, BasicN
  <2> QED
    BY <1>1, <1>3, <2>1, OneMore
<1>5. PICK g, O : g = PlusSymlink(f, <<"missing-link">>, <<"missing">>) /\ O = M \cup {<<"missing-link">>}
  OBVIOUS
<1>6. Fits(g, D, O)
  <2>1. <<"missing-link">> \notin D \cup M
    BY <1>2, <1>3 DEF BasicD, BasicN
  <2> QED
    BY <1>1, <1>4, <1>5, <2>1, OneMore
<1>7. PICK d : d = <<<<"empty">>, <<"chain">>, <<"chain", "leaf">>, <<"nonempty">>, <<"nonempty", "child">>>>
  OBVIOUS
<1>8. PICK base, E : base = PlusDirectories(g, d) /\ E = D \cup ToSet(d)
  OBVIOUS
<1>9. ToSet(d) = {<<"empty">>, <<"chain">>, <<"chain", "leaf">>, <<"nonempty">>, <<"nonempty", "child">>}
  BY <1>7 DEF ToSet
<1>10. Fits(base, E, O)
  <2>1. \A p \in ToSet(d) : p \in Path /\ p # <<>> /\ Front(p) \in ToSet(d) \cup {<<>>}
    <3>1. /\ \A p \in {<<"empty">>, <<"chain">>, <<"nonempty">>} : p \in Path /\ p # <<>> /\ Front(p) = <<>>
          /\ <<"chain", "leaf">> \in Path /\ <<"chain", "leaf">> # <<>> /\ Front(<<"chain", "leaf">>) = <<"chain">>
          /\ <<"nonempty", "child">> \in Path /\ <<"nonempty", "child">> # <<>>
          /\ Front(<<"nonempty", "child">>) = <<"nonempty">>
      BY <1>1, Below
    <3> QED
      BY <1>9, <3>1
  <2>2. \A p \in ToSet(d) : p \notin D \cup O
    BY <1>2, <1>3, <1>5, <1>9 DEF BasicD, BasicN
  <2>3. d \in Seq(Path) /\ IsInjective(d)
    BY <1>7, <1>9, <2>1, SMTT(30) DEF IsInjective
  <2>4. FreeDirectories(d, D, O)
    BY <2>1, <2>2, <2>3 DEF FreeDirectories
  <2> QED
    BY <1>6, <1>8, <2>4, PlusDirectoriesFits
<1>11. /\ E = {<<"dir">>, <<"empty">>, <<"chain">>, <<"chain", "leaf">>, <<"nonempty">>, <<"nonempty", "child">>}
       /\ O = BasicN \cup {<<"empty-link">>, <<"missing-link">>}
  BY <1>2, <1>3, <1>5, <1>8, <1>9 DEF BasicD
<1>12. Sound(PlusDirectories(base, <<<<"empty", "child">>>>))
  <2>1. <<"empty">> \in E /\ <<"empty", "child">> \notin E \cup O
    BY <1>11 DEF BasicN
  <2> QED
    BY <1>1, <1>10, <2>1, OneBelow, FitsIsSound
<1>13. Sound(PlusDirectories(base, <<<<"--help">>>>))
  <2>1. <<"--help">> \notin E \cup O
    BY <1>11 DEF BasicN
  <2> QED
    BY <1>1, <1>10, <2>1, OneMore, FitsIsSound
<1>14. PICK b : b = <<Blocked, <<"blocked", "nonempty">>>>
  OBVIOUS
<1>15. ToSet(b) = {<<"blocked">>, <<"blocked", "nonempty">>}
  BY <1>14 DEF ToSet, Blocked
<1>16. PICK below, F : below = PlusDirectories(base, b) /\ F = E \cup ToSet(b)
  OBVIOUS
<1>17. Fits(below, F, O)
  <2>1. \A p \in ToSet(b) : p \in Path /\ p # <<>> /\ Front(p) \in ToSet(b) \cup {<<>>}
    <3>1. /\ <<"blocked">> \in Path /\ <<"blocked">> # <<>> /\ Front(<<"blocked">>) = <<>>
          /\ <<"blocked", "nonempty">> \in Path /\ <<"blocked", "nonempty">> # <<>>
          /\ Front(<<"blocked", "nonempty">>) = <<"blocked">>
      BY <1>1, Below
    <3> QED
      BY <1>15, <3>1
  <2>2. \A p \in ToSet(b) : p \notin E \cup O
    BY <1>11, <1>15 DEF BasicN
  <2>3. b \in Seq(Path) /\ IsInjective(b)
    BY <1>14, <1>15, <2>1 DEF IsInjective, Blocked
  <2>4. FreeDirectories(b, E, O)
    BY <2>1, <2>2, <2>3 DEF FreeDirectories
  <2> QED
    BY <1>10, <1>16, <2>4, PlusDirectoriesFits
<1>18. Sound(PlusFile(below, <<"blocked", "nonempty", "keep">>))
  <2>1. PICK p : p = <<"blocked", "nonempty", "keep">>
    OBVIOUS
  <2>2. p \in Path /\ p # <<>> /\ Front(p) = <<"blocked", "nonempty">>
    <3>1. PICK a \in STRING, n \in STRING, c \in STRING : a = "blocked" /\ n = "nonempty" /\ c = "keep"
      BY <1>1
    <3>2. <<a, n, c>> \in Path /\ <<a, n, c>> # <<>> /\ Front(<<a, n, c>>) = <<a, n>>
      BY Below
    <3> QED
      BY <2>1, <3>1, <3>2
  <2>3. p \notin F \cup O
    BY <1>11, <1>15, <1>16, <2>1 DEF BasicN
  <2>4. <<"blocked", "nonempty">> \in F
    BY <1>15, <1>16
  <2>5. Free(p, F, O)
    BY <2>2, <2>3, <2>4 DEF Free
  <2>6. Fits(PlusFile(below, p), F, O \cup {p})
    BY <1>17, <2>5, PlusFileFits
  <2> QED
    BY <2>1, <2>6, FitsIsSound
<1> QED
  BY <1>2, <1>3, <1>5, <1>7, <1>8, <1>10, <1>12, <1>13, <1>14, <1>16, <1>17, <1>18, FitsIsSound, Zenon

\* The second list is the first with one entry more.
Longer(S, s, e, t) ==
  /\ s \in Seq(S) /\ e \in S /\ t \in Seq(S) /\ Len(t) = Len(s) + 1 /\ t[Len(t)] = e
  /\ \A i \in 1 .. Len(s) : t[i] = s[i]

\* Such a list is made by Append.
LEMMA LongerByOne ==
  ASSUME NEW S, NEW s, NEW e, NEW t, Longer(S, s, e, t)
  PROVE  Append(s, e) = t
<1> USE DEF Longer
<1>1. DOMAIN t = 1 .. Len(t) /\ DOMAIN Append(s, e) = 1 .. Len(t)
  OBVIOUS
<1>2. ASSUME NEW i \in 1 .. Len(t) PROVE t[i] = Append(s, e)[i]
  OBVIOUS
<1> QED
  BY <1>1, <1>2

\* Append to lists of one and of two.
LEMMA AppendOf ==
  ASSUME NEW S, NEW a \in S, NEW b \in S, NEW c \in S
  PROVE  Append(<<a>>, b) = <<a, b>> /\ Append(<<a, b>>, c) = <<a, b, c>>
<1>1. PICK s, t, u : s = <<a>> /\ t = <<a, b>> /\ u = <<a, b, c>>
  OBVIOUS
<1>2. /\ s \in Seq(S) /\ Len(s) = 1 /\ s[1] = a
      /\ t \in Seq(S) /\ Len(t) = 2 /\ t[1] = a /\ t[2] = b
      /\ u \in Seq(S) /\ Len(u) = 3 /\ u[1] = a /\ u[2] = b /\ u[3] = c
  BY <1>1
<1>3. Append(s, b) = t
  <2>1. \A i \in 1 .. Len(s) : t[i] = s[i]
    BY <1>2
  <2>2. Longer(S, s, b, t)
    BY <1>2, <2>1 DEF Longer
  <2> QED
    BY <2>2, LongerByOne
<1>4. Append(t, c) = u
  <2>1. \A i \in 1 .. Len(t) : i = 1 \/ i = 2
    BY <1>2
  <2>2. \A i \in 1 .. Len(t) : u[i] = t[i]
    BY <1>2, <2>1
  <2>3. Longer(S, t, c, u)
    BY <1>2, <2>2 DEF Longer
  <2> QED
    BY <2>3, LongerByOne
<1> QED
  BY <1>1, <1>3, <1>4

\* The same for names.
LEMMA AppendIs ==
  ASSUME NEW a \in STRING, NEW b \in STRING, NEW c \in STRING
  PROVE  Append(<<a>>, b) = <<a, b>> /\ Append(<<a, b>>, c) = <<a, b, c>>
<1>1. PICK S : S = STRING
  OBVIOUS
<1>2. a \in S /\ b \in S /\ c \in S
  BY <1>1
<1> HIDE <1>1
<1> QED
  BY <1>2, AppendOf

\* The fixtures of chmod's scenarios.
LEMMA ChmodScenarioFits ==
  /\ Sound(ChmodScenarioFixture) /\ Sound(PlusDirectories(ChmodScenarioFixture, <<Blocked>>))
  /\ <<"tree", "child">> \in ToSet(ChmodScenarioFixture.directories)
<1>1. /\ "tree" \in STRING /\ "child" \in STRING /\ "root-file" \in STRING /\ "setuid" \in STRING
      /\ "quote'file" \in STRING /\ "e'" \in STRING /\ "tab-file" \in STRING /\ "file-link" \in STRING
      /\ "dir-link" \in STRING /\ "dangling-link" \in STRING /\ "missing-target" \in STRING
      /\ "cycle-a" \in STRING /\ "cycle-b" \in STRING /\ "blocked" \in STRING
      /\ {"tree", "root-file", "child", "missing-target", "cycle-a", "cycle-b"} \cap {Up} = {}
  BY NamesAssumption DEF Up
<1>2. PICK tree, child : tree = <<"tree">> /\ child = <<"tree", "child">>
  OBVIOUS
<1>3. PICK d, x, A, B, C :
        /\ d = <<tree, child>> /\ A = {tree, child}
        /\ x = <<<<"tree", "root-file">>, <<"tree", "child", "setuid">>, <<"quote'file">>, <<"e'">>, <<"tab-file">>>>
        /\ B = {<<"tree", "root-file">>, <<"tree", "child", "setuid">>, <<"quote'file">>, <<"e'">>, <<"tab-file">>}
        /\ C = {<<"file-link">>, <<"dir-link">>, <<"dangling-link">>, <<"cycle-a">>, <<"cycle-b">>}
  OBVIOUS
<1>4. PICK s : s = <<Symlink(<<"file-link">>, <<"tree", "root-file">>), Symlink(<<"dir-link">>, <<"tree", "child">>),
                     Symlink(<<"dangling-link">>, <<"missing-target">>),
                     Symlink(<<"cycle-a">>, <<"cycle-b">>), Symlink(<<"cycle-b">>, <<"cycle-a">>)>>
  OBVIOUS
<1>5. /\ \A p \in A : p \in Path /\ p # <<>> /\ Front(p) \in A \cup {<<>>}
      /\ \A p \in B : p \in Path /\ p # <<>> /\ Front(p) \in A \cup {<<>>}
      /\ \A p \in C : p \in Path /\ p # <<>> /\ Front(p) = <<>>
  <2>1. /\ \A p \in {<<"tree">>, <<"quote'file">>, <<"e'">>, <<"tab-file">>} \cup C : p \in Path /\ p # <<>> /\ Front(p) = <<>>
        /\ \A p \in {<<"tree", "child">>, <<"tree", "root-file">>} : p \in Path /\ p # <<>> /\ Front(p) = <<"tree">>
    BY <1>1, <1>3, Below
  <2>2. PICK a \in STRING, b \in STRING, c \in STRING : a = "tree" /\ b = "child" /\ c = "setuid"
    BY <1>1
  <2>3. <<a, b, c>> \in Path /\ <<a, b, c>> # <<>> /\ Front(<<a, b, c>>) = <<a, b>>
    BY Below
  <2> QED
    BY <1>2, <1>3, <2>1, <2>2, <2>3
<1>6. Lists(d, A)
  BY <1>2, <1>3, <1>5, SMTT(30) DEF Lists, IsInjective, ToSet
<1>7. Lists(x, B)
  BY <1>3, <1>5 DEF Lists, IsInjective, ToSet
<1>8. Links(s, C)
  <2>1. PICK p, n : p = <<<<"file-link">>, <<"dir-link">>, <<"dangling-link">>, <<"cycle-a">>, <<"cycle-b">>>> /\ n = 5
    OBVIOUS
  <2>2. Link(s[3], p[3]) /\ Link(s[4], p[4]) /\ Link(s[5], p[5])
    BY <1>1, <1>4, <2>1, TopLink
  <2>3. Link(s[1], p[1]) /\ Link(s[2], p[2])
    <3>1. <<"tree", "root-file">> \in Path /\ <<"tree", "child">> \in Path /\ <<"file-link">> \in Path /\ <<"dir-link">> \in Path
      BY <1>1, Below
    <3>2. StaysWithin(<<"file-link">>, <<"tree", "root-file">>) /\ StaysWithin(<<"dir-link">>, <<"tree", "child">>)
      BY <1>1, TopLeads
    <3> QED
      BY <1>4, <2>1, <3>1, <3>2, LinkIs
  <2>4. DOMAIN s = 1 .. n /\ s \in Seq(SymlinkEntries) /\ n \in Nat
    BY <1>4, <2>1, <2>2, <2>3 DEF Link
  <2>5. \A i \in 1 .. n : Link(s[i], p[i])
    BY <2>1, <2>2, <2>3
  <2>6. \A i, j \in 1 .. n : p[i] = p[j] => i = j
    BY <2>1
  <2>7. Links(s, {p[i] : i \in 1 .. n})
    BY <2>4, <2>5, <2>6, LinksAre DEF Sited
  <2>8. {p[i] : i \in 1 .. n} = C
    BY <1>3, <2>1
  <2> QED
    BY <2>7, <2>8
<1>9. Apart(A, B, C, {}, {})
  <2>1. A \cap B = {} /\ A \cap C = {} /\ B \cap C = {}
    BY <1>2, <1>3
  <2> QED
    BY <1>5, <2>1 DEF Apart
<1>10. PICK f : f = Tree(d, x, s, <<>>)
  OBVIOUS
<1>11. f = ChmodScenarioFixture
  <2>1. Append(<<"tree">>, "root-file") = <<"tree", "root-file">> /\ Append(<<"tree", "child">>, "setuid") = <<"tree", "child", "setuid">>
    <3>1. PICK a \in STRING, b \in STRING, c \in STRING, e \in STRING : a = "tree" /\ b = "child" /\ c = "setuid" /\ e = "root-file"
      BY <1>1
    <3>2. Append(<<a>>, e) = <<a, e>> /\ Append(<<a, b>>, c) = <<a, b, c>>
      BY AppendIs
    <3> QED
      BY <3>1, <3>2, Zenon
  <2> QED
    BY <1>2, <1>3, <1>4, <1>10, <2>1, Zenon DEF ChmodScenarioFixture
<1>12. Fits(f, A, B \cup C)
  BY <1>6, <1>7, <1>8, <1>9, <1>10, ApartFits
<1>13. Sound(PlusDirectories(f, <<Blocked>>))
  <2>1. <<"blocked">> \notin A \cup (B \cup C)
    BY <1>2, <1>3
  <2>2. Fits(PlusDirectories(f, <<<<"blocked">>>>), A \cup {<<"blocked">>}, B \cup C)
    BY <1>1, <1>12, <2>1, OneMore
  <2> QED
    BY <2>2, FitsIsSound DEF Blocked
<1>14. child \in ToSet(f.directories)
  <2>1. f.directories = d
    BY <1>10 DEF Tree
  <2> QED
    BY <1>3, <1>6, <2>1 DEF Lists
<1> QED
  BY <1>2, <1>11, <1>12, <1>13, <1>14, FitsIsSound

\* The fixture of ls.
LEMMA LsFits == Sound(LsFixture)
<1>1. /\ "tree" \in STRING /\ "child" \in STRING /\ "empty" \in STRING /\ "zzz-large" \in STRING /\ "aaa-small" \in STRING
      /\ "visible" \in STRING /\ "large" \in STRING /\ ".hidden" \in STRING /\ "leaf" \in STRING /\ "back" \in STRING
      /\ "file-link" \in STRING /\ "dir-link" \in STRING /\ "dangling-link" \in STRING /\ "missing-target" \in STRING
      /\ "visible-hard" \in STRING /\ Up \in STRING
      /\ {"tree", "child", "visible", "back", "missing-target"} \cap {Up, Here} = {}
  BY NamesAssumption DEF Up, Here
<1>2. PICK tree, child, leaf, back, visible :
        /\ tree = <<"tree">> /\ child = <<"tree", "child">> /\ leaf = <<"tree", "child", "leaf">>
        /\ back = <<"tree", "child", "back">> /\ visible = <<"visible">>
  OBVIOUS
<1>3. PICK d, x, A, B, C :
        /\ d = <<<<"empty">>, tree, child>> /\ A = {<<"empty">>, tree, child}
        /\ x = <<<<"zzz-large">>, <<"aaa-small">>, visible, <<"large">>, <<".hidden">>, leaf>>
        /\ B = {<<"zzz-large">>, <<"aaa-small">>, visible, <<"large">>, <<".hidden">>, leaf}
        /\ C = {<<"file-link">>, <<"dir-link">>, <<"dangling-link">>, back}
  OBVIOUS
<1>4. PICK s : s = <<Symlink(<<"file-link">>, visible), Symlink(<<"dir-link">>, child),
                     Symlink(<<"dangling-link">>, <<"missing-target">>), Symlink(back, <<Up>>)>>
  OBVIOUS
<1>5. leaf \in Path /\ leaf # <<>> /\ Front(leaf) = child /\ back \in Path /\ back # <<>> /\ Front(back) = child
  <2>1. PICK a \in STRING, b \in STRING, c \in STRING, e \in STRING : a = "tree" /\ b = "child" /\ c = "leaf" /\ e = "back"
    BY <1>1
  <2>2. /\ <<a, b, c>> \in Path /\ <<a, b, c>> # <<>> /\ Front(<<a, b, c>>) = <<a, b>>
        /\ <<a, b, e>> \in Path /\ <<a, b, e>> # <<>> /\ Front(<<a, b, e>>) = <<a, b>>
    BY Below, ZenonT(40)
  <2> QED
    BY <1>2, <2>1, <2>2
<1>6. /\ \A p \in A : p \in Path /\ p # <<>> /\ Front(p) \in A \cup {<<>>}
      /\ \A p \in B : p \in Path /\ p # <<>> /\ Front(p) \in A \cup {<<>>}
      /\ \A p \in C : p \in Path /\ p # <<>> /\ Front(p) \in A \cup {<<>>}
  <2>1. /\ \A p \in {<<"empty">>, <<"tree">>, <<"zzz-large">>, <<"aaa-small">>, <<"visible">>, <<"large">>, <<".hidden">>} :
             p \in Path /\ p # <<>> /\ Front(p) = <<>>
        /\ \A p \in {<<"file-link">>, <<"dir-link">>, <<"dangling-link">>} : p \in Path /\ p # <<>> /\ Front(p) = <<>>
        /\ <<"tree", "child">> \in Path /\ <<"tree", "child">> # <<>> /\ Front(<<"tree", "child">>) = <<"tree">>
    BY <1>1, Below
  <2>2. child \in Path /\ child # <<>> /\ Front(child) = tree
    BY <1>2, <2>1
  <2>3. \A p \in A : p \in Path /\ p # <<>> /\ Front(p) \in A \cup {<<>>}
    BY <1>2, <1>3, <2>1, <2>2
  <2>4. \A p \in B : p \in Path /\ p # <<>> /\ Front(p) \in A \cup {<<>>}
    BY <1>2, <1>3, <1>5, <2>1
  <2>5. \A p \in C : p \in Path /\ p # <<>> /\ Front(p) \in A \cup {<<>>}
    BY <1>3, <1>5, <2>1
  <2> QED
    BY <2>3, <2>4, <2>5
<1>7. Lists(d, A)
  <2>1. <<"empty">> # tree /\ <<"empty">> # child /\ tree # child
    BY <1>2
  <2> QED
    BY <1>3, <1>6, <2>1 DEF Lists, IsInjective, ToSet
<1>8. Lists(x, B)
  <2>1. /\ visible # <<"zzz-large">> /\ visible # <<"aaa-small">> /\ visible # <<"large">> /\ visible # <<".hidden">>
        /\ leaf # <<"zzz-large">> /\ leaf # <<"aaa-small">> /\ leaf # <<"large">> /\ leaf # <<".hidden">>
        /\ visible # leaf
    BY <1>2
  <2> QED
    BY <1>3, <1>6, <2>1 DEF Lists, IsInjective, ToSet
<1>9. Links(s, C)
  <2>1. PICK p, n : p = <<<<"file-link">>, <<"dir-link">>, <<"dangling-link">>, back>> /\ n = 4
    OBVIOUS
  <2>2. Link(s[1], p[1]) /\ Link(s[3], p[3])
    BY <1>1, <1>2, <1>4, <2>1, TopLink
  <2>3. Link(s[2], p[2])
    <3>1. <<"tree", "child">> \in Path /\ <<"dir-link">> \in Path
      BY <1>1, Below
    <3>2. StaysWithin(<<"dir-link">>, <<"tree", "child">>)
      BY <1>1, TopLeads
    <3> QED
      BY <1>2, <1>4, <2>1, <3>1, <3>2, LinkIs
  <2>4. Link(s[4], p[4])
    <3>1. PICK t, k : t = <<Up>> /\ k = 1
      OBVIOUS
    <3>2. t \in Path /\ t # <<>> /\ Len(t) = 1
      BY <1>1, <3>1, Below
    <3>3. Len(back) = 3 /\ \A i \in 1 .. Len(back) : back[i] \notin {Up, Here}
      <4>1. Len(back) = 3 /\ back[1] = "tree" /\ back[2] = "child" /\ back[3] = "back"
        BY <1>2
      <4>2. \A i \in 1 .. Len(back) : i = 1 \/ i = 2 \/ i = 3
        BY <4>1
      <4> QED
        BY <1>1, <4>1, <4>2
    <3>4. k \in 0 .. Len(back) - 1 /\ \A i \in 1 .. Len(t) : t[i] = Up => i <= k
      BY <3>1, <3>2, <3>3
    <3>5. StaysWithin(back, t)
      BY <1>5, <3>2, <3>3, <3>4, Leads
    <3> QED
      BY <1>4, <1>5, <2>1, <3>1, <3>2, <3>5, LinkIs
  <2>5. DOMAIN s = 1 .. n /\ s \in Seq(SymlinkEntries) /\ n \in Nat
    BY <1>4, <2>1, <2>2, <2>3, <2>4 DEF Link
  <2>6. \A i \in 1 .. n : Link(s[i], p[i])
    BY <2>1, <2>2, <2>3, <2>4
  <2>7. \A i, j \in 1 .. n : p[i] = p[j] => i = j
    BY <1>2, <2>1
  <2>8. Links(s, {p[i] : i \in 1 .. n})
    BY <2>5, <2>6, <2>7, LinksAre DEF Sited
  <2>9. {p[i] : i \in 1 .. n} = C
    BY <1>3, <2>1
  <2> QED
    BY <2>8, <2>9
<1>10. Apart(A, B, C, {}, {})
  <2>1. A \cap B = {} /\ A \cap C = {} /\ B \cap C = {}
    BY <1>2, <1>3
  <2> QED
    BY <1>6, <2>1 DEF Apart
<1>11. PICK f : f = Tree(d, x, s, <<>>)
  OBVIOUS
<1>12. Fits(f, A, B \cup C) /\ visible \in ToSet(Pluck(f.files))
  <2>1. Fits(f, A, B \cup C) /\ ToSet(Pluck(f.files)) = B
    BY <1>7, <1>8, <1>9, <1>10, <1>11, ApartFits
  <2> QED
    BY <1>3, <2>1
<1>13. Sound(PlusHardlink(f, <<"visible-hard">>, visible))
  <2>1. <<"visible-hard">> \notin A \cup (B \cup C)
    BY <1>2, <1>3
  <2> QED
    BY <1>1, <1>12, <2>1, OneMore, FitsIsSound, ZenonT(40)
<1>14. PlusHardlink(f, <<"visible-hard">>, visible) = LsFixture
  <2>1. Append(<<"tree", "child">>, "leaf") = leaf /\ Append(<<"tree", "child">>, "back") = back
    <3>1. PICK a \in STRING, b \in STRING, c \in STRING, e \in STRING : a = "tree" /\ b = "child" /\ c = "leaf" /\ e = "back"
      BY <1>1
    <3>2. Append(<<a, b>>, c) = <<a, b, c>> /\ Append(<<a, b>>, e) = <<a, b, e>>
      BY AppendIs
    <3> QED
      BY <1>2, <3>1, <3>2, Zenon
  <2> QED
    BY <1>2, <1>3, <1>4, <1>11, <2>1, Zenon DEF LsFixture
<1> QED
  BY <1>13, <1>14

\* A list of two paths.
LEMMA TwoListed ==
  ASSUME NEW p \in Path, NEW q \in Path, p # q
  PROVE  Lists(<<p, q>>, {p, q})
  BY DEF Lists, IsInjective, ToSet

\* A list of three paths.
LEMMA ThreeListed ==
  ASSUME NEW p \in Path, NEW q \in Path, NEW r \in Path, p # q, p # r, q # r
  PROVE  Lists(<<p, q, r>>, {p, q, r})
  BY DEF Lists, IsInjective, ToSet

\* The fixture of stat.
LEMMA StatFits == Sound(StatFixture)
<1>1. /\ "dir" \in STRING /\ "child" \in STRING /\ "regular" \in STRING /\ "empty" \in STRING
      /\ "regular-link" \in STRING /\ "dangling-link" \in STRING /\ "missing-stat-target" \in STRING
      /\ "dir-link" \in STRING /\ "regular-hard" \in STRING
      /\ {"regular", "missing-stat-target", "dir"} \cap {Up} = {}
  BY NamesAssumption DEF Up
<1>2. PICK d, x, A, B, C :
        /\ d = <<<<"dir">>, <<"dir", "child">>>> /\ A = {<<"dir">>, <<"dir", "child">>}
        /\ x = <<<<"regular">>, <<"empty">>>> /\ B = {<<"regular">>, <<"empty">>}
        /\ C = {<<"regular-link">>, <<"dangling-link">>, <<"dir-link">>}
  OBVIOUS
<1>3. PICK s : s = <<Symlink(<<"regular-link">>, <<"regular">>),
                     Symlink(<<"dangling-link">>, <<"missing-stat-target">>), Symlink(<<"dir-link">>, <<"dir">>)>>
  OBVIOUS
<1>4. \A p \in A \cup B \cup C : p \in Path /\ p # <<>> /\ Front(p) \in A \cup {<<>>}
  <2>1. /\ \A p \in {<<"dir">>} \cup B \cup C : p \in Path /\ p # <<>> /\ Front(p) = <<>>
        /\ <<"dir", "child">> \in Path /\ <<"dir", "child">> # <<>> /\ Front(<<"dir", "child">>) = <<"dir">>
    BY <1>1, <1>2, Below
  <2> QED
    BY <1>2, <2>1
<1>5. Lists(d, A) /\ Lists(x, B)
  <2>1. Lists(d, A)
    <3>1. <<"dir">> # <<"dir", "child">> /\ <<"dir">> \in Path /\ <<"dir", "child">> \in Path
      BY <1>2, <1>4
    <3> QED
      BY <1>2, <3>1, TwoListed
  <2>2. Lists(x, B)
    BY <1>2, <1>4 DEF Lists, IsInjective, ToSet
  <2> QED
    BY <2>1, <2>2
<1>6. Links(s, C)
  <2>1. PICK p, n : p = <<<<"regular-link">>, <<"dangling-link">>, <<"dir-link">>>> /\ n = 3
    OBVIOUS
  <2>2. Link(s[1], p[1]) /\ Link(s[2], p[2]) /\ Link(s[3], p[3])
    BY <1>1, <1>3, <2>1, TopLink
  <2>3. DOMAIN s = 1 .. n /\ s \in Seq(SymlinkEntries) /\ n \in Nat
    BY <1>3, <2>1, <2>2 DEF Link
  <2>4. \A i \in 1 .. n : Link(s[i], p[i])
    BY <2>1, <2>2
  <2>5. \A i, j \in 1 .. n : p[i] = p[j] => i = j
    BY <2>1
  <2>6. Links(s, {p[i] : i \in 1 .. n})
    BY <2>3, <2>4, <2>5, LinksAre DEF Sited
  <2>7. {p[i] : i \in 1 .. n} = C
    BY <1>2, <2>1
  <2> QED
    BY <2>6, <2>7
<1>7. Apart(A, B, C, {}, {})
  <2>1. A \cap B = {} /\ A \cap C = {} /\ B \cap C = {}
    BY <1>2
  <2> QED
    BY <1>4, <2>1 DEF Apart
<1>8. PICK f : f = Tree(d, x, s, <<>>)
  OBVIOUS
<1>9. Fits(f, A, B \cup C) /\ <<"regular">> \in ToSet(Pluck(f.files))
  <2>1. Fits(f, A, B \cup C) /\ ToSet(Pluck(f.files)) = B
    BY <1>5, <1>6, <1>7, <1>8, ApartFits
  <2> QED
    BY <1>2, <2>1
<1>10. PICK g : g = PlusHardlink(f, <<"regular-hard">>, <<"regular">>)
  OBVIOUS
<1>11. Sound(g)
  <2>1. <<"regular-hard">> \notin A \cup (B \cup C)
    BY <1>2
  <2> QED
    BY <1>1, <1>9, <1>10, <2>1, OneMore, FitsIsSound
<1>12. 2 \in DOMAIN g.files
  <2>1. Pluck(f.files) = x
    <3>1. PICK h : h = <<>>
      OBVIOUS
    <3>2. h \in Seq(HardlinkEntries) /\ f = Tree(d, x, s, h)
      BY <1>8, <3>1
    <3>3. d \in Seq(Path) /\ x \in Seq(Path) /\ s \in Seq(SymlinkEntries)
      BY <1>5, <1>6 DEF Lists, Links
    <3> QED
      BY <3>2, <3>3, TreeIs
  <2>2. PICK e, y, t, h : e = <<>> /\ y = <<>> /\ t = <<>> /\ h = <<Hardlink(<<"regular-hard">>, <<"regular">>)>>
    OBVIOUS
  <2>3. PICK k : k = Tree(e, y, t, h)
    OBVIOUS
  <2>4. k \in Blueprints /\ Pluck(k.files) = y
    <3>1. Hardlink(<<"regular-hard">>, <<"regular">>) \in HardlinkEntries
      BY <1>1, Below DEF Hardlink, HardlinkEntries
    <3>2. e \in Seq(Path) /\ y \in Seq(Path) /\ t \in Seq(SymlinkEntries) /\ h \in Seq(HardlinkEntries)
      BY <2>2, <3>1
    <3> QED
      BY <2>3, <3>2, TreeIs
  <2>5. g = Plus(f, k)
    BY <1>10, <2>2, <2>3 DEF PlusHardlink
  <2>6. Pluck(g.files) = Pluck(f.files) \o Pluck(k.files)
    BY <1>9, <2>4, <2>5, PlusIs DEF Fits
  <2>7. Pluck(g.files) = x \o y
    BY <2>1, <2>4, <2>6
  <2>8. x \in Seq(Path) /\ y \in Seq(Path) /\ Len(x) = 2
    BY <1>2, <1>5, <2>2 DEF Lists
  <2>9. 2 \in DOMAIN (x \o y)
    BY <2>2, <2>8
  <2> QED
    BY <2>7, <2>9 DEF Pluck
<1>13. PICK k, i, n : k = [g EXCEPT !.files[2].size = 0] /\ i = 2 /\ n = 0
  OBVIOUS
<1>14. Sound(k)
  <2>1. i \in DOMAIN g.files /\ n \in Nat
    BY <1>12, <1>13
  <2>2. Sized(k, g, i, n)
    BY <1>13 DEF Sized
  <2> QED
    BY <1>11, <2>1, <2>2, SizedIsSound
<1>15. k = StatFixture
  BY <1>2, <1>3, <1>8, <1>10, <1>13, Zenon DEF StatFixture
<1> QED
  BY <1>14, <1>15

\* The entries RealpathFixture adds.
RealpathD == {<<"__rp-dir">>, <<"__rp-dir", "child">>, <<"__rp-blocked">>}
\* The files and links that realpath is tried on.
RealpathN ==
  {<<"__rp-file">>, <<"__rp-link">>, <<"__rp-dangling">>, <<"__rp-loop">>, <<"__rp-cycle-a">>, <<"__rp-cycle-b">>,
   <<"__rp-cycle-c">>, <<"__rp-dot">>}

\* They are added to any fixture that has none of them.
LEMMA RealpathFits ==
  ASSUME NEW f, NEW D, NEW N, Fits(f, D, N), (RealpathD \cup RealpathN) \cap (D \cup N) = {}
  PROVE  Fits(RealpathFixture(f), D \cup RealpathD, N \cup RealpathN)
<1>1. /\ "__rp-dir" \in STRING /\ "child" \in STRING /\ "__rp-blocked" \in STRING /\ "__rp-file" \in STRING
      /\ "__rp-link" \in STRING /\ "__rp-dangling" \in STRING /\ "missing" \in STRING /\ "__rp-loop" \in STRING
      /\ "__rp-cycle-a" \in STRING /\ "__rp-cycle-b" \in STRING /\ "__rp-cycle-c" \in STRING /\ "__rp-dot" \in STRING
      /\ Here \in STRING
      /\ {"__rp-dir", "child", "missing", "__rp-loop", "__rp-cycle-a", "__rp-cycle-b", "__rp-cycle-c", Here} \cap {Up} = {}
  BY NamesAssumption DEF Up, Here
<1>2. PICK d, x, A, B, C :
        /\ d = <<<<"__rp-dir">>, <<"__rp-dir", "child">>, <<"__rp-blocked">>>> /\ A = RealpathD
        /\ x = <<<<"__rp-file">>>> /\ B = {<<"__rp-file">>}
        /\ C = {<<"__rp-link">>, <<"__rp-dangling">>, <<"__rp-loop">>, <<"__rp-cycle-a">>, <<"__rp-cycle-b">>,
                <<"__rp-cycle-c">>, <<"__rp-dot">>}
  OBVIOUS
<1>3. PICK s : s = <<Symlink(<<"__rp-link">>, <<"__rp-dir", "child">>),
                     Symlink(<<"__rp-dangling">>, <<"missing">>),
                     Symlink(<<"__rp-loop">>, <<"__rp-loop">>),
                     Symlink(<<"__rp-cycle-a">>, <<"__rp-cycle-b">>),
                     Symlink(<<"__rp-cycle-b">>, <<"__rp-cycle-c">>),
                     Symlink(<<"__rp-cycle-c">>, <<"__rp-cycle-a">>),
                     Symlink(<<"__rp-dot">>, <<Here>>)>>
  OBVIOUS
<1>4. \A p \in A \cup B \cup C : p \in Path /\ p # <<>> /\ Front(p) \in A \cup {<<>>}
  <2>1. /\ \A p \in {<<"__rp-dir">>, <<"__rp-blocked">>} \cup B \cup C : p \in Path /\ p # <<>> /\ Front(p) = <<>>
        /\ <<"__rp-dir", "child">> \in Path /\ <<"__rp-dir", "child">> # <<>>
        /\ Front(<<"__rp-dir", "child">>) = <<"__rp-dir">>
    BY <1>1, <1>2, Below
  <2> QED
    BY <1>2, <2>1 DEF RealpathD
<1>5. Lists(d, A) /\ Lists(x, B)
  <2>1. Lists(d, A)
    <3>1. /\ <<"__rp-dir">> # <<"__rp-dir", "child">> /\ <<"__rp-dir">> # <<"__rp-blocked">>
          /\ <<"__rp-dir", "child">> # <<"__rp-blocked">>
          /\ <<"__rp-dir">> \in Path /\ <<"__rp-dir", "child">> \in Path /\ <<"__rp-blocked">> \in Path
      BY <1>2, <1>4 DEF RealpathD
    <3> QED
      BY <1>2, <3>1, ThreeListed DEF RealpathD
  <2>2. Lists(x, B)
    BY <1>2, <1>4 DEF Lists, IsInjective, ToSet
  <2> QED
    BY <2>1, <2>2
<1>6. Links(s, C)
  <2>1. PICK p, n :
          /\ p = <<<<"__rp-link">>, <<"__rp-dangling">>, <<"__rp-loop">>, <<"__rp-cycle-a">>, <<"__rp-cycle-b">>,
                   <<"__rp-cycle-c">>, <<"__rp-dot">>>>
          /\ n = 7
    OBVIOUS
  <2>2. /\ Link(s[2], p[2]) /\ Link(s[3], p[3]) /\ Link(s[4], p[4]) /\ Link(s[5], p[5]) /\ Link(s[6], p[6])
        /\ Link(s[7], p[7])
    BY <1>1, <1>3, <2>1, TopLink
  <2>3. Link(s[1], p[1])
    <3>1. <<"__rp-dir", "child">> \in Path /\ <<"__rp-link">> \in Path
      BY <1>1, Below
    <3>2. StaysWithin(<<"__rp-link">>, <<"__rp-dir", "child">>)
      BY <1>1, TopLeads
    <3> QED
      BY <1>3, <2>1, <3>1, <3>2, LinkIs
  <2>4. DOMAIN s = 1 .. n /\ s \in Seq(SymlinkEntries) /\ n \in Nat
    BY <1>3, <2>1, <2>2, <2>3 DEF Link
  <2>5. \A i \in 1 .. n : Link(s[i], p[i])
    BY <2>1, <2>2, <2>3
  <2>6. \A i, j \in 1 .. n : p[i] = p[j] => i = j
    BY <2>1
  <2>7. Links(s, {p[i] : i \in 1 .. n})
    <3>1. Sited(s, p, n)
      BY <2>4, <2>5, <2>6, Zenon DEF Sited
    <3> QED
      BY <3>1, LinksAre
  <2>8. {p[i] : i \in 1 .. n} = C
    BY <1>2, <2>1
  <2> QED
    BY <2>7, <2>8
<1>7. Apart(A, B, C, D, N)
  <2>1. A \cap B = {} /\ A \cap C = {} /\ B \cap C = {}
    BY <1>2 DEF RealpathD
  <2>2. A = RealpathD /\ B \cup C = RealpathN
    BY <1>2 DEF RealpathN
  <2> QED
    BY <1>4, <2>1, <2>2 DEF Apart
<1>8. PICK k : k = RealpathFixture(f)
  OBVIOUS
<1>9. Enlarged(k, f, d, x, s)
  BY <1>2, <1>3, <1>8 DEF RealpathFixture, Enlarged
<1>10. Fits(k, D \cup A, N \cup B \cup C)
  BY <1>5, <1>6, <1>7, <1>9, PlusApartFits
<1>11. D \cup A = D \cup RealpathD /\ N \cup B \cup C = N \cup RealpathN
  BY <1>2 DEF RealpathN
<1> QED
  BY <1>8, <1>10, <1>11

\* The fixtures of realpath's scenarios.
LEMMA RealpathScenariosFit ==
  LET base == RealpathFixture(BasicFixture)
      chain == PlusSymlink(base, <<"__rp-chain-00">>, <<"__rp-chain-47">>)
  IN Sound(base) /\ Sound(PlusSymlink(chain, <<"__rp-chain-47">>, <<"__rp-file">>))
<1>1. /\ "__rp-chain-00" \in STRING /\ "__rp-chain-47" \in STRING /\ "__rp-file" \in STRING
      /\ "__rp-chain-47" # Up /\ "__rp-file" # Up
  BY NamesAssumption DEF Up
<1>2. PICK D, N : D = BasicD \cup RealpathD /\ N = BasicN \cup RealpathN
  OBVIOUS
<1>3. PICK base : base = RealpathFixture(BasicFixture)
  OBVIOUS
<1>4. Fits(base, D, N)
  <2>1. (RealpathD \cup RealpathN) \cap (BasicD \cup BasicN) = {}
    BY DEF RealpathD, RealpathN, BasicD, BasicN
  <2>2. Fits(BasicFixture, BasicD, BasicN)
    BY BasicFits DEF BasicD, BasicN
  <2> QED
    BY <1>2, <1>3, <2>1, <2>2, RealpathFits
<1>5. PICK chain, M : chain = PlusSymlink(base, <<"__rp-chain-00">>, <<"__rp-chain-47">>) /\ M = N \cup {<<"__rp-chain-00">>}
  OBVIOUS
<1>6. <<"__rp-chain-00">> \notin D \cup N /\ <<"__rp-chain-47">> \notin D \cup M
  BY <1>2, <1>5 DEF RealpathD, RealpathN, BasicD, BasicN
<1>7. Fits(chain, D, M)
  BY <1>1, <1>4, <1>5, <1>6, OneMore
<1>8. Fits(PlusSymlink(chain, <<"__rp-chain-47">>, <<"__rp-file">>), D, M \cup {<<"__rp-chain-47">>})
  BY <1>1, <1>6, <1>7, OneMore
<1> QED
  BY <1>3, <1>4, <1>5, <1>8, FitsIsSound

-----------------------------------------------------------------------------
(* The scenarios.                                                          *)

\* A case that can be started.
Ready(c) ==
  /\ c = [argv |-> c.argv, fixture |-> c.fixture, stdin |-> c.stdin, cwd |-> c.cwd]
  /\ Sound(c.fixture) /\ c.cwd \in {<<>>} \cup ToSet(c.fixture.directories)

\* Cases that can be started in the root.
AtRoot(S) == \A c \in S : Ready(c) /\ c.cwd = <<>>

\* Cases with one fixture.
LEMMA CasesAtRoot ==
  ASSUME NEW f, Sound(f)
  PROVE  /\ \A argvs, stdins : AtRoot(CasesOf(argvs, f, stdins))
         /\ \A counts, stdins : AtRoot(Counted(counts, f, stdins))
         /\ \A counts : AtRoot(Quiet(counts, f))
<1>1. ASSUME NEW argvs, NEW stdins, NEW c \in CasesOf(argvs, f, stdins) PROVE Ready(c) /\ c.cwd = <<>>
  <2>1. PICK a \in argvs, n \in stdins : c = [argv |-> a, fixture |-> f, stdin |-> n, cwd |-> <<>>]
    BY <1>1 DEF CasesOf
  <2> QED
    BY <2>1 DEF Ready
<1>2. \A argvs, stdins : AtRoot(CasesOf(argvs, f, stdins))
  BY <1>1 DEF AtRoot
<1> QED
  BY <1>2, Zenon DEF Counted, Quiet

\* Cases of two kinds.
LEMMA UnionAtRoot == ASSUME NEW S, AtRoot(S), NEW T, AtRoot(T) PROVE AtRoot(S \cup T)
  BY DEF AtRoot

\* The scenarios of utilities that work on their arguments or on a stream.
LEMMA PlainScenariosReady ==
  /\ AtRoot(BasenameScenarios) /\ AtRoot(DirnameScenarios) /\ AtRoot(EchoScenarios) /\ AtRoot(ExprScenarios)
  /\ AtRoot(FactorScenarios) /\ AtRoot(FalseScenarios) /\ AtRoot(LognameScenarios) /\ AtRoot(PrintfScenarios)
  /\ AtRoot(PwdScenarios) /\ AtRoot(SeqScenarios) /\ AtRoot(TrScenarios) /\ AtRoot(TrueScenarios)
  /\ AtRoot(Base64Scenarios) /\ AtRoot(TeeScenarios) /\ AtRoot(FoldScenarios)
<1>1. Sound(BasicFixture) /\ Sound(LineFixture) /\ Sound(FailureFixture)
  BY BasicMore, LineFits, FailureMore
<1>2. /\ AtRoot(BasenameScenarios) /\ AtRoot(DirnameScenarios) /\ AtRoot(EchoScenarios) /\ AtRoot(ExprScenarios)
      /\ AtRoot(FalseScenarios) /\ AtRoot(LognameScenarios) /\ AtRoot(PrintfScenarios)
      /\ AtRoot(PwdScenarios) /\ AtRoot(SeqScenarios) /\ AtRoot(TrueScenarios)
  BY <1>1, CasesAtRoot, Zenon
     DEF BasenameScenarios, DirnameScenarios, EchoScenarios, ExprScenarios, FalseScenarios, LognameScenarios,
         PrintfScenarios, PwdScenarios, SeqScenarios, TrueScenarios
<1>3. AtRoot(FactorScenarios) /\ AtRoot(TrScenarios)
  BY <1>1, CasesAtRoot, UnionAtRoot, Zenon DEF FactorScenarios, TrScenarios
<1>4. AtRoot(Base64Scenarios) /\ AtRoot(TeeScenarios) /\ AtRoot(FoldScenarios)
  BY <1>1, CasesAtRoot, UnionAtRoot, Zenon DEF Base64Scenarios, TeeScenarios, FoldScenarios
<1> QED
  BY <1>2, <1>3, <1>4

\* The scenarios of those whose arguments no guard looks at.
LEMMA UnguardedScenariosReady ==
  /\ AtRoot(CpScenarios) /\ AtRoot(CutScenarios) /\ AtRoot(LinkScenarios) /\ AtRoot(LnScenarios)
  /\ AtRoot(MkdirScenarios) /\ AtRoot(MkfifoScenarios) /\ AtRoot(MvScenarios) /\ AtRoot(NlScenarios)
  /\ AtRoot(PasteScenarios) /\ AtRoot(ReadlinkScenarios) /\ AtRoot(RealpathScenarios) /\ AtRoot(RmScenarios)
  /\ AtRoot(RmdirScenarios) /\ AtRoot(TailScenarios) /\ AtRoot(TouchScenarios) /\ AtRoot(UnlinkScenarios)
  /\ AtRoot(WcScenarios)
<1>1. Sound(BasicFixture) /\ Sound(LineFixture) /\ Sound(FailureFixture)
  BY BasicMore, LineFits, FailureMore
<1>2. AtRoot(CpScenarios)
  BY CpFits, CasesAtRoot, UnionAtRoot, Zenon DEF CpScenarios
<1>3. AtRoot(CutScenarios) /\ AtRoot(LnScenarios) /\ AtRoot(NlScenarios) /\ AtRoot(PasteScenarios)
  BY <1>1, CasesAtRoot, UnionAtRoot, Zenon DEF CutScenarios, LnScenarios, NlScenarios, PasteScenarios
<1>4. AtRoot(ReadlinkScenarios) /\ AtRoot(TailScenarios) /\ AtRoot(TouchScenarios) /\ AtRoot(WcScenarios)
  BY <1>1, CasesAtRoot, UnionAtRoot, Zenon DEF ReadlinkScenarios, TailScenarios, TouchScenarios, WcScenarios
<1>5. AtRoot(LinkScenarios) /\ AtRoot(MkdirScenarios)
  BY BasicMore, CasesAtRoot, UnionAtRoot, Zenon DEF LinkScenarios, MkdirScenarios
<1>6. AtRoot(MkfifoScenarios) /\ AtRoot(UnlinkScenarios)
  BY <1>1, BasicMore, CasesAtRoot, UnionAtRoot, Zenon DEF MkfifoScenarios, UnlinkScenarios
<1>7. AtRoot(MvScenarios)
  BY <1>1, MvDirectoryFits, MvLoopFits, CasesAtRoot, UnionAtRoot, Zenon DEF MvScenarios
<1>8. AtRoot(RealpathScenarios)
  BY RealpathScenariosFit, CasesAtRoot, UnionAtRoot, Zenon DEF RealpathScenarios
<1>9. AtRoot(RmScenarios)
  BY FailureMore, FitsIsSound, CasesAtRoot, UnionAtRoot, Zenon DEF RmScenarios
<1>10. AtRoot(RmdirScenarios)
  BY RmdirFits, CasesAtRoot, UnionAtRoot, Zenon DEF RmdirScenarios
<1> QED
  BY <1>2, <1>3, <1>4, <1>5, <1>6, <1>7, <1>8, <1>9, <1>10

\* The scenarios of those whose arguments a guard looks at.
LEMMA GuardedScenariosReady ==
  /\ AtRoot(CatScenarios) /\ AtRoot(CommScenarios) /\ AtRoot(CsplitScenarios) /\ AtRoot(DateScenarios)
  /\ AtRoot(DdScenarios) /\ AtRoot(DuScenarios) /\ AtRoot(ExpandScenarios) /\ AtRoot(HeadScenarios)
  /\ AtRoot(JoinScenarios) /\ AtRoot(LsScenarios) /\ AtRoot(PrintenvScenarios) /\ AtRoot(StatScenarios)
  /\ AtRoot(TruncateScenarios) /\ AtRoot(TsortScenarios) /\ AtRoot(UniqScenarios)
<1>1. Sound(BasicFixture) /\ Sound(LineFixture) /\ Sound(FailureFixture) /\ Sound(NoFixture)
  BY BasicMore, LineFits, FailureMore, NoFixtureFits, FitsIsSound
<1>2. AtRoot(CatScenarios) /\ AtRoot(UniqScenarios) /\ AtRoot(HeadScenarios)
  BY <1>1, CasesAtRoot, UnionAtRoot, Zenon DEF CatScenarios, UniqScenarios, HeadScenarios
<1>3. AtRoot(CommScenarios) /\ AtRoot(CsplitScenarios) /\ AtRoot(JoinScenarios)
  BY FewFilesFit, CasesAtRoot, UnionAtRoot, Zenon DEF CommScenarios, CsplitScenarios, JoinScenarios
<1>4. AtRoot(DateScenarios) /\ AtRoot(DdScenarios) /\ AtRoot(DuScenarios) /\ AtRoot(ExpandScenarios) /\ AtRoot(PrintenvScenarios)
  BY <1>1, CasesAtRoot, Zenon DEF DateScenarios, DdScenarios, DuScenarios, ExpandScenarios, PrintenvScenarios
<1>5. AtRoot(LsScenarios) /\ AtRoot(StatScenarios) /\ AtRoot(TruncateScenarios)
  BY LsFits, StatFits, TruncateFits, CasesAtRoot, Zenon DEF LsScenarios, StatScenarios, TruncateScenarios
<1>6. AtRoot(TsortScenarios)
  <2>1. ASSUME NEW n \in Nat, NEW argvs PROVE AtRoot(CasesOf(argvs, TsortFixture(n), {n}))
    BY TsortFits, CasesAtRoot
  <2>2. Contents \subseteq Nat
    BY DEF Contents
  <2> QED
    BY <2>1, <2>2, Zenon DEF TsortScenarios, AtRoot
<1> QED
  BY <1>2, <1>3, <1>4, <1>5, <1>6

\* The scenarios of chmod, the only ones that run in another directory.
LEMMA ChmodScenariosReady == \A c \in ChmodScenarios : Ready(c)
<1>1. /\ AtRoot(Quiet({0, 2, 3}, BasicFixture)) /\ AtRoot(Quiet({1, 2, 3, 4}, ChmodScenarioFixture))
      /\ AtRoot(Quiet({3}, Tree(<<<<"d">>, <<"d", "e">>>>, <<>>, <<>>, <<>>)))
      /\ AtRoot(Quiet({3}, PlusDirectories(ChmodScenarioFixture, <<Blocked>>)))
      /\ AtRoot(Quiet({2}, ChmodScenarioFixture))
  BY BasicMore, ChmodScenarioFits, ChmodTreeFits, CasesAtRoot, Zenon
<1>2. PICK child, f : child = <<"tree", "child">> /\ f = ChmodScenarioFixture
  OBVIOUS
<1>3. ASSUME NEW c \in Quiet({2}, f) PROVE Ready([c EXCEPT !.cwd = child])
  <2>1. Ready(c) /\ c.fixture = f
    <3>1. c.fixture = f
      BY <1>3 DEF Quiet, Counted, CasesOf
    <3> QED
      BY <1>1, <1>2, <3>1 DEF AtRoot
  <2>2. child \in ToSet(f.directories)
    BY <1>2, ChmodScenarioFits
  <2> QED
    BY <2>1, <2>2 DEF Ready
<1>4. \A c \in {[k EXCEPT !.cwd = <<"tree", "child">>] : k \in Quiet({2}, ChmodScenarioFixture)} : Ready(c)
  BY <1>2, <1>3
<1> QED
  BY <1>1, <1>4, Zenon DEF ChmodScenarios, AtRoot

\* Cases that can be started.
AllReady(S) == \A c \in S : Ready(c)

\* One of the scenarios of a utility.
LEMMA ScenariosReady ==
  ASSUME NEW u \in DOMAIN Scenarios
  PROVE  AllReady(Scenarios[u]) /\ (u \in {"comm", "csplit"} => AtRoot(Scenarios[u]))
<1>1. \A S : AtRoot(S) => AllReady(S)
  BY DEF AtRoot, AllReady
<1>2. AllReady(ChmodScenarios) /\ AllReady({})
  BY ChmodScenariosReady DEF AllReady
<1> QED
  BY <1>1, <1>2, PlainScenariosReady, UnguardedScenariosReady, GuardedScenariosReady, SMTT(30) DEF Scenarios

-----------------------------------------------------------------------------
(* The random fixture.                                                     *)

\* A set in some order.
LEMMA SetToSeqIs ==
  ASSUME NEW S, IsFiniteSet(S)
  PROVE  SetToSeq(S) \in Seq(S) /\ IsInjective(SetToSeq(S)) /\ ToSet(SetToSeq(S)) = S
<1> DEFINE n == Cardinality(S)
<1>1. n \in Nat /\ IsFiniteSet(1 .. n) /\ Cardinality(1 .. n) = n
  BY FS_CardinalityType, FS_Interval
<1>2. ExistsBijection(1 .. n, S)
  BY <1>1, FS_SameCardinalityBij
<1>3. \E f \in [1 .. n -> S] : IsInjective(f)
  BY <1>2 DEF ExistsBijection, Bijection, Injection, IsInjective
<1>4. PICK f : f = SetToSeq(S)
  OBVIOUS
<1>5. f \in [1 .. n -> S] /\ IsInjective(f)
  BY <1>3, <1>4 DEF SetToSeq
<1>6. f \in Injection(1 .. n, S)
  BY <1>5 DEF Injection, IsInjective
<1>7. f \in Surjection(1 .. n, S)
  BY <1>1, <1>6, FS_Injection
<1>8. ToSet(f) = S
  BY <1>5, <1>7 DEF Surjection, ToSet
<1> QED
  BY <1>1, <1>4, <1>5, <1>8

\* A path and a name there.
LEMMA AppendTo ==
  ASSUME NEW S, NEW p \in Seq(S), NEW a \in S
  PROVE  /\ Append(p, a) \in Seq(S) /\ Append(p, a) # <<>>
         /\ Front(Append(p, a)) = p /\ Last(Append(p, a)) = a
         /\ Len(Append(p, a)) = Len(p) + 1
         /\ \A i \in 1 .. Len(p) : Append(p, a)[i] = p[i]
<1>1. Append(p, a) \in Seq(S) /\ Append(p, a) # <<>> /\ Len(Append(p, a)) = Len(p) + 1
      /\ Append(p, a)[Len(p) + 1] = a /\ \A i \in 1 .. Len(p) : Append(p, a)[i] = p[i]
  OBVIOUS
<1>2. Front(Append(p, a)) \in Seq(S) /\ Len(Front(Append(p, a))) = Len(p)
      /\ \A i \in 1 .. Len(p) : Front(Append(p, a))[i] = p[i]
  <2>1. PICK x : x = Append(p, a)
    OBVIOUS
  <2>2. x \in Seq(S) /\ x # <<>> /\ Len(x) - 1 = Len(p)
    BY <1>1, <2>1
  <2>3. Front(x) \in Seq(S) /\ Len(Front(x)) = Len(p) /\ \A i \in 1 .. Len(p) : Front(x)[i] = x[i]
    BY <2>2, FrontIs
  <2> QED
    BY <1>1, <2>1, <2>3
<1>3. Front(Append(p, a)) = p
  BY <1>2
<1> QED
  BY <1>1, <1>3 DEF Last

\* A name below a path.
LEMMA Named ==
  ASSUME NEW p \in Path, NEW a \in STRING
  PROVE  /\ Append(p, a) \in Path /\ Append(p, a) # <<>>
         /\ Front(Append(p, a)) = p /\ Last(Append(p, a)) = a
         /\ Len(Append(p, a)) = Len(p) + 1
         /\ \A i \in 1 .. Len(p) : Append(p, a)[i] = p[i]
  BY AppendTo, Zenon DEF Path

\* The places of its entries.
RandomD == {<<"d">>, <<"d", "e">>}
\* The files and links a random fixture may have.
RandomN == In(RandomD, "f") \cup In(RandomD, "l") \cup In(RandomD, "h")

\* A path of these names.
Plainly(p) == p \in Path /\ \A i \in 1 .. Len(p) : p[i] \notin {Up, Here}

\* Its directories are in one another, and no name leads up.
LEMMA RandomDirectories ==
  /\ RandomD \subseteq Path \ {<<>>}
  /\ \A p \in RandomD : Front(p) \in RandomD \cup {<<>>} /\ Plainly(p) /\ Last(p) \in {"d", "e"}
  /\ Plainly(<<>>)
<1>1. PICK S, d, e, p, q : S = STRING /\ d = "d" /\ e = "e" /\ p = <<d>> /\ q = <<d, e>>
  OBVIOUS
<1>2. d \in S /\ e \in S /\ d \notin {Up, Here} /\ e \notin {Up, Here}
  BY <1>1, NamesAssumption DEF Up, Here
<1>3. p \in Path /\ q \in Path /\ p # <<>> /\ q # <<>> /\ Front(p) = <<>> /\ Front(q) = p
  BY <1>1, <1>2, Below
<1>4. Len(p) = 1 /\ p[1] = d /\ Len(q) = 2 /\ q[1] = d /\ q[2] = e /\ Last(p) = d /\ Last(q) = e
  BY <1>1 DEF Last
<1>5. Plainly(p) /\ Plainly(q)
  BY <1>2, <1>3, <1>4 DEF Plainly
<1>6. Plainly(<<>>)
  BY DEF Plainly, Path
<1>7. RandomD = {p, q}
  BY <1>1 DEF RandomD
<1> QED
  BY <1>1, <1>3, <1>4, <1>5, <1>6, <1>7

\* What has a name in one of them.
LEMMA InIs ==
  ASSUME NEW ds \in SUBSET RandomD, NEW a \in STRING, a \notin {Up, Here}
  PROVE  \A p \in In(ds, a) :
           /\ Plainly(p) /\ p # <<>> /\ Last(p) = a /\ p \in In(RandomD, a)
           /\ Front(p) \in ds \cup {<<>>} /\ Plainly(Front(p)) /\ Len(Front(p)) = Len(p) - 1
<1> SUFFICES ASSUME NEW p \in In(ds, a)
             PROVE  /\ Plainly(p) /\ p # <<>> /\ Last(p) = a /\ p \in In(RandomD, a)
                    /\ Front(p) \in ds \cup {<<>>} /\ Plainly(Front(p)) /\ Len(Front(p)) = Len(p) - 1
  OBVIOUS
<1>1. PICK q \in ds \cup {<<>>} : p = Append(q, a)
  BY DEF In
<1>2. q \in Path /\ Plainly(q) /\ q \in RandomD \cup {<<>>}
  BY RandomDirectories DEF Plainly
<1>3. /\ p \in Path /\ p # <<>> /\ Front(p) = q /\ Last(p) = a /\ Len(p) = Len(q) + 1
      /\ \A i \in 1 .. Len(q) : p[i] = q[i]
  BY <1>1, <1>2, Named
<1>4. Len(q) \in Nat /\ p[Len(p)] = a
  BY <1>2, <1>3 DEF Path, Last
<1>5. Plainly(p)
  <2>1. ASSUME NEW i \in 1 .. Len(p) PROVE p[i] \notin {Up, Here}
    <3>1. i \in 1 .. Len(q) \/ i = Len(p)
      BY <1>3, <1>4
    <3>2. \A j \in 1 .. Len(q) : q[j] \notin {Up, Here}
      BY <1>2 DEF Plainly
    <3> QED
      BY <1>3, <1>4, <3>1, <3>2
  <2> QED
    BY <1>3, <2>1 DEF Plainly
<1>6. p \in In(RandomD, a)
  BY <1>1, <1>2 DEF In
<1>7. Len(Front(p)) = Len(p) - 1
  BY <1>3, <1>4
<1> QED
  BY <1>1, <1>2, <1>3, <1>5, <1>6, <1>7

\* So they are laid out.
LEMMA RandomLayout == Layout(RandomD, RandomN)
<1>1. PICK f, l, h : f = "f" /\ l = "l" /\ h = "h"
  OBVIOUS
<1>2. f \in STRING /\ l \in STRING /\ h \in STRING /\ {f, l, h} \cap {Up, Here, "d", "e"} = {}
  BY <1>1, NamesAssumption DEF Up, Here
<1>3. \A p \in RandomN : Plainly(p) /\ p # <<>> /\ Last(p) \in {f, l, h} /\ Front(p) \in RandomD \cup {<<>>}
  BY <1>1, <1>2, InIs DEF RandomN
<1>4. RandomD \cap RandomN = {}
  BY <1>2, <1>3, RandomDirectories
<1> QED
  BY <1>3, <1>4, RandomDirectories DEF Layout, Plainly

\* The names two paths begin with.
LEMMA SharedIs ==
  ASSUME NEW S, NEW b \in Seq(S), NEW t \in Seq(S)
  PROVE  Shared(b, t) \in 0 .. Len(b) /\ Shared(b, t) <= Len(t)
<1>1. Len(b) \in Nat /\ Len(t) \in Nat
  OBVIOUS
<1> DEFINE m == Min({Len(b), Len(t)})
           C == {n \in 0 .. m : SubSeq(b, 1, n) = SubSeq(t, 1, n)}
<1>2. m \in Nat /\ m <= Len(b) /\ m <= Len(t)
  BY <1>1 DEF Min
<1>3. SubSeq(b, 1, 0) = SubSeq(t, 1, 0)
  OBVIOUS
<1> HIDE DEF m
<1>4. 0 \in C /\ C \in SUBSET (0 .. m)
  BY <1>2, <1>3
<1>5. Shared(b, t) = Max(C)
  BY DEF Shared, m
<1> HIDE DEF C
<1>6. Max(C) \in 0 .. m
  BY <1>2, <1>4, MaxIs
<1> QED
  BY <1>1, <1>2, <1>5, <1>6

\* A path to a place, from that of a link, stays within the fixture.
LEMMA RelativeStays ==
  ASSUME NEW p, Plainly(p), p # <<>>, Plainly(Front(p)), Len(Front(p)) = Len(p) - 1, NEW t, Plainly(t)
  PROVE  RelativePath(Front(p), t) \in Path /\ StaysWithin(p, RelativePath(Front(p), t))
<1> DEFINE b == Front(p)
           n == Shared(b, t)
           k == Len(b) - n
           ups == [i \in 1 .. k |-> Up]
           rest == SubSeq(t, n + 1, Len(t))
           r == RelativePath(b, t)
<1>1. PICK S : S = STRING
  OBVIOUS
<1>2. Path = Seq(S) /\ Up \in S /\ Here \in S /\ Up # Here
  BY <1>1, NamesAssumption DEF Path, Up, Here
<1>3. p \in Seq(S) /\ b \in Seq(S) /\ t \in Seq(S) /\ \A i \in 1 .. Len(t) : t[i] # Up
  BY <1>2 DEF Plainly
<1>4. n \in 0 .. Len(b) /\ n <= Len(t)
  BY <1>3, SharedIs
<1>5. Len(b) \in Nat /\ Len(t) \in Nat /\ Len(p) = Len(b) + 1
  BY <1>3
<1> HIDE DEF b, n
<1>6. k \in 0 .. Len(p) - 1
  BY <1>4, <1>5
<1>7. ups \in Seq(S) /\ Len(ups) = k
  BY <1>2, <1>6
<1> HIDE DEF k
<1>8. rest \in Seq(S) /\ Len(rest) \in Nat /\ \A i \in 1 .. Len(rest) : rest[i] # Up
  <2>1. rest \in Seq(S) /\ Len(rest) = Len(t) - n
    BY <1>3, <1>4, <1>5
  <2>2. \A i \in 1 .. Len(rest) : rest[i] = t[n + i] /\ n + i \in 1 .. Len(t)
    BY <1>3, <1>4, <1>5, <2>1
  <2> QED
    BY <1>3, <2>1, <2>2, <1>4, <1>5
<1> DEFINE path == ups \o rest
<1>9. r = IF path = <<>> THEN <<Here>> ELSE path
  BY Zenon DEF RelativePath, b, n, k
<1> HIDE DEF ups, rest, r
<1>10. path \in Seq(S) /\ \A i \in 1 .. Len(path) : path[i] = Up => i <= k
  <2>1. path \in Seq(S) /\ Len(path) = k + Len(rest)
    BY <1>7, <1>8
  <2>2. ASSUME NEW i \in 1 .. Len(path), path[i] = Up PROVE i <= k
    <3>1. i > k => path[i] = rest[i - k] /\ i - k \in 1 .. Len(rest)
      BY <1>6, <1>7, <1>8, <2>1
    <3> QED
      BY <1>5, <1>6, <1>8, <2>2, <3>1
  <2> QED
    BY <2>1, <2>2
<1> HIDE DEF path
<1>11. r \in Seq(S) /\ r # <<>> /\ \A i \in 1 .. Len(r) : r[i] = Up => i <= k
  BY <1>2, <1>9, <1>10
<1>12. \A i \in 1 .. Len(p) : p[i] \notin {Up, Here}
  BY DEF Plainly
<1>13. r \in Path /\ StaysWithin(p, r)
  BY <1>2, <1>3, <1>6, <1>11, <1>12, Leads
<1> QED
  BY <1>13 DEF r, b

\* So does a path that climbs nowhere.
LEMMA PlainStays ==
  ASSUME NEW p, Plainly(p), p # <<>>, NEW t, Plainly(t), t # <<>>
  PROVE  StaysWithin(p, t)
<1>1. p \in Path /\ t \in Path /\ 0 \in 0 .. Len(p) - 1
  BY DEF Plainly, Path
<1>2. \A i \in 1 .. Len(p) : p[i] \notin {Up, Here}
  BY DEF Plainly
<1>3. \A i \in 1 .. Len(t) : t[i] = Up => i <= 0
  BY DEF Plainly
<1> QED
  BY <1>1, <1>2, <1>3, Leads

\* The directories of a random fixture.
LEMMA DirectoryListsAre ==
  ASSUME NEW q \in DirectoryLists
  PROVE  q \in Seq(Path) /\ IsInjective(q) /\ ToSet(q) \subseteq RandomD /\ q # <<>>
<1>1. PICK P, a, b : P = Path /\ a = <<"d">> /\ b = <<"d", "e">>
  OBVIOUS
<1>2. a \in P /\ b \in P /\ Front(b) = a /\ Front(a) = <<>> /\ a # <<>>
  <2>1. PICK S, d, e : S = STRING /\ d = "d" /\ e = "e"
    OBVIOUS
  <2>2. d \in S /\ e \in S
    BY <2>1, NamesAssumption
  <2> QED
    BY <1>1, <2>1, <2>2, Below
<1>3. a # b /\ RandomD = {a, b} /\ q \in {<<a>>, <<b>>, <<a, b>>}
  BY <1>1, <1>2 DEF RandomD, DirectoryLists
<1>4. /\ <<a>> \in Seq(P) /\ <<b>> \in Seq(P) /\ <<a, b>> \in Seq(P)
      /\ IsInjective(<<a>>) /\ IsInjective(<<b>>) /\ IsInjective(<<a, b>>)
      /\ ToSet(<<a>>) = {a} /\ ToSet(<<b>>) = {b} /\ ToSet(<<a, b>>) = {a, b}
      /\ <<a>> # <<>> /\ <<b>> # <<>> /\ <<a, b>> # <<>>
  BY <1>2, <1>3 DEF IsInjective, ToSet
<1> QED
  BY <1>1, <1>3, <1>4

\* Its files.
LEMMA RandomFilesAre ==
  ASSUME NEW ds \in SUBSET RandomD, NEW fs \in SUBSET In(ds, "f"), NEW x, x = SetToSeq({File(p, 1) : p \in fs})
  PROVE  x \in Seq(Files) /\ IsInjective(Pluck(x)) /\ ToSet(Pluck(x)) = fs
<1> DEFINE E == {File(p, 1) : p \in fs}
<1>1. \A p \in fs : p \in Path
  <2>1. PICK f : f = "f"
    OBVIOUS
  <2>2. f \in STRING /\ f \notin {Up, Here}
    BY <2>1, NamesAssumption DEF Up, Here
  <2> QED
    BY <2>1, <2>2, InIs DEF Plainly
<1>2. IsFiniteSet(E)
  <2>1. IsFiniteSet(ds \cup {<<>>})
    <3>1. PICK a, b, c : a = <<"d">> /\ b = <<"d", "e">> /\ c = <<>>
      OBVIOUS
    <3>2. IsFiniteSet((({} \cup {a}) \cup {b}) \cup {c})
      BY FS_EmptySet, FS_AddElement
    <3>3. ds \cup {c} \subseteq (({} \cup {a}) \cup {b}) \cup {c}
      BY <3>1 DEF RandomD
    <3> QED
      BY <3>1, <3>2, <3>3, FS_Subset
  <2>2. IsFiniteSet(In(ds, "f"))
    <3> DEFINE g == [d \in ds \cup {<<>>} |-> Append(d, "f")]
    <3>1. g \in Surjection(ds \cup {<<>>}, In(ds, "f"))
      BY DEF Surjection, In
    <3> QED
      BY <2>1, <3>1, FS_Surjection
  <2>3. IsFiniteSet(fs)
    BY <2>2, FS_Subset
  <2> DEFINE g == [p \in fs |-> File(p, 1)]
  <2>4. g \in Surjection(fs, E)
    BY DEF Surjection
  <2> QED
    BY <2>3, <2>4, FS_Surjection
<1>3. E \subseteq Files /\ \A e \in E : e.path \in fs /\ e = File(e.path, 1)
  BY <1>1 DEF File, Files
<1> HIDE DEF E
<1>4. x \in Seq(E) /\ IsInjective(x) /\ ToSet(x) = E
  BY <1>2, SetToSeqIs DEF E
<1>5. Len(x) \in Nat /\ DOMAIN x = 1 .. Len(x) /\ x \in Seq(Files)
  BY <1>3, <1>4
<1>6. Pluck(x) = [i \in 1 .. Len(x) |-> x[i].path] /\ \A i \in 1 .. Len(x) : x[i] \in E
  <2>1. Pluck(x) = [i \in 1 .. Len(x) |-> x[i].path]
    BY <1>5, Zenon DEF Pluck
  <2>2. \A i \in 1 .. Len(x) : x[i] \in E
    BY <1>4, <1>5
  <2> QED
    BY <2>1, <2>2
<1>7. IsInjective(Pluck(x))
  <2> SUFFICES ASSUME NEW i \in 1 .. Len(x), NEW j \in 1 .. Len(x), x[i].path = x[j].path PROVE i = j
    BY <1>6 DEF IsInjective
  <2>1. x[i] = x[j]
    BY <1>3, <1>6
  <2> QED
    BY <1>4, <1>5, <2>1 DEF IsInjective
<1>8. \A p \in fs : File(p, 1) \in E /\ File(p, 1).path = p
  BY DEF E, File
<1>9. ToSet(Pluck(x)) = {x[i].path : i \in 1 .. Len(x)}
  <2>1. PICK y : y = Pluck(x)
    OBVIOUS
  <2>2. DOMAIN y = 1 .. Len(x) /\ \A i \in 1 .. Len(x) : y[i] = x[i].path
    BY <1>6, <2>1
  <2>3. {y[i] : i \in DOMAIN y} = {x[i].path : i \in 1 .. Len(x)}
    BY <2>2
  <2> QED
    BY <2>1, <2>3 DEF ToSet
<1>10. \A e \in E : \E i \in 1 .. Len(x) : e = x[i]
  BY <1>4, <1>5 DEF ToSet
<1>11. ASSUME NEW p \in fs PROVE \E i \in 1 .. Len(x) : p = x[i].path
  <2>1. PICK e : e = File(p, 1)
    OBVIOUS
  <2>2. e \in E /\ e.path = p
    BY <1>8, <2>1
  <2>3. PICK i \in 1 .. Len(x) : e = x[i]
    BY <1>10, <2>2
  <2> QED
    BY <2>2, <2>3
<1>12. \A i \in 1 .. Len(x) : x[i].path \in fs
  BY <1>3, <1>6
<1>13. {x[i].path : i \in 1 .. Len(x)} = fs
  BY <1>11, <1>12, ZenonT(40)
<1> QED
  BY <1>5, <1>7, <1>9, <1>13

\* Its symlinks: at what places, and where to.
LEMMA RandomTargetsStay ==
  ASSUME NEW ds \in SUBSET RandomD, NEW fs \in SUBSET In(ds, "f"), NEW p \in In(ds, "l"), NEW dangling,
         NEW t \in SymlinkTargets(Front(p), ds \cup fs, dangling)
  PROVE  Link(Symlink(p, t), p)
<1>1. PICK f, l, gone : f = "f" /\ l = "l" /\ gone = <<"gone">>
  OBVIOUS
<1>2. f \in STRING /\ f \notin {Up, Here} /\ l \in STRING /\ l \notin {Up, Here}
  BY <1>1, NamesAssumption DEF Up, Here
<1>3. Plainly(gone) /\ gone # <<>>
  <2>1. PICK S, g : S = STRING /\ g = "gone"
    OBVIOUS
  <2>2. g \in S /\ g \notin {Up, Here} /\ <<g>> \in Seq(S)
    BY <2>1, NamesAssumption DEF Up, Here
  <2>3. <<g>> # <<>> /\ Len(<<g>>) = 1 /\ <<g>>[1] = g
    OBVIOUS
  <2> QED
    BY <1>1, <2>1, <2>2, <2>3 DEF Plainly, Path
<1>4. \A q \in ds \cup fs \cup {gone} : Plainly(q) /\ q # <<>>
  BY <1>1, <1>2, <1>3, InIs, RandomDirectories
<1>5. Plainly(p) /\ p # <<>> /\ Plainly(Front(p)) /\ Len(Front(p)) = Len(p) - 1
  BY <1>1, <1>2, InIs
<1>6. (\E q \in ds \cup fs : t = RelativePath(Front(p), q)) \/ t \in ds \cup fs \cup {gone}
  BY <1>1 DEF SymlinkTargets
<1>7. t \in Path /\ StaysWithin(p, t)
  <2>1. CASE \E q \in ds \cup fs : t = RelativePath(Front(p), q)
    BY <1>4, <1>5, <2>1, RelativeStays
  <2>2. CASE t \in ds \cup fs \cup {gone}
    BY <1>4, <1>5, <2>2, PlainStays DEF Plainly
  <2> QED
    BY <1>6, <2>1, <2>2
<1> QED
  BY <1>5, <1>7, LinkIs DEF Plainly

\* A list of one link.
LEMMA OneLinked == ASSUME NEW p, NEW e, Link(e, p) PROVE Links(<<e>>, {p})
<1>1. Sited(<<e>>, <<p>>, 1)
  BY DEF Sited, Link
<1>2. {<<p>>[i] : i \in 1 .. 1} = {p}
  OBVIOUS
<1> QED
  BY <1>1, <1>2, LinksAre

\* A list of two links.
LEMMA TwoLinked ==
  ASSUME NEW p, NEW q, p # q, NEW e, Link(e, p), NEW k, Link(k, q)
  PROVE  Links(<<e, k>>, {p, q})
<1>1. Sited(<<e, k>>, <<p, q>>, 2)
  BY DEF Sited, Link
<1>2. {<<p, q>>[i] : i \in 1 .. 2} = {p, q}
  OBVIOUS
<1> QED
  BY <1>1, <1>2, LinksAre

\* The links of a random fixture are below its directories and lead to what is in it.
LEMMA SymlinkedAre ==
  ASSUME NEW ds \in SUBSET RandomD, NEW fs \in SUBSET In(ds, "f"), NEW budget, NEW dangling,
         NEW s \in Symlinked(ds, fs, budget, dangling)
  PROVE  \E P \in SUBSET In(ds, "l") : Links(s, P)
<1> DEFINE paths == In(ds, "l")
           At(p) == {Symlink(p, t) : t \in SymlinkTargets(Front(p), ds \cup fs, dangling)}
<1>1. \/ s = <<>>
      \/ \E p \in paths : \E e \in At(p) : s = <<e>>
      \/ \E p, q \in paths : \E e \in At(p), k \in At(q) : Len(p) < Len(q) /\ s = <<e, k>>
  <2> DEFINE pairs == {y \in paths \X paths : Len(y[1]) < Len(y[2])}
  <2>1. \/ s = <<>>
        \/ s \in UNION {{<<e>> : e \in At(p)} : p \in paths}
        \/ s \in UNION {At(x[1]) \X At(x[2]) : x \in pairs}
    BY Zenon DEF Symlinked
  <2> HIDE DEF At, paths
  <2>2. CASE s \in UNION {At(x[1]) \X At(x[2]) : x \in pairs}
    <3>1. PICK x \in pairs : s \in At(x[1]) \X At(x[2])
      BY <2>2
    <3>2. x[1] \in paths /\ x[2] \in paths /\ Len(x[1]) < Len(x[2])
      OBVIOUS
    <3>3. s = <<s[1], s[2]>> /\ s[1] \in At(x[1]) /\ s[2] \in At(x[2])
      BY <3>1
    <3> QED
      BY <3>2, <3>3, Zenon
  <2> QED
    BY <2>1, <2>2
<1>2. CASE s = <<>>
  BY <1>2, NoLinks
<1>3. \A p \in paths : \A e \in At(p) : Link(e, p)
  <2> SUFFICES ASSUME NEW p \in paths, NEW t \in SymlinkTargets(Front(p), ds \cup fs, dangling)
               PROVE  Link(Symlink(p, t), p)
    OBVIOUS
  <2> QED
    BY RandomTargetsStay
<1>4. CASE \E p \in paths : \E e \in At(p) : s = <<e>>
  <2>1. PICK p, e : p \in paths /\ e \in At(p) /\ s = <<e>>
    BY <1>4
  <2> HIDE DEF At, paths
  <2>2. Link(e, p)
    BY <1>3, <2>1
  <2>3. Links(s, {p})
    BY <2>1, <2>2, OneLinked
  <2> QED
    BY <2>1, <2>3 DEF paths
<1>5. CASE \E p, q \in paths : \E e \in At(p), k \in At(q) : Len(p) < Len(q) /\ s = <<e, k>>
  <2>0. PICK p \in paths, q \in paths : \E e \in At(p), k \in At(q) : Len(p) < Len(q) /\ s = <<e, k>>
    BY <1>5
  <2>1. PICK e, k : e \in At(p) /\ k \in At(q) /\ Len(p) < Len(q) /\ s = <<e, k>>
    BY <2>0
  <2>2. Link(e, p) /\ Link(k, q)
    BY <1>3, <2>1
  <2>3. p # q
    <3>1. p \in Path /\ q \in Path
      <4>1. PICK l : l = "l"
        OBVIOUS
      <4>2. l \in STRING /\ l \notin {Up, Here}
        BY <4>1, NamesAssumption DEF Up, Here
      <4> QED
        BY <4>1, <4>2, InIs DEF Plainly
    <3> QED
      BY <2>1, <3>1 DEF Path
  <2>4. Links(s, {p, q})
    BY <2>1, <2>2, <2>3, TwoLinked
  <2> QED
    BY <2>4
<1> QED
  BY <1>1, <1>2, <1>4, <1>5

\* Its hardlinks.
LEMMA HardlinkedAre ==
  ASSUME NEW ds \in SUBSET RandomD, NEW fs \in SUBSET In(ds, "f"), NEW s, NEW P, Links(s, P), P \cap fs = {},
         NEW h \in Hardlinked(ds, fs, s)
  PROVE  /\ h \in Seq(HardlinkEntries) /\ IsInjective(Pluck(h)) /\ ToSet(Pluck(h)) \subseteq In(ds, "h")
         /\ \A k \in ToSet(h) :
              /\ k.source \in fs \cup P
              /\ \A l \in ToSet(s) : l.path = k.source => StaysWithin(k.path, l.target)
<1>1. \A p \in In(ds, "h") \cup fs : p \in Path
  <2>1. PICK a, b : a = "h" /\ b = "f"
    OBVIOUS
  <2>2. a \in STRING /\ a \notin {Up, Here} /\ b \in STRING /\ b \notin {Up, Here}
    BY <2>1, NamesAssumption DEF Up, Here
  <2> QED
    BY <2>1, <2>2, InIs DEF Plainly
<1>2. /\ s \in Seq(SymlinkEntries) /\ IsInjective(Pluck(s)) /\ P = ToSet(Pluck(s))
      /\ \A l \in ToSet(s) : l \in SymlinkEntries /\ l.path \in P
      /\ \A l, m \in ToSet(s) : l.path = m.path => l = m
  <2>1. s \in Seq(SymlinkEntries) /\ IsInjective(Pluck(s)) /\ P = ToSet(Pluck(s))
    BY DEF Links
  <2>2. DOMAIN Pluck(s) = DOMAIN s /\ \A i \in DOMAIN s : Pluck(s)[i] = s[i].path
    <3>1. Pluck(s) = [i \in DOMAIN s |-> s[i].path]
      BY Zenon DEF Pluck
    <3> QED
      BY <3>1
  <2>3. \A l \in ToSet(s) : \E i \in DOMAIN s : l = s[i]
    BY DEF ToSet
  <2>4. \A i \in DOMAIN s : s[i] \in SymlinkEntries /\ s[i].path \in P
    BY <2>1, <2>2 DEF ToSet
  <2>5. \A i, j \in DOMAIN s : s[i].path = s[j].path => i = j
    BY <2>1, <2>2 DEF IsInjective
  <2> QED
    BY <2>1, <2>3, <2>4, <2>5
<1>3. PICK p, q : /\ h = <<Hardlink(p, q)>> /\ p \in In(ds, "h")
                  /\ q \in fs \/ \E l \in ToSet(s) : q = l.path /\ StaysWithin(p, l.target)
  <2>1. \/ \E p \in In(ds, "h"), f \in fs : h = <<Hardlink(p, f)>>
        \/ \E x \in In(ds, "h") \X ToSet(s) : StaysWithin(x[1], x[2].target) /\ h = <<Hardlink(x[1], x[2].path)>>
    BY DEF Hardlinked
  <2> QED
    BY <2>1
<1>4. p \in Path /\ q \in Path
  BY <1>1, <1>2, <1>3 DEF SymlinkEntries
<1> DEFINE k == Hardlink(p, q)
<1>5. k \in HardlinkEntries /\ k.path = p /\ k.source = q
  BY <1>4 DEF Hardlink, HardlinkEntries
<1>6. h \in Seq(HardlinkEntries) /\ ToSet(h) = {k} /\ IsInjective(Pluck(h)) /\ ToSet(Pluck(h)) = {p}
  <2> HIDE DEF k
  <2>1. <<k>> \in Seq(HardlinkEntries) /\ ToSet(<<k>>) = {k} /\ Pluck(<<k>>) = <<p>>
    BY <1>5, OneEntry
  <2>2. ToSet(<<p>>) = {p} /\ IsInjective(<<p>>)
    BY DEF ToSet, IsInjective
  <2> QED
    BY <1>3, <2>1, <2>2 DEF k
<1>7. q \in fs \cup P
  BY <1>2, <1>3
<1>8. \A l \in ToSet(s) : l.path = q => StaysWithin(p, l.target)
  BY <1>2, <1>3
<1> HIDE DEF k
<1> QED
  BY <1>3, <1>5, <1>6, <1>7, <1>8

\* What it is made of.
LEMMA RandomFixturesAre ==
  ASSUME NEW m, NEW dangling, NEW f \in RandomFixtures(m, dangling)
  PROVE  \E list \in DirectoryLists : \E fs \in SUBSET In(ToSet(list), "f") :
         \E budget, s, h :
           /\ f = [directories |-> list, files |-> SetToSeq({File(p, 1) : p \in fs}), symlinks |-> s, hardlinks |-> h]
           /\ s \in Symlinked(ToSet(list), fs, budget, dangling)
           /\ h = <<>> \/ h \in Hardlinked(ToSet(list), fs, s)
<1> DEFINE total == Max({m, 1})
           Drafted(list, fs, s, h) ==
             [directories |-> list, files |-> SetToSeq({File(p, 1) : p \in fs}), symlinks |-> s, hardlinks |-> h]
           left(list) == total - Len(list)
           budget(list, fs) == Min({2, left(list) - Cardinality(fs)})
           hardlinked(list, fs, s) ==
             {<<>>} \cup (IF left(list) > Cardinality(fs) + Len(s) /\ fs # {} THEN Hardlinked(ToSet(list), fs, s) ELSE {})
           files(list) == {x \in AtMost(left(list), In(ToSet(list), "f")) : (x = {}) = (left(list) = 0)}
           lists == {q \in DirectoryLists : Len(q) <= Min({4, total})}
<1>1. RandomFixtures(m, dangling)
        = UNION {UNION {UNION {{Drafted(list, fs, s, h) : h \in hardlinked(list, fs, s)} :
                                 s \in Symlinked(ToSet(list), fs, budget(list, fs), dangling)} :
                          fs \in files(list)} : list \in lists}
  BY Zenon DEF RandomFixtures
<1>2. \A list : files(list) \in SUBSET (SUBSET In(ToSet(list), "f"))
  BY DEF AtMost
<1>3. lists \subseteq DirectoryLists
  OBVIOUS
<1>4. \A list, fs, s : \A h \in hardlinked(list, fs, s) : h = <<>> \/ h \in Hardlinked(ToSet(list), fs, s)
  OBVIOUS
<1> HIDE DEF files, lists, hardlinked, budget, left, total, Drafted
<1> DEFINE Of(list, fs, s) == {Drafted(list, fs, s, h) : h \in hardlinked(list, fs, s)}
           Filed(list, fs) == UNION {Of(list, fs, s) : s \in Symlinked(ToSet(list), fs, budget(list, fs), dangling)}
           Under(list) == UNION {Filed(list, fs) : fs \in files(list)}
<1> HIDE DEF Of, Filed, Under
<1>5. RandomFixtures(m, dangling) = UNION {Under(list) : list \in lists}
  BY <1>1, Zenon DEF Under, Filed, Of
<1>6. PICK list \in lists : f \in Under(list)
  BY <1>5
<1>7. PICK fs \in files(list) : f \in Filed(list, fs)
  BY <1>6 DEF Under
<1>8. PICK s : s \in Symlinked(ToSet(list), fs, budget(list, fs), dangling) /\ f \in Of(list, fs, s)
  BY <1>7 DEF Filed
<1>9. PICK h : h \in hardlinked(list, fs, s) /\ f = Drafted(list, fs, s, h)
  BY <1>8 DEF Of
<1> QED
  BY <1>2, <1>3, <1>4, <1>8, <1>9, Zenon DEF Drafted

\* Every random fixture can be put on disk.
LEMMA RandomFits ==
  ASSUME NEW m, NEW dangling, NEW f \in RandomFixtures(m, dangling)
  PROVE  Fits(f, RandomD, RandomN) /\ f.directories # <<>>
<1>1. PICK list, fs, budget, s, h :
        /\ list \in DirectoryLists
        /\ fs \in SUBSET In(ToSet(list), "f")
        /\ f = [directories |-> list, files |-> SetToSeq({File(p, 1) : p \in fs}), symlinks |-> s, hardlinks |-> h]
        /\ s \in Symlinked(ToSet(list), fs, budget, dangling)
        /\ h = <<>> \/ h \in Hardlinked(ToSet(list), fs, s)
  BY RandomFixturesAre
<1> DEFINE ds == ToSet(list)
           x == SetToSeq({File(p, 1) : p \in fs})
<1>2. list \in Seq(Path) /\ IsInjective(list) /\ ds \in SUBSET RandomD /\ list # <<>>
  BY <1>1, DirectoryListsAre
<1> HIDE DEF ds
<1>3. fs \in SUBSET In(ds, "f")
  BY <1>1 DEF ds
<1>4. x \in Seq(Files) /\ IsInjective(Pluck(x)) /\ ToSet(Pluck(x)) = fs
  BY <1>2, <1>3, RandomFilesAre
<1> HIDE DEF x
<1>5. PICK P \in SUBSET In(ds, "l") : Links(s, P)
  BY <1>1, <1>2, <1>3, SymlinkedAre DEF ds
<1>6. s \in Seq(SymlinkEntries) /\ IsInjective(Pluck(s)) /\ ToSet(Pluck(s)) = P
      /\ \A l \in ToSet(s) : StaysWithin(l.path, l.target)
  BY <1>5 DEF Links
<1>7. \A a, b : \A p \in In(ds, a), q \in In(ds, b) :
        a \in {"f", "l", "h"} /\ b \in {"f", "l", "h"} =>
          p \in In(RandomD, a) /\ (a # b => p # q)
  <2>1. ASSUME NEW a \in {"f", "l", "h"} PROVE a \in STRING /\ a \notin {Up, Here}
    BY NamesAssumption DEF Up, Here
  <2> SUFFICES ASSUME NEW a \in {"f", "l", "h"}, NEW b \in {"f", "l", "h"}, NEW p \in In(ds, a), NEW q \in In(ds, b)
               PROVE  p \in In(RandomD, a) /\ (a # b => p # q)
    OBVIOUS
  <2>2. Last(p) = a /\ Last(q) = b /\ p \in In(RandomD, a)
    BY <1>2, <2>1, InIs
  <2> QED
    BY <2>2
<1>8. PICK F, L, H : /\ F = In(RandomD, "f") /\ L = In(RandomD, "l") /\ H = In(RandomD, "h")
  OBVIOUS
<1>9. fs \subseteq F /\ P \subseteq L /\ In(ds, "h") \subseteq H /\ fs \cap P = {}
      /\ fs \cap In(ds, "h") = {} /\ P \cap In(ds, "h") = {}
  BY <1>3, <1>5, <1>7, <1>8
<1>10. /\ h \in Seq(HardlinkEntries) /\ IsInjective(Pluck(h)) /\ ToSet(Pluck(h)) \subseteq In(ds, "h")
       /\ \A k \in ToSet(h) :
            /\ k.source \in fs \cup P
            /\ \A l \in ToSet(s) : l.path = k.source => StaysWithin(k.path, l.target)
  <2>1. CASE h = <<>>
    BY <2>1, NoEntry
  <2>2. CASE h \in Hardlinked(ds, fs, s)
    <3>1. P \cap fs = {}
      BY <1>9
    <3> QED
      BY <1>2, <1>3, <1>5, <2>2, <3>1, HardlinkedAre, Zenon
  <2> QED
    BY <1>1, <2>1, <2>2 DEF ds
<1>11. /\ f.directories = list /\ f.files = x /\ f.symlinks = s /\ f.hardlinks = h
       /\ f = [directories |-> list, files |-> x, symlinks |-> s, hardlinks |-> h]
  BY <1>1 DEF x
<1>12. f \in Blueprints
  BY <1>2, <1>4, <1>6, <1>10, <1>11, BlueprintOf
<1>13. NonDirectories(f) = fs \cup P \cup ToSet(Pluck(h))
  <2>1. Listed(f)
    BY <1>12, BlueprintsAreLists
  <2> QED
    BY <1>4, <1>6, <1>11, <2>1, DestinationsAre
<1>14. NonDirectories(f) \subseteq RandomN
  BY <1>8, <1>9, <1>10, <1>13 DEF RandomN
<1>15. /\ IsInjective(f.directories) /\ IsInjective(Pluck(f.files))
       /\ IsInjective(Pluck(f.symlinks)) /\ IsInjective(Pluck(f.hardlinks)) /\ ToSet(f.directories) \subseteq RandomD
  BY <1>2, <1>4, <1>6, <1>10, <1>11 DEF ds
<1>16. LET A == ToSet(Pluck(f.files))
           B == ToSet(Pluck(f.symlinks))
           C == ToSet(Pluck(f.hardlinks))
       IN A \cap B = {} /\ A \cap C = {} /\ B \cap C = {}
  BY <1>4, <1>6, <1>9, <1>10, <1>11
<1>17. /\ \A l \in ToSet(f.symlinks) : StaysWithin(l.path, l.target)
       /\ \A k \in ToSet(f.hardlinks) :
            /\ k.source \in ToSet(Pluck(f.files)) \cup ToSet(Pluck(f.symlinks))
            /\ \A l \in ToSet(f.symlinks) : l.path = k.source => StaysWithin(k.path, l.target)
  BY <1>4, <1>6, <1>10, <1>11
<1>18. Fits(f, RandomD, RandomN)
  BY <1>12, <1>14, <1>15, <1>16, <1>17, RandomLayout, LaidOut
<1> QED
  BY <1>2, <1>11, <1>18

-----------------------------------------------------------------------------
(* What generators make of the random fixture.                             *)

\* Whatever is called something else is nowhere among its places.
LEMMA NotRandom ==
  ASSUME NEW p, p \in RandomD \cup RandomN
  PROVE  Last(p) \in {"d", "e", "f", "l", "h"}
<1>1. CASE p \in RandomD
  BY <1>1, RandomDirectories
<1>2. CASE p \in RandomN
  <2>1. ASSUME NEW a \in {"f", "l", "h"} PROVE a \in STRING /\ a \notin {Up, Here}
    BY NamesAssumption DEF Up, Here
  <2>2. PICK a \in {"f", "l", "h"} : p \in In(RandomD, a)
    BY <1>2 DEF RandomN
  <2>3. Last(p) = a
    BY <2>1, <2>2, InIs
  <2> QED
    BY <2>3
<1> QED
  BY <1>1, <1>2

\* With more files where there are few.
LEMMA PaddedFits ==
  ASSUME NEW m, NEW f \in RandomFixtures(m, TRUE)
  PROVE  Sound(Padded(f))
<1>1. Fits(f, RandomD, RandomN)
  BY RandomFits
<1>2. Len(f.files) \in Nat
  BY <1>1, LengthsOf DEF Fits
<1> DEFINE n == Less(3, Len(f.files))
<1>3. n \in 0 .. 3
  <2>1. \A k \in Nat : (IF 3 < k THEN 0 ELSE 3 - k) \in 0 .. 3
    OBVIOUS
  <2> QED
    BY <1>2, <2>1 DEF Less
<1> HIDE DEF n
<1>4. PICK S, a, b, c : S = STRING /\ a = "du-input-0" /\ b = "du-input-1" /\ c = "du-input-2"
  OBVIOUS
<1>5. a \in S /\ b \in S /\ c \in S /\ a # b /\ a # c /\ b # c
      /\ {a, b, c} \cap {"d", "e", "f", "l", "h"} = {}
  BY <1>4, NamesAssumption
<1>6. Padding = Top(<<a, b, c>>)
  BY <1>4 DEF Padding
<1> HIDE DEF Padding
<1>7. Padding \in Seq(Path) /\ IsInjective(Padding) /\ ToSet(Padding) = {<<a>>, <<b>>, <<c>>}
  <2>1. <<a, b, c>> \in Seq(S) /\ IsInjective(<<a, b, c>>) /\ ToSet(<<a, b, c>>) = {a, b, c}
    BY <1>5 DEF IsInjective, ToSet
  <2>2. Padding \in Seq(Path) /\ ToSet(Padding) = Tops(<<a, b, c>>) /\ IsInjective(Padding)
    BY <1>4, <1>6, <2>1, TopIs
  <2>3. Tops(<<a, b, c>>) = {<<a>>, <<b>>, <<c>>}
    BY <2>1 DEF Tops
  <2> QED
    BY <2>2, <2>3
<1>8. Len(Padding) = 3
  BY <1>6 DEF Top
<1> DEFINE x == SubSeq(Padding, 1, n)
<1>9. x \in Seq(Path) /\ Len(x) = n /\ \A i \in 1 .. n : x[i] = Padding[i]
  BY <1>3, <1>7, <1>8, UpTo
<1> HIDE DEF x
<1>10. IsInjective(x) /\ ToSet(x) \subseteq {<<a>>, <<b>>, <<c>>}
  BY <1>3, <1>7, <1>8, <1>9 DEF IsInjective, ToSet
<1>11. Lists(x, ToSet(x))
  BY <1>9, <1>10 DEF Lists
<1>12. ASSUME NEW p \in {<<a>>, <<b>>, <<c>>}
       PROVE  p \in Path /\ p # <<>> /\ p \notin RandomD \cup RandomN /\ Front(p) = <<>>
  <2>1. PICK z : z \in {a, b, c} /\ p = <<z>>
    BY <1>4
  <2>2. z \in S /\ z \notin {"d", "e", "f", "l", "h"}
    BY <1>5, <2>1
  <2>3. p \in Path /\ p # <<>> /\ Front(p) = <<>>
    BY <1>4, <2>1, <2>2, Below
  <2>4. Last(p) = z
    BY <2>1 DEF Last
  <2> QED
    BY <2>2, <2>3, <2>4, NotRandom
<1>13. Apart({}, ToSet(x), {}, RandomD, RandomN)
  BY <1>10, <1>12 DEF Apart
<1>14. Enlarged(Padded(f), f, <<>>, x, <<>>)
  BY DEF Enlarged, Padded, x, n
<1>15. Fits(Padded(f), RandomD \cup {}, RandomN \cup ToSet(x) \cup {})
  BY <1>1, <1>11, <1>13, <1>14, NoneListed, NoLinks, PlusApartFits
<1> QED
  BY <1>15, FitsIsSound

\* With the entries that realpath is tried on.
LEMMA RandomRealpathFits ==
  ASSUME NEW m, NEW f \in RandomFixtures(m, TRUE)
  PROVE  Sound(RealpathFixture(f))
<1>1. Fits(f, RandomD, RandomN)
  BY RandomFits
<1>2. ASSUME NEW p \in RealpathD \cup RealpathN PROVE p \notin RandomD \cup RandomN
  <2>1. Last(p) \notin {"d", "e", "f", "l", "h"}
    BY <1>2 DEF RealpathD, RealpathN, Last
  <2> QED
    BY <2>1, NotRandom
<1>3. (RealpathD \cup RealpathN) \cap (RandomD \cup RandomN) = {}
  BY <1>2
<1>4. Fits(RealpathFixture(f), RandomD \cup RealpathD, RandomN \cup RealpathN)
  BY <1>1, <1>3, RealpathFits
<1> QED
  BY <1>4, FitsIsSound

\* What chmod is tried on: a random fixture without its links, or less of one, with
\* links of its own.
ChmodLinks == {<<"chmod-file-link">>, <<"chmod-dir-link">>, <<"chmod-dangling-link">>, <<"chmod-cycle-a">>, <<"chmod-cycle-b">>}
\* The files it may have.
ChmodFiles == RandomN \cup {<<"chmod-target">>}

\* Directories and files, as a random fixture and chmod have them.
Bare(d, x) ==
  /\ d \in Seq(Path) /\ IsInjective(d) /\ ToSet(d) \subseteq RandomD
  /\ x \in Seq(Files) /\ IsInjective(Pluck(x)) /\ ToSet(Pluck(x)) \subseteq ChmodFiles

\* The names that chmod adds are plain, and are none of the random ones.
LEMMA ChmodNames ==
  ASSUME NEW a \in {"chmod-file-link", "chmod-dir-link", "chmod-dangling-link", "chmod-cycle-a",
                    "chmod-cycle-b", "chmod-target", "chmod-missing-target"}
  PROVE  /\ a \in STRING /\ a # Up /\ Plainly(<<a>>) /\ <<a>> # <<>> /\ Front(<<a>>) = <<>>
         /\ <<a>> \notin RandomD \cup RandomN
<1>1. a \in STRING /\ a \notin {Up, Here} /\ a \notin {"d", "e", "f", "l", "h"}
  BY NamesAssumption DEF Up, Here
<1>2. <<a>> \in Path /\ <<a>> # <<>> /\ Front(<<a>>) = <<>>
  BY <1>1, Below
<1>3. Len(<<a>>) = 1 /\ <<a>>[1] = a /\ Last(<<a>>) = a
  BY DEF Last
<1>4. Plainly(<<a>>)
  BY <1>1, <1>2, <1>3 DEF Plainly
<1> QED
  BY <1>1, <1>2, <1>3, <1>4, NotRandom

\* So what chmod is tried on is laid out.
LEMMA ChmodLayout ==
  /\ Layout(RandomD, ChmodFiles \cup ChmodLinks) /\ ChmodFiles \cap ChmodLinks = {}
  /\ \A p \in RandomD \cup ChmodFiles : Plainly(p) /\ p # <<>>
<1>1. ASSUME NEW p \in ChmodLinks \cup {<<"chmod-target">>}
      PROVE  p \in Path /\ Plainly(p) /\ p # <<>> /\ Front(p) = <<>> /\ p \notin RandomD \cup RandomN
  <2>1. PICK a \in {"chmod-file-link", "chmod-dir-link", "chmod-dangling-link", "chmod-cycle-a",
                    "chmod-cycle-b", "chmod-target"} : p = <<a>>
    BY DEF ChmodLinks
  <2> QED
    BY <2>1, ChmodNames DEF Plainly
<1>2. <<"chmod-target">> \notin ChmodLinks
  BY DEF ChmodLinks
<1>3. Layout(RandomD, RandomN)
  BY RandomLayout
<1>4. Layout(RandomD, ChmodFiles \cup ChmodLinks)
  BY <1>1, <1>3 DEF Layout, ChmodFiles
<1>5. ASSUME NEW p \in RandomN PROVE Plainly(p) /\ p # <<>>
  <2>1. ASSUME NEW a \in {"f", "l", "h"} PROVE a \in STRING /\ a \notin {Up, Here}
    BY NamesAssumption DEF Up, Here
  <2>2. PICK a \in {"f", "l", "h"} : p \in In(RandomD, a)
    BY DEF RandomN
  <2> QED
    BY <2>1, <2>2, InIs
<1> QED
  BY <1>1, <1>2, <1>4, <1>5, RandomDirectories DEF ChmodFiles

\* The first of its entries.
LEMMA BareFirst ==
  ASSUME NEW d, NEW x, Bare(d, x), NEW j \in 0 .. Len(d), NEW i \in 0 .. Len(x)
  PROVE  /\ Bare(SubSeq(d, 1, j), SubSeq(x, 1, i))
         /\ Len(SubSeq(d, 1, j)) = j /\ Len(SubSeq(x, 1, i)) = i
<1> DEFINE e == SubSeq(d, 1, j)
           y == SubSeq(x, 1, i)
<1>1. d \in Seq(Path) /\ x \in Seq(Files) /\ Len(d) \in Nat /\ Len(x) \in Nat
  BY DEF Bare
<1>2. /\ e \in Seq(Path) /\ Len(e) = j /\ \A k \in 1 .. j : e[k] = d[k]
      /\ y \in Seq(Files) /\ Len(y) = i /\ \A k \in 1 .. i : y[k] = x[k]
  BY <1>1, UpTo
<1> HIDE DEF e, y
<1>3. Part(e, d) /\ Part(y, x)
  <2>1. ASSUME NEW S, NEW a \in Seq(S), NEW n \in 0 .. Len(a), NEW b \in Seq(S), Len(b) = n,
               \A k \in 1 .. n : b[k] = a[k]
        PROVE  Part(b, a)
    <3> DEFINE g == [k \in DOMAIN b |-> k]
    <3>1. g \in [DOMAIN b -> DOMAIN a] /\ IsInjective(g) /\ \A k \in DOMAIN b : b[k] = a[g[k]]
      BY <2>1 DEF IsInjective
    <3> QED
      BY <3>1 DEF Part
  <2> QED
    BY <1>1, <1>2, <2>1
<1>4. Part(Pluck(y), Pluck(x))
  BY <1>3, PartPlucks
<1>5. Bare(e, y)
  BY <1>2, <1>3, <1>4, PartIsPart DEF Bare
<1> QED
  BY <1>2, <1>5 DEF e, y

\* With these links it can be put on disk.
LEMMA BareLinked ==
  ASSUME NEW d, NEW x, Bare(d, x), NEW s, NEW P \in SUBSET ChmodLinks, Links(s, P),
         NEW k, k = [directories |-> d, files |-> x, symlinks |-> s, hardlinks |-> <<>>]
  PROVE  Sound(k)
<1>1. /\ d \in Seq(Path) /\ IsInjective(d) /\ ToSet(d) \subseteq RandomD
      /\ x \in Seq(Files) /\ IsInjective(Pluck(x)) /\ ToSet(Pluck(x)) \subseteq ChmodFiles
  BY DEF Bare
<1>2. s \in Seq(SymlinkEntries) /\ IsInjective(Pluck(s)) /\ ToSet(Pluck(s)) = P
      /\ \A l \in ToSet(s) : StaysWithin(l.path, l.target)
  BY DEF Links
<1>3. <<>> \in Seq(HardlinkEntries) /\ ToSet(<<>>) = {} /\ IsInjective(<<>>) /\ Pluck(<<>>) = <<>>
  BY NoEntry
<1>4. k.directories = d /\ k.files = x /\ k.symlinks = s /\ k.hardlinks = <<>>
  OBVIOUS
<1>5. k \in Blueprints
  BY <1>1, <1>2, <1>3, BlueprintOf
<1>6. NonDirectories(k) = ToSet(Pluck(x)) \cup P
  BY <1>2, <1>3, <1>4, <1>5, BlueprintsAreLists, DestinationsAre
<1>7. /\ NonDirectories(k) \subseteq ChmodFiles \cup ChmodLinks /\ ToSet(k.directories) \subseteq RandomD
      /\ IsInjective(k.directories) /\ IsInjective(Pluck(k.files))
      /\ IsInjective(Pluck(k.symlinks)) /\ IsInjective(Pluck(k.hardlinks))
  BY <1>1, <1>2, <1>3, <1>4, <1>6
<1>8. LET A == ToSet(Pluck(k.files))
          B == ToSet(Pluck(k.symlinks))
          C == ToSet(Pluck(k.hardlinks))
      IN A \cap B = {} /\ A \cap C = {} /\ B \cap C = {}
  BY <1>1, <1>2, <1>3, <1>4, ChmodLayout
<1>9. /\ \A l \in ToSet(k.symlinks) : StaysWithin(l.path, l.target)
      /\ \A h \in ToSet(k.hardlinks) :
            /\ h.source \in ToSet(Pluck(k.files)) \cup ToSet(Pluck(k.symlinks))
            /\ \A l \in ToSet(k.symlinks) : l.path = h.source => StaysWithin(h.path, l.target)
  BY <1>2, <1>3, <1>4
<1>10. Fits(k, RandomD, ChmodFiles \cup ChmodLinks)
  BY <1>5, <1>7, <1>8, <1>9, ChmodLayout, LaidOut
<1> QED
  BY <1>10, FitsIsSound

\* The greater and the smaller of two numbers.
LEMMA MaxMinOfTwo ==
  ASSUME NEW a \in Nat, NEW b \in Nat
  PROVE  /\ Max({a, b}) \in Nat /\ Max({a, b}) \in {a, b} /\ Max({a, b}) >= a /\ Max({a, b}) >= b
         /\ Min({a, b}) \in Nat /\ Min({a, b}) \in {a, b} /\ Min({a, b}) <= a /\ Min({a, b}) <= b
<1>1. \E x \in {a, b} : \A y \in {a, b} : x >= y
  OBVIOUS
<1>2. \E x \in {a, b} : \A y \in {a, b} : x =< y
  OBVIOUS
<1>3. Max({a, b}) \in {a, b} /\ \A y \in {a, b} : Max({a, b}) >= y
  BY <1>1 DEF Max
<1>4. Min({a, b}) \in {a, b} /\ \A y \in {a, b} : Min({a, b}) =< y
  BY <1>2 DEF Min
<1> QED
  BY <1>3, <1>4

\* How much of a list is left, when at least some of it is kept.
LEMMA KeepSome ==
  ASSUME NEW n \in Nat, NEW over \in Nat, NEW keep \in {0, 1}
  PROVE  /\ Max({Less(n, over), Min({n, keep})}) \in 0 .. n
         /\ keep = 1 /\ n > 0 => Max({Less(n, over), Min({n, keep})}) > 0
<1>1. Less(n, over) \in Nat /\ Less(n, over) <= n
  BY DEF Less
<1>2. Min({n, keep}) \in Nat /\ Min({n, keep}) \in {n, keep} /\ Min({n, keep}) <= n
  BY MaxMinOfTwo
<1> QED
  BY <1>1, <1>2, MaxMinOfTwo

\* A fixture without links.
Bereft(d, x) == [directories |-> d, files |-> x, symlinks |-> <<>>, hardlinks |-> <<>>]

\* Trimming takes directories and files away, and leaves what it is told to keep.
LEMMA TrimmedIs ==
  ASSUME NEW d, NEW x, Bare(d, x), NEW f, f = Bereft(d, x),
         NEW budget \in Nat, NEW links \in Nat, NEW keepFile \in {0, 1}, NEW keepDirectory \in {0, 1}
  PROVE  \E e, y : /\ Trimmed(f, budget, links, keepFile, keepDirectory) = Bereft(e, y)
                   /\ Bare(e, y)
                   /\ keepFile = 1 /\ x # <<>> => y # <<>>
                   /\ keepDirectory = 1 /\ d # <<>> => e # <<>>
<1> DEFINE over == Less(Len(d) + Len(x) + links, budget)
           i == Max({Less(Len(x), over), Min({Len(x), keepFile})})
           rest == Less(over, Len(x) - i)
           j == Max({Less(Len(d), rest), Min({Len(d), keepDirectory})})
<1>1. Len(d) \in Nat /\ Len(x) \in Nat /\ d \in Seq(Path) /\ x \in Seq(Files)
  BY DEF Bare
<1>2. f.directories = d /\ f.files = x /\ f = [directories |-> d, files |-> x, symlinks |-> <<>>, hardlinks |-> <<>>]
  BY DEF Bereft
<1>3. \A a, b \in Nat : Less(a, b) \in Nat
  BY DEF Less
<1>4. over \in Nat
  <2>1. Len(d) + Len(x) + links \in Nat
    BY <1>1
  <2> QED
    BY <1>3, <2>1
<1> HIDE DEF over
<1>5. i \in 0 .. Len(x) /\ (keepFile = 1 /\ Len(x) > 0 => i > 0)
  BY <1>1, <1>4, KeepSome
<1> HIDE DEF i
<1>6. rest \in Nat
  <2>1. Len(x) - i \in Nat
    BY <1>1, <1>5
  <2> QED
    BY <1>3, <1>4, <2>1
<1> HIDE DEF rest
<1>7. j \in 0 .. Len(d) /\ (keepDirectory = 1 /\ Len(d) > 0 => j > 0)
  BY <1>1, <1>6, KeepSome
<1>8. Trimmed(f, budget, links, keepFile, keepDirectory)
        = [f EXCEPT !.files = SubSeq(@, 1, i), !.directories = SubSeq(@, 1, j)]
  <2>1. Trimmed(f, budget, links, keepFile, keepDirectory)
          = LET over2 == Less(Len(d) + Len(x) + links, budget)
                files == Max({Less(Len(x), over2), Min({Len(x), keepFile})})
                rest2 == Less(over2, Len(x) - files)
                directories == Max({Less(Len(d), rest2), Min({Len(d), keepDirectory})})
            IN [f EXCEPT !.files = SubSeq(@, 1, files), !.directories = SubSeq(@, 1, directories)]
    BY <1>2, Zenon DEF Trimmed
  <2> QED
    BY <2>1, Zenon DEF i, rest, over
<1> HIDE DEF j
<1> DEFINE e == SubSeq(d, 1, j)
           y == SubSeq(x, 1, i)
<1>9. Bare(e, y) /\ Len(e) = j /\ Len(y) = i
  BY <1>5, <1>7, BareFirst
<1>10. Trimmed(f, budget, links, keepFile, keepDirectory) = Bereft(e, y)
  <2>1. [f EXCEPT !.files = SubSeq(@, 1, i), !.directories = SubSeq(@, 1, j)]
          = [f EXCEPT !.files = y, !.directories = e]
    BY <1>2
  <2> HIDE DEF e, y
  <2>2. [f EXCEPT !.files = y, !.directories = e] = Bereft(e, y)
    <3>1. [f EXCEPT !.files = y] = [directories |-> d, files |-> y, symlinks |-> <<>>, hardlinks |-> <<>>]
      BY <1>2
    <3>2. [[directories |-> d, files |-> y, symlinks |-> <<>>, hardlinks |-> <<>>] EXCEPT !.directories = e]
            = [directories |-> e, files |-> y, symlinks |-> <<>>, hardlinks |-> <<>>]
      OBVIOUS
    <3>3. [f EXCEPT !.files = y, !.directories = e] = [[f EXCEPT !.files = y] EXCEPT !.directories = e]
      OBVIOUS
    <3> QED
      BY <3>1, <3>2, <3>3 DEF Bereft
  <2> QED
    BY <1>8, <2>1, <2>2
<1> HIDE DEF e, y
<1>11. (x # <<>> => Len(x) > 0) /\ (d # <<>> => Len(d) > 0)
  BY <1>1
<1>12. keepFile = 1 /\ x # <<>> => y # <<>>
  BY <1>5, <1>9, <1>11
<1>13. keepDirectory = 1 /\ d # <<>> => e # <<>>
  BY <1>7, <1>9, <1>11
<1> QED
  BY <1>9, <1>10, <1>12, <1>13

\* A random fixture without its links.
LEMMA BereftRandom ==
  ASSUME NEW m, NEW f \in RandomFixtures(m, TRUE), NEW g, g = [f EXCEPT !.symlinks = <<>>, !.hardlinks = <<>>]
  PROVE  g = Bereft(f.directories, f.files) /\ Bare(f.directories, f.files) /\ f.directories # <<>>
<1>1. Fits(f, RandomD, RandomN) /\ f.directories # <<>>
  BY RandomFits
<1>2. f \in Blueprints /\ ToSet(f.directories) \subseteq RandomD /\ NonDirectories(f) \subseteq RandomN /\ ValidFixture(f)
  BY <1>1 DEF Fits
<1>3. /\ f.directories \in Seq(Path) /\ f.files \in Seq(Files) /\ Listed(f)
      /\ f = [directories |-> f.directories, files |-> f.files, symlinks |-> f.symlinks, hardlinks |-> f.hardlinks]
  BY <1>2, BlueprintsAreLists DEF Blueprints
<1>4. IsInjective(f.directories) /\ IsInjective(Pluck(f.files)) /\ ToSet(Pluck(f.files)) \subseteq NonDirectories(f)
  BY <1>2, <1>3, DestinationsAre DEF ValidFixture
<1>5. Bare(f.directories, f.files)
  BY <1>2, <1>3, <1>4 DEF Bare, ChmodFiles
<1>6. g = Bereft(f.directories, f.files)
  <2>1. PICK d, x, s, h : f = [directories |-> d, files |-> x, symlinks |-> s, hardlinks |-> h]
                          /\ d = f.directories /\ x = f.files
    BY <1>3
  <2>2. g = [[f EXCEPT !.symlinks = <<>>] EXCEPT !.hardlinks = <<>>]
    OBVIOUS
  <2>3. [f EXCEPT !.symlinks = <<>>] = [directories |-> d, files |-> x, symlinks |-> <<>>, hardlinks |-> h]
    BY <2>1
  <2>4. [[directories |-> d, files |-> x, symlinks |-> <<>>, hardlinks |-> h] EXCEPT !.hardlinks = <<>>]
          = [directories |-> d, files |-> x, symlinks |-> <<>>, hardlinks |-> <<>>]
    OBVIOUS
  <2> QED
    BY <2>1, <2>2, <2>3, <2>4 DEF Bereft
<1> QED
  BY <1>1, <1>5, <1>6

\* With links put into what is left.
LEMMA LinkedIs ==
  ASSUME NEW d, NEW x, NEW s, NEW t, t = Bereft(d, x)
  PROVE  /\ Linked(t, s) = [directories |-> d, files |-> x, symlinks |-> s, hardlinks |-> <<>>]
         /\ t.directories = d /\ t.files = x
  BY DEF Linked, Bereft

\* A link to one of its entries, and links to nothing in particular.
LEMMA ChmodLink ==
  ASSUME NEW d, NEW x, Bare(d, x)
  PROVE  /\ x # <<>> => Links(<<Symlink(<<"chmod-file-link">>, x[1].path)>>, {<<"chmod-file-link">>})
         /\ d # <<>> => Links(<<Symlink(<<"chmod-dir-link">>, d[1])>>, {<<"chmod-dir-link">>})
         /\ Links(<<Symlink(<<"chmod-dangling-link">>, <<"chmod-missing-target">>)>>, {<<"chmod-dangling-link">>})
         /\ Links(<<Symlink(<<"chmod-cycle-a">>, <<"chmod-cycle-b">>), Symlink(<<"chmod-cycle-b">>, <<"chmod-cycle-a">>)>>,
                  {<<"chmod-cycle-a">>, <<"chmod-cycle-b">>})
<1>1. PICK p, q, r, u, v, w :
        /\ p = <<"chmod-file-link">> /\ q = <<"chmod-dir-link">> /\ r = <<"chmod-dangling-link">>
        /\ u = <<"chmod-cycle-a">> /\ v = <<"chmod-cycle-b">> /\ w = <<"chmod-missing-target">>
  OBVIOUS
<1>2. \A z \in {p, q, r, u, v, w} : Plainly(z) /\ z # <<>>
  BY <1>1, ChmodNames
<1>3. u # v
  BY <1>1
<1>4. ASSUME NEW a \in {p, q, r, u, v, w}, NEW b, Plainly(b), b # <<>> PROVE Link(Symlink(a, b), a)
  BY <1>2, <1>4, PlainStays, LinkIs DEF Plainly
<1>5. ASSUME x # <<>> PROVE Plainly(x[1].path) /\ x[1].path # <<>>
  <2>1. x \in Seq(Files) /\ ToSet(Pluck(x)) \subseteq ChmodFiles
    BY DEF Bare
  <2>2. 1 \in DOMAIN x
    BY <1>5, <2>1
  <2>3. x[1].path \in ToSet(Pluck(x))
    <3>1. Pluck(x) = [i \in DOMAIN x |-> x[i].path]
      BY Zenon DEF Pluck
    <3>2. 1 \in DOMAIN Pluck(x) /\ Pluck(x)[1] = x[1].path
      BY <2>2, <3>1
    <3> QED
      BY <3>2 DEF ToSet
  <2> QED
    BY <2>1, <2>3, ChmodLayout
<1>6. ASSUME d # <<>> PROVE Plainly(d[1]) /\ d[1] # <<>>
  <2>1. d \in Seq(Path) /\ ToSet(d) \subseteq RandomD
    BY DEF Bare
  <2>2. d[1] \in ToSet(d)
    BY <1>6, <2>1 DEF ToSet
  <2> QED
    BY <2>1, <2>2, ChmodLayout
<1>7. x # <<>> => Links(<<Symlink(p, x[1].path)>>, {p})
  BY <1>4, <1>5, OneLinked
<1>8. d # <<>> => Links(<<Symlink(q, d[1])>>, {q})
  BY <1>4, <1>6, OneLinked
<1>9. Links(<<Symlink(r, w)>>, {r})
  BY <1>2, <1>4, OneLinked
<1>10. Links(<<Symlink(u, v), Symlink(v, u)>>, {u, v})
  BY <1>2, <1>3, <1>4, TwoLinked
<1> QED
  BY <1>1, <1>7, <1>8, <1>9, <1>10, Zenon

\* Whatever chmod is tried on can be put on disk.
LEMMA ChmodFixturesFit ==
  ASSUME NEW m \in Nat
  PROVE  \A k \in ChmodFixtures(m) : Sound(k)
<1> DEFINE budget == Max({m, 1})
           Filed(f) == IF f.files # <<>> THEN f
                       ELSE [f EXCEPT !.directories = SubSeq(@, 1, Min({Len(@), Less(budget, 2)})),
                                      !.files = <<File(<<"chmod-target">>, 0)>>]
           WithFile(f) == Trimmed(Filed(f), budget, 1, 1, 0)
           ToFile(f) == Linked(WithFile(f), <<Symlink(<<"chmod-file-link">>, WithFile(f).files[1].path)>>)
           WithDirectory(f) == Trimmed(f, budget, 1, 0, 1)
           ToDirectory(f) == Linked(WithDirectory(f), <<Symlink(<<"chmod-dir-link">>, WithDirectory(f).directories[1])>>)
           ToNothing(f) ==
             Linked(Trimmed(f, budget, 1, 0, 0), <<Symlink(<<"chmod-dangling-link">>, <<"chmod-missing-target">>)>>)
           Cycle(f) ==
             Linked(Trimmed(f, budget, 2, 0, 0),
                    <<Symlink(<<"chmod-cycle-a">>, <<"chmod-cycle-b">>), Symlink(<<"chmod-cycle-b">>, <<"chmod-cycle-a">>)>>)
           Drafted(f) == IF budget >= 2 THEN {ToFile(f), ToDirectory(f), ToNothing(f), Cycle(f)} ELSE {ToNothing(f), f}
<1>1. ChmodFixtures(m) = UNION {Drafted([f EXCEPT !.symlinks = <<>>, !.hardlinks = <<>>]) : f \in RandomFixtures(m, TRUE)}
  BY Zenon DEF ChmodFixtures
<1>2. budget \in Nat
  BY MaxMinOfTwo
<1> HIDE DEF budget
<1>3. ASSUME NEW d, NEW x, Bare(d, x), NEW s, NEW P \in SUBSET ChmodLinks, Links(s, P), NEW t, t = Bereft(d, x)
      PROVE  Sound(Linked(t, s))
  BY <1>3, LinkedIs, BareLinked
<1>4. ASSUME NEW d, NEW x, Bare(d, x), d # <<>>, NEW f, f = Bereft(d, x)
      PROVE  Sound(ToFile(f)) /\ Sound(ToDirectory(f)) /\ Sound(ToNothing(f)) /\ Sound(Cycle(f)) /\ Sound(f)
  <2>1. Sound(ToNothing(f)) /\ Sound(Cycle(f))
    <3>1. ASSUME NEW n \in Nat PROVE \E e, y : Trimmed(f, budget, n, 0, 0) = Bereft(e, y) /\ Bare(e, y)
      BY <1>2, <1>4, TrimmedIs
    <3>2. {<<"chmod-dangling-link">>} \in SUBSET ChmodLinks /\ {<<"chmod-cycle-a">>, <<"chmod-cycle-b">>} \in SUBSET ChmodLinks
      BY DEF ChmodLinks
    <3>3. Sound(ToNothing(f))
      <4>1. PICK e, y : Trimmed(f, budget, 1, 0, 0) = Bereft(e, y) /\ Bare(e, y)
        BY <3>1
      <4> QED
        BY <1>3, <3>2, <4>1, ChmodLink
    <3>4. Sound(Cycle(f))
      <4>1. PICK e, y : Trimmed(f, budget, 2, 0, 0) = Bereft(e, y) /\ Bare(e, y)
        BY <3>1
      <4> QED
        BY <1>3, <3>2, <4>1, ChmodLink
    <3> QED
      BY <3>3, <3>4
  <2>2. Sound(ToDirectory(f))
    <3>1. PICK e, y : WithDirectory(f) = Bereft(e, y) /\ Bare(e, y) /\ e # <<>>
      BY <1>2, <1>4, TrimmedIs
    <3>2. WithDirectory(f).directories = e
      BY <3>1, LinkedIs
    <3>3. Links(<<Symlink(<<"chmod-dir-link">>, e[1])>>, {<<"chmod-dir-link">>})
      BY <3>1, ChmodLink
    <3>4. {<<"chmod-dir-link">>} \in SUBSET ChmodLinks
      BY DEF ChmodLinks
    <3> HIDE DEF WithDirectory
    <3> QED
      BY <1>3, <3>1, <3>2, <3>3, <3>4
  <2>3. PICK e, y : Filed(f) = Bereft(e, y) /\ Bare(e, y) /\ y # <<>>
    <3>1. f.directories = d /\ f.files = x
      BY <1>4, LinkedIs
    <3>2. CASE x # <<>>
      BY <1>4, <3>1, <3>2
    <3>3. CASE x = <<>>
      <4> DEFINE j == Min({Len(d), Less(budget, 2)})
                 e == SubSeq(d, 1, j)
                 p == <<"chmod-target">>
                 y == <<File(p, 0)>>
      <4>1. Len(d) \in Nat /\ Len(x) \in Nat
        BY <1>4 DEF Bare
      <4>2. Less(budget, 2) \in Nat
        BY <1>2 DEF Less
      <4>3. j \in 0 .. Len(d)
        BY <4>1, <4>2, MaxMinOfTwo
      <4> HIDE DEF j
      <4>4. Bare(e, SubSeq(x, 1, 0))
        BY <1>4, <4>1, <4>3, BareFirst
      <4> HIDE DEF e
      <4>5. p \in Path /\ p \in ChmodFiles
        BY ChmodNames DEF Plainly, ChmodFiles
      <4> HIDE DEF p
      <4>6. File(p, 0) \in Files /\ File(p, 0).path = p
        BY <4>5 DEF File, Files
      <4>7. y \in Seq(Files) /\ Pluck(y) = <<p>>
        BY <4>6, OneEntry
      <4>8. IsInjective(<<p>>) /\ ToSet(<<p>>) = {p} /\ y # <<>>
        BY DEF IsInjective, ToSet
      <4> HIDE DEF y
      <4>9. Bare(e, y)
        BY <4>4, <4>5, <4>7, <4>8 DEF Bare
      <4>10. Filed(f) = Bereft(e, y)
        <5>1. Filed(f) = [f EXCEPT !.directories = e, !.files = y]
          BY <3>1, <3>3 DEF e, y, j, p
        <5>2. [f EXCEPT !.directories = e, !.files = y] = [[f EXCEPT !.directories = e] EXCEPT !.files = y]
          OBVIOUS
        <5>3. [f EXCEPT !.directories = e] = [directories |-> e, files |-> x, symlinks |-> <<>>, hardlinks |-> <<>>]
          BY <1>4 DEF Bereft
        <5>4. [[directories |-> e, files |-> x, symlinks |-> <<>>, hardlinks |-> <<>>] EXCEPT !.files = y]
                = [directories |-> e, files |-> y, symlinks |-> <<>>, hardlinks |-> <<>>]
          OBVIOUS
        <5> QED
          BY <5>1, <5>2, <5>3, <5>4 DEF Bereft
      <4> QED
        BY <4>8, <4>9, <4>10
    <3> QED
      BY <3>2, <3>3
  <2>4. Sound(ToFile(f))
    <3> HIDE DEF Filed
    <3>1. PICK a, b : WithFile(f) = Bereft(a, b) /\ Bare(a, b) /\ b # <<>>
      BY <1>2, <2>3, TrimmedIs
    <3>2. WithFile(f).files = b
      BY <3>1, LinkedIs
    <3>3. Links(<<Symlink(<<"chmod-file-link">>, b[1].path)>>, {<<"chmod-file-link">>})
      BY <3>1, ChmodLink
    <3>4. {<<"chmod-file-link">>} \in SUBSET ChmodLinks
      BY DEF ChmodLinks
    <3> HIDE DEF WithFile
    <3> QED
      BY <1>3, <3>1, <3>2, <3>3, <3>4
  <2>5. Sound(f)
    <3>1. {} \in SUBSET ChmodLinks /\ f = [directories |-> d, files |-> x, symlinks |-> <<>>, hardlinks |-> <<>>]
      BY <1>4 DEF Bereft
    <3> QED
      BY <1>4, <3>1, NoLinks, BareLinked
  <2> QED
    BY <2>1, <2>2, <2>4, <2>5
<1> HIDE DEF ToFile, ToDirectory, ToNothing, Cycle
<1>5. ASSUME NEW f \in RandomFixtures(m, TRUE), NEW k \in Drafted([f EXCEPT !.symlinks = <<>>, !.hardlinks = <<>>])
      PROVE  Sound(k)
  <2>1. PICK g : g = [f EXCEPT !.symlinks = <<>>, !.hardlinks = <<>>]
    OBVIOUS
  <2>2. k \in {ToFile(g), ToDirectory(g), ToNothing(g), Cycle(g), g}
    BY <2>1
  <2>3. g = Bereft(f.directories, f.files) /\ Bare(f.directories, f.files) /\ f.directories # <<>>
    BY <2>1, BereftRandom
  <2>4. Sound(ToFile(g)) /\ Sound(ToDirectory(g)) /\ Sound(ToNothing(g)) /\ Sound(Cycle(g)) /\ Sound(g)
    BY <1>4, <2>3
  <2> QED
    BY <2>2, <2>4
<1> HIDE DEF Drafted
<1> QED
  BY <1>1, <1>5

\* Whatever a generator makes can be put on disk.
LEMMA SystemStatesFit ==
  ASSUME NEW u, NEW m \in Nat
  PROVE  \A f \in SystemStates(u, m) : Sound(f)
<1>1. \A n, dangling : \A f \in RandomFixtures(n, dangling) : Sound(f)
  BY RandomFits, FitsIsSound
<1>2. Sound(GeneratedLineFixture) /\ Sound(NoFixture)
  BY GeneratedLineFits, NoFixtureFits, FitsIsSound
<1>3. \A f \in PlainSystemStates(u, m) : Sound(f)
  <2>1. Sound(CutFixture)
    BY CutFits
  <2>2. \A f \in {RealpathFixture(g) : g \in RandomFixtures(m, TRUE)} : Sound(f)
    BY RandomRealpathFits
  <2>3. \A f \in ChmodFixtures(m) : Sound(f)
    BY ChmodFixturesFit
  <2> QED
    BY <1>1, <1>2, <2>1, <2>2, <2>3 DEF PlainSystemStates
<1>4. \A f \in {Padded(g) : g \in RandomFixtures(Max({m, 3}), TRUE)} : Sound(f)
  BY PaddedFits
<1>5. \A f \in {TsortFixture(n) : n \in 0 .. 1} : Sound(f)
  BY TsortFits
<1>6. \A f \in {[JoinFixture EXCEPT !.files[1].size = n] : n \in 0 .. 1} : Sound(f)
  BY JoinFits
<1> QED
  BY <1>1, <1>2, <1>3, <1>4, <1>5, <1>6, FewFilesFit DEF SystemStates

-----------------------------------------------------------------------------
(* A case that is made.                                                    *)

\* A case of a utility that can be started, also when the utility's own fixture is
\* put in place of the case's.
ReadyFor(u, c) == Ready(c) /\ (u \in {"comm", "csplit"} => c.cwd = <<>>)

\* The normalizers keep it so.
LEMMA RestoredReady ==
  ASSUME NEW u, NEW c, ReadyFor(u, c)
  PROVE  ReadyFor(u, Restored(u, c))
<1>1. PICK a, f, n, w : /\ c = [argv |-> a, fixture |-> f, stdin |-> n, cwd |-> w]
                        /\ Sound(f) /\ w \in {<<>>} \cup ToSet(f.directories) /\ (u \in {"comm", "csplit"} => w = <<>>)
  <2>1. c = [argv |-> c.argv, fixture |-> c.fixture, stdin |-> c.stdin, cwd |-> c.cwd]
        /\ Sound(c.fixture) /\ c.cwd \in {<<>>} \cup ToSet(c.fixture.directories)
        /\ (u \in {"comm", "csplit"} => c.cwd = <<>>)
    BY DEF ReadyFor, Ready
  <2> QED
    BY <2>1
<1>2. \A b, m : Ready([argv |-> b, fixture |-> f, stdin |-> m, cwd |-> w])
                /\ Ready([argv |-> b, fixture |-> f, stdin |-> m, cwd |-> <<>>])
  BY <1>1 DEF Ready
<1>3. CASE u = "comm"
  <2>1. PICK m : Restored(u, c) = [c EXCEPT !.fixture = CommFixture, !.stdin = m]
    BY <1>3 DEF Restored
  <2>2. Restored(u, c) = [argv |-> a, fixture |-> CommFixture, stdin |-> m, cwd |-> <<>>]
    BY <1>1, <1>3, <2>1
  <2> QED
    BY <2>2, FewFilesFit DEF ReadyFor, Ready
<1>4. CASE u = "csplit"
  <2>1. PICK m : Restored(u, c) = [c EXCEPT !.fixture = CsplitFixture, !.stdin = m]
    BY <1>4 DEF Restored
  <2>2. Restored(u, c) = [argv |-> a, fixture |-> CsplitFixture, stdin |-> m, cwd |-> <<>>]
    BY <1>1, <1>4, <2>1
  <2> QED
    BY <2>2, FewFilesFit DEF ReadyFor, Ready
<1>5. CASE u \notin {"comm", "csplit"}
  <2>1. \/ Restored(u, c) = c
        \/ \E m : Restored(u, c) = [c EXCEPT !.stdin = m]
        \/ \E m : Restored(u, c) = [c EXCEPT !.cwd = <<>>, !.stdin = m]
        \/ Restored(u, c) = [c EXCEPT !.cwd = <<>>]
        \/ \E b : Restored(u, c) = [c EXCEPT !.argv = b]
    <3>1. CASE u = "expand"
      BY <1>5, <3>1 DEF Restored
    <3>2. CASE u = "fold"
      BY <1>5, <3>2 DEF Restored
    <3>3. CASE u = "join"
      BY <1>5, <3>3 DEF Restored
    <3>4. CASE u = "printenv"
      BY <1>5, <3>4 DEF Restored
    <3>5. CASE u = "tsort"
      BY <1>5, <3>5 DEF Restored
    <3>6. CASE u \notin {"expand", "fold", "join", "printenv", "tsort"}
      BY <1>5, <3>6 DEF Restored
    <3> QED
      BY <3>1, <3>2, <3>3, <3>4, <3>5, <3>6
  <2>2. \E b, m : \/ Restored(u, c) = [argv |-> b, fixture |-> f, stdin |-> m, cwd |-> w]
                  \/ Restored(u, c) = [argv |-> b, fixture |-> f, stdin |-> m, cwd |-> <<>>]
    BY <1>1, <2>1
  <2> QED
    BY <1>2, <1>5, <2>2 DEF ReadyFor
<1> QED
  BY <1>3, <1>4, <1>5

\* So does what is done last, which may move a case to the root.
LEMMA NormalizedReady ==
  ASSUME NEW u, NEW c, ReadyFor(u, c)
  PROVE  ReadyFor(u, Normalized(u, c))
<1>1. PICK k : k = Restored(u, c)
  OBVIOUS
<1>2. ReadyFor(u, k)
  BY <1>1, RestoredReady
<1>3. k = [argv |-> k.argv, fixture |-> k.fixture, stdin |-> k.stdin, cwd |-> k.cwd] /\ Sound(k.fixture)
  BY <1>2 DEF ReadyFor, Ready
<1>4. [k EXCEPT !.cwd = <<>>] = [argv |-> k.argv, fixture |-> k.fixture, stdin |-> k.stdin, cwd |-> <<>>]
  BY <1>3
<1>5. ReadyFor(u, [k EXCEPT !.cwd = <<>>])
  BY <1>3, <1>4 DEF ReadyFor, Ready
<1>6. Normalized(u, c) = k \/ Normalized(u, c) = [k EXCEPT !.cwd = <<>>]
  BY <1>1 DEF Normalized
<1> QED
  BY <1>2, <1>5, <1>6

\* A case with another fixture, working directory, input or arguments.
LEMMA WithOther ==
  ASSUME NEW u, NEW c, ReadyFor(u, c)
  PROVE  /\ \A a : ReadyFor(u, [c EXCEPT !.argv = a])
         /\ \A n : ReadyFor(u, [c EXCEPT !.stdin = n])
         /\ \A w \in {<<>>} \cup ToSet(c.fixture.directories) :
              (u \in {"comm", "csplit"} => w = <<>>) => ReadyFor(u, [c EXCEPT !.cwd = w])
         /\ \A f : Sound(f) /\ f.directories = c.fixture.directories => ReadyFor(u, [c EXCEPT !.fixture = f])
<1>1. /\ c = [argv |-> c.argv, fixture |-> c.fixture, stdin |-> c.stdin, cwd |-> c.cwd] /\ Sound(c.fixture)
      /\ c.cwd \in {<<>>} \cup ToSet(c.fixture.directories) /\ (u \in {"comm", "csplit"} => c.cwd = <<>>)
  BY DEF ReadyFor, Ready
<1>2. PICK a, f, n, w : /\ c = [argv |-> a, fixture |-> f, stdin |-> n, cwd |-> w] /\ f = c.fixture
                        /\ Sound(f) /\ w \in {<<>>} \cup ToSet(f.directories) /\ (u \in {"comm", "csplit"} => w = <<>>)
  BY <1>1
<1>3. \A x : [c EXCEPT !.argv = x] = [argv |-> x, fixture |-> f, stdin |-> n, cwd |-> w]
  BY <1>2
<1>4. \A x : [c EXCEPT !.stdin = x] = [argv |-> a, fixture |-> f, stdin |-> x, cwd |-> w]
  BY <1>2
<1>5. \A x : [c EXCEPT !.cwd = x] = [argv |-> a, fixture |-> f, stdin |-> n, cwd |-> x]
  BY <1>2
<1>6. \A x : [c EXCEPT !.fixture = x] = [argv |-> a, fixture |-> x, stdin |-> n, cwd |-> w]
  BY <1>2
<1>7. \A x : ReadyFor(u, [c EXCEPT !.argv = x])
  BY <1>2, <1>3 DEF ReadyFor, Ready
<1>8. \A x : ReadyFor(u, [c EXCEPT !.stdin = x])
  BY <1>2, <1>4 DEF ReadyFor, Ready
<1>9. ASSUME NEW x \in {<<>>} \cup ToSet(c.fixture.directories), u \in {"comm", "csplit"} => x = <<>>
      PROVE  ReadyFor(u, [c EXCEPT !.cwd = x])
  BY <1>2, <1>5, <1>9 DEF ReadyFor, Ready
<1>10. ASSUME NEW x, Sound(x), x.directories = c.fixture.directories
       PROVE  ReadyFor(u, [c EXCEPT !.fixture = x])
  BY <1>2, <1>6, <1>10 DEF ReadyFor, Ready
<1> QED
  BY <1>7, <1>8, <1>9, <1>10

\* A working directory is one of the fixture.
LEMMA CwdsAre ==
  ASSUME NEW u, NEW f, NEW w \in Cwds(u, f, TRUE) \cup Cwds(u, f, FALSE)
  PROVE  w \in {<<>>} \cup ToSet(f.directories) /\ (u \in {"comm", "csplit"} => w = <<>>)
  BY DEF Cwds, RandomCwds

\* What a mutation gives.
LEMMA MutationsReady ==
  ASSUME NEW c, ReadyFor(util, c), NEW k \in Mutations(c)
  PROVE  ReadyFor(util, k)
<1>1. CASE k \in MutateArgv(c)
  <2>1. PICK a : k = [c EXCEPT !.argv = a]
    BY <1>1, Zenon DEF MutateArgv
  <2> QED
    BY <2>1, WithOther
<1>2. CASE k \in MutateStdin(c)
  <2>1. PICK n : k = [c EXCEPT !.stdin = n]
    BY <1>2, Zenon DEF MutateStdin
  <2> QED
    BY <2>1, WithOther
<1>3. CASE k \in MutateCwd(c)
  <2>1. PICK w \in Cwds(util, c.fixture, TRUE) : k = [c EXCEPT !.cwd = w]
    BY <1>3 DEF MutateCwd
  <2> QED
    <3>1. w \in {<<>>} \cup ToSet(c.fixture.directories) /\ (util \in {"comm", "csplit"} => w = <<>>)
      <4>1. w \in Cwds(util, c.fixture, TRUE) \cup Cwds(util, c.fixture, FALSE)
        OBVIOUS
      <4> QED
        BY <4>1, CwdsAre
    <3> QED
      BY <2>1, <3>1, WithOther
<1>4. CASE k \in MutateContents(c)
  <2>1. CASE k = c
    BY <2>1
  <2>2. CASE c.fixture.files # <<>> /\ k # c
    <3>1. PICK i \in {1, Len(c.fixture.files)}, n \in Contents : k = [c EXCEPT !.fixture.files[i].size = n]
      <4> DEFINE Of(i) == {[c EXCEPT !.fixture.files[i].size = n] : n \in Contents}
      <4>1. MutateContents(c) = UNION {Of(i) : i \in {1, Len(c.fixture.files)}}
        BY <2>2, Zenon DEF MutateContents
      <4> HIDE DEF Of
      <4>2. PICK i \in {1, Len(c.fixture.files)} : k \in Of(i)
        BY <1>4, <4>1
      <4> QED
        BY <4>2, Zenon DEF Of
    <3>2. PICK f, g : f = c.fixture /\ g = [c.fixture EXCEPT !.files[i].size = n]
      OBVIOUS
    <3>3. c = [argv |-> c.argv, fixture |-> c.fixture, stdin |-> c.stdin, cwd |-> c.cwd] /\ Sound(f)
      BY <3>2 DEF ReadyFor, Ready
    <3>4. k = [c EXCEPT !.fixture = g]
      <4>1. [c EXCEPT !.fixture.files[i].size = n] = [c EXCEPT !.fixture = [c.fixture EXCEPT !.files[i].size = n]]
        BY Zenon
      <4> QED
        BY <3>1, <3>2, <4>1, Zenon
    <3>5. i \in DOMAIN f.files /\ n \in Nat /\ f \in Blueprints
      BY <2>2, <3>1, <3>2, <3>3, BlueprintsAreLists DEF Sound, Contents
    <3>6. Sound(g) /\ g.directories = f.directories
      <4>1. Sized(g, f, i, n)
        BY <3>2, Zenon DEF Sized
      <4> QED
        BY <3>3, <3>5, <4>1, SizeSet DEF Sound
    <3> QED
      BY <3>2, <3>4, <3>6, WithOther
  <2> QED
    BY <1>4, <2>1, <2>2 DEF MutateContents
<1> QED
  BY <1>1, <1>2, <1>3, <1>4 DEF Mutations

\* What is generated.
LEMMA GeneratedReady ==
  ASSUME campaign.maxEntries \in Nat, NEW k \in GeneratedCases
  PROVE  ReadyFor(util, k)
<1>1. PICK d, n, w : d \in Drawn /\ w \in Cwds(util, d.fixture, FALSE) /\
        k = Normalized(util, [argv |-> d.argv, fixture |-> d.fixture, stdin |-> n, cwd |-> w])
  <2>1. \E d \in Drawn : \E n \in Contents, w \in Cwds(util, d.fixture, FALSE) :
          k = Normalized(util, [argv |-> d.argv, fixture |-> d.fixture, stdin |-> n, cwd |-> w])
    <3> DEFINE At(d, w) ==
                 {Normalized(util, [argv |-> d.argv, fixture |-> d.fixture, stdin |-> n, cwd |-> w]) : n \in Contents}
               Of(d) == UNION {At(d, w) : w \in Cwds(util, d.fixture, FALSE)}
    <3>1. GeneratedCases = UNION {Of(d) : d \in Drawn}
      BY Zenon DEF GeneratedCases
    <3> HIDE DEF At
    <3> HIDE DEF Of
    <3>2. PICK d \in Drawn : k \in Of(d)
      BY <3>1
    <3>3. PICK w \in Cwds(util, d.fixture, FALSE) : k \in At(d, w)
      BY <3>2, Zenon DEF Of
    <3> QED
      BY <3>3, Zenon DEF At
  <2> QED
    BY <2>1, Zenon
<1>2. \A f \in SystemStates(util, campaign.maxEntries) \cup RandomFixtures(campaign.maxEntries, FALSE) : Sound(f)
  BY SystemStatesFit, RandomFits, FitsIsSound
<1>3. Sound(d.fixture)
  <2> DEFINE Of(f) == {[fixture |-> f, argv |-> a] : a \in GeneratedArgvs(f)}
  <2>1. \E f \in SystemStates(util, campaign.maxEntries) \cup RandomFixtures(campaign.maxEntries, FALSE) : d \in Of(f)
    BY <1>1 DEF Drawn
  <2> QED
    <3>1. PICK f \in SystemStates(util, campaign.maxEntries) \cup RandomFixtures(campaign.maxEntries, FALSE) : d \in Of(f)
      BY <2>1
    <3>2. d.fixture = f
      BY <3>1
    <3> QED
      BY <1>2, <3>1, <3>2
<1>4. PICK c : c = [argv |-> d.argv, fixture |-> d.fixture, stdin |-> n, cwd |-> w]
  OBVIOUS
<1>5. ReadyFor(util, c)
  <2>1. w \in {<<>>} \cup ToSet(d.fixture.directories) /\ (util \in {"comm", "csplit"} => w = <<>>)
    <3>1. w \in Cwds(util, d.fixture, TRUE) \cup Cwds(util, d.fixture, FALSE)
      BY <1>1
    <3> QED
      BY <3>1, CwdsAre
  <2> QED
    BY <1>3, <1>4, <2>1 DEF ReadyFor, Ready
<1> QED
  BY <1>1, <1>4, <1>5, NormalizedReady

-----------------------------------------------------------------------------
(* From the selection of a case to the end of the search.                  *)

\* What is ready is staged.
LEMMA ReadyIsStaged == ASSUME NEW c, Ready(c) PROVE Staged(c) /\ c.fixture \in Blueprints
  BY DEF Ready, Sound, Staged

\* The case before the first.
LEMMA NoCaseReady == Ready(NoCase) /\ NoCase \in Cases /\ NoCase.cwd = <<>>
<1>1. PICK f : f = NoFixture /\ Sound(f)
  BY NoFixtureFits, FitsIsSound
<1>2. NoCase = [argv |-> <<>>, fixture |-> f, stdin |-> 0, cwd |-> <<>>]
  BY <1>1 DEF NoCase
<1>3. Ready(NoCase) /\ NoCase.cwd = <<>>
  BY <1>1, <1>2 DEF Ready
<1>4. <<>> \in Seq(STRING) /\ <<>> \in Path
  <2>1. PICK S : S = STRING
    OBVIOUS
  <2>2. <<>> \in Seq(S)
    OBVIOUS
  <2> QED
    BY <2>1, <2>2, Zenon DEF Path
<1>5. PICK S, P : S = Seq(STRING) /\ P = Path
  OBVIOUS
<1>6. Cases = [argv : S, fixture : Blueprints, stdin : Nat, cwd : P]
  BY <1>5, Zenon DEF Cases
<1>7. <<>> \in S /\ <<>> \in P
  BY <1>4, <1>5
<1>8. NoCase \in Cases
  BY <1>1, <1>2, <1>6, <1>7 DEF Sound
<1> QED
  BY <1>3, <1>8

\* The case selected last: ready, unless it is one of a case set.
CaseInv ==
  /\ campaign \in Campaigns
  /\ origin # "explicit" => ReadyFor(util, case)
  /\ origin = "explicit" => case \in campaign.cases /\ ValidFixture(case.fixture)

\* The search, before a case is handed to it too.
SearchInv ==
  /\ pc = "making" => /\ best = original
                      /\ next = 1
                      /\ attempts = 0
                      /\ used = {}
  /\ IInv
  /\ PassSoFar
  /\ Staged(best.case)

\* No case has been selected yet.
LEMMA InitCaseInv == CaseInit => CaseInv
<1> SUFFICES ASSUME CaseInit PROVE CaseInv
  OBVIOUS
<1>1. PICK u, c, o : u = util /\ c = case /\ o = origin
  OBVIOUS
<1>2. ReadyFor(u, c)
  <2>1. c = NoCase
    BY <1>1 DEF CaseInit
  <2> QED
    BY <2>1, NoCaseReady DEF ReadyFor
<1> QED
  BY <1>1, <1>2 DEF CaseInit, CaseInv

\* Whatever is selected next is ready.
LEMMA NextCaseInv == ASSUME CaseInv, CaseNext PROVE CaseInv'
<1>1. campaign' = campaign /\ campaign \in Campaigns /\ util' = util /\ util \in DOMAIN Scenarios /\ campaign.maxEntries \in Nat
  BY CampaignsAssumption DEF CaseInv, CaseNext, SelectExplicit, SelectScenario, SelectRandom, Mutate, MutateAnew, util
<1>2. CASE SelectExplicit
  BY <1>1, <1>2 DEF SelectExplicit, CaseInv
<1>3. ASSUME ReadyFor(util, case'), origin' # "explicit" PROVE CaseInv'
  <2>1. ReadyFor(util', case')
    BY <1>1, <1>3, Zenon
  <2> QED
    <3>1. campaign' \in Campaigns
      BY <1>1
    <3> QED
      BY <1>3, <2>1, <3>1, Zenon DEF CaseInv, ReadyFor
<1>4. CASE SelectScenario
  <2>1. case' \in Scenarios[util] /\ origin' # "explicit"
    BY <1>4 DEF SelectScenario
  <2>2. ReadyFor(util, case')
    BY <1>1, <2>1, ScenariosReady DEF AllReady, AtRoot, ReadyFor
  <2> QED
    BY <1>3, <2>1, <2>2
<1>5. CASE SelectRandom
  <2>1. case' \in GeneratedCases /\ origin' # "explicit"
    BY <1>5 DEF SelectRandom
  <2>2. ReadyFor(util, case')
    BY <1>1, <2>1, GeneratedReady
  <2> QED
    BY <1>3, <2>1, <2>2
<1>6. CASE Mutate
  <2>1. PICK c \in Mutations(case) : case' = Normalized(util, c)
    BY <1>6 DEF Mutate
  <2>2. origin # "explicit" /\ origin' # "explicit"
    BY <1>6 DEF Mutate, Mutable
  <2>3. ReadyFor(util, case)
    BY <2>2 DEF CaseInv
  <2>4. ReadyFor(util, c)
    BY <2>3, MutationsReady
  <2>5. ReadyFor(util, case')
    BY <2>1, <2>4, NormalizedReady
  <2> QED
    BY <1>3, <2>2, <2>5
<1>7. CASE MutateAnew
  <2>1. case' = NoCase /\ origin' # "explicit"
    BY <1>7 DEF MutateAnew
  <2>2. ReadyFor(util, case')
    BY <2>1, NoCaseReady DEF ReadyFor
  <2> QED
    BY <1>3, <2>1, <2>2
<1> QED
  BY <1>2, <1>4, <1>5, <1>6, <1>7 DEF CaseNext

\* The cases of a case set that may mismatch are run in a directory that their
\* fixture lists, or in the root, as generated cases are (random_cwd).
ListedCwds ==
  \A c \in Campaigns : \A x \in c.cases \cap Originals :
    x.cwd \in {<<>>} \cup ToSet(x.fixture.directories)

\* The search begins at a case that is staged.
LEMMA HandedOver ==
  ASSUME ListedCwds, CaseInv, SearchInv, HandOver
  PROVE  SearchInv'
<1>1. PICK s : original' = [case |-> case, signature |-> s]
  BY DEF HandOver
<1>2. pc = "making" /\ best' = original' /\ pc' = "begin" /\ next' = 1 /\ attempts' = 0 /\ used' = {}
  BY DEF HandOver, SearchInv
<1>3. best'.case = case /\ case \in Cases
  BY <1>1, <1>2, OriginalsAssumption DEF HandOver
<1>4. Staged(case)
  <2>1. CASE origin = "explicit"
    BY <2>1 DEF CaseInv, HandOver, ListedCwds, Staged
  <2>2. CASE origin # "explicit"
    BY <2>2, ReadyIsStaged DEF CaseInv, ReadyFor
  <2> QED
    BY <2>1, <2>2
<1>5. PassSoFar'
  BY <1>2, <1>3 DEF PassSoFar
<1>6. IInv'
  BY <1>2 DEF IInv, Budget
<1>7. Staged(best'.case)
  BY <1>3, <1>4
<1> QED
  BY <1>2, <1>5, <1>6, <1>7 DEF SearchInv

\* Every step of the search leaves it at a case that is staged.
LEMMA NextSearchInv ==
  ASSUME SearchInv, [Next]_vars
  PROVE  SearchInv'
<1>1. IInv' /\ PassSoFar'
  BY NextIInv, NextPassSoFar DEF SearchInv
<1>2. pc' = "making" => UNCHANGED vars
  BY DEF Next, Begin, Accept, Refuse, Evaluate, Fail, OutOfBudget, Finish, vars
<1>3. Staged(best'.case)
  <2>1. CASE Accept
    <3>1. Candidate \in Better(best.case)
      BY <2>1, CandidateIsBetter DEF Accept, SearchInv
    <3> QED
      BY <2>1, <3>1 DEF Accept, Better, SearchInv
  <2>2. CASE ~ Accept
    <3>1. best' = best
      BY <2>2 DEF Next, Begin, Refuse, Fail, OutOfBudget, Finish, vars
    <3> QED
      BY <3>1 DEF SearchInv
  <2> QED
    BY <2>1, <2>2
<1>4. pc' = "making" => best' = original' /\ next' = 1 /\ attempts' = 0 /\ used' = {}
  BY <1>2 DEF vars, SearchInv
<1> QED
  BY <1>1, <1>3, <1>4 DEF SearchInv

\* No generated case, scenario or mutation, however long the chain of them, and no case
\* the reducer tries on the way down from any of them has a fixture that cannot be put
\* on disk or a working directory that is not in it (random_cwd of
\* fuzz/input/system_state.rs and the test at fuzz/shrink.rs:783).
THEOREM CasesLaunchHolds ==
  ASSUME ListedCwds
  PROVE  FuzzSpec => []CasesLaunch
<1>1. FuzzInit => CaseInv /\ SearchInv
  <2> SUFFICES ASSUME FuzzInit PROVE CaseInv /\ SearchInv
    OBVIOUS
  <2>1. /\ pc = "making" /\ best = original /\ original.case = NoCase /\ best.case = NoCase /\ next = 1
        /\ attempts = 0 /\ used = {}
    BY DEF FuzzInit
  <2>2. IInv
    BY <2>1 DEF IInv, Budget
  <2>3. PassSoFar
    BY <2>1, NoCaseReady DEF PassSoFar
  <2>4. Staged(best.case)
    BY <2>1, NoCaseReady, ReadyIsStaged
  <2> QED
    BY <2>1, <2>2, <2>3, <2>4, InitCaseInv DEF FuzzInit, SearchInv
<1>2. CaseInv /\ SearchInv /\ [FuzzNext]_fuzzVars => CaseInv' /\ SearchInv'
  <2> SUFFICES ASSUME CaseInv, SearchInv, [FuzzNext]_fuzzVars PROVE CaseInv' /\ SearchInv'
    OBVIOUS
  <2>1. ASSUME UNCHANGED caseVars PROVE CaseInv'
    BY <2>1 DEF caseVars, CaseInv, util, ReadyFor
  <2>2. CASE Make
    <3>1. CaseInv'
      BY <2>2, NextCaseInv DEF Make
    <3>2. SearchInv'
      BY <2>2, NextSearchInv DEF Make
    <3> QED
      BY <3>1, <3>2
  <2>3. CASE HandOver
    <3>1. CaseInv'
      BY <2>1, <2>3 DEF HandOver
    <3> QED
      BY <2>3, <3>1, HandedOver
  <2>4. CASE pc # "making" /\ Next /\ UNCHANGED caseVars
    BY <2>1, <2>4, NextSearchInv
  <2>5. CASE UNCHANGED fuzzVars
    BY <2>1, <2>5, NextSearchInv DEF fuzzVars
  <2> QED
    BY <2>2, <2>3, <2>4, <2>5 DEF FuzzNext
<1>3. CaseInv /\ SearchInv => CasesLaunch
  <2> SUFFICES ASSUME CaseInv, SearchInv PROVE CasesLaunch
    OBVIOUS
  <2>1. ASSUME origin # "explicit" PROVE ValidFixture(case.fixture) /\ Launchable(case)
    <3>1. Staged(case) /\ case.fixture \in Blueprints
      BY <2>1, ReadyIsStaged DEF CaseInv, ReadyFor
    <3> QED
      BY <3>1, StagedLaunches DEF Staged
  <2>2. CandidatesLaunch
    BY CandidatesAreLaunchable DEF SearchInv
  <2> QED
    BY <2>1, <2>2 DEF CasesLaunch
<1> HIDE DEF CaseInv, SearchInv
<1> QED
  BY <1>1, <1>2, <1>3, PTL DEF FuzzSpec
===============================================================================
