---------------------------- MODULE SearchProofs ----------------------------
(***************************************************************************)
(* Search, for every catalogue, query, similarity and SEARCH_TOP_K: the    *)
(* candidates can be sorted, so there is an answer, and any answer is the  *)
(* best of the index.                                                      *)
(***************************************************************************)
EXTENDS Search, CatalogueProofs, FiniteSetTheorems, SequenceTheorems

-----------------------------------------------------------------------------
(* The library's induction over the naturals takes a predicate and cannot   *)
(* be cited; a least counterexample does as well.                           *)
LEMMA LeastNatural ==
  ASSUME NEW N \in SUBSET Nat, N # {}
  PROVE  \E least \in N : \A n \in N : least <= n
<1>1. PICK least \in N : \A n \in N : <<n, least>> \notin OpToRel(<, Nat)
  BY WFMin, NatLessThanWellFounded, Zenon
<1>2. \A n \in N : ~ (n < least)
  BY <1>1 DEF OpToRel
<1> QED
  BY <1>2

Similarities == Nat \cup {NaN}

(* Something matches worst: what is not a number, or else the least.        *)
LEMMA WorstMatch ==
  ASSUME NEW S, S # {}, NEW similarity \in [S -> Similarities]
  PROVE  \E worst \in S : \A h \in S : Compares(similarity[h], similarity[worst])
<1>1. CASE \E worst \in S : similarity[worst] = NaN
  BY <1>1 DEF Compares
<1>2. CASE \A h \in S : similarity[h] # NaN
  <2> DEFINE N == {similarity[h] : h \in S}
  <2>1. \A h \in S : similarity[h] \in Nat
    BY <1>2 DEF Similarities
  <2>2. N \in SUBSET Nat /\ N # {}
    BY <2>1
  <2>3. PICK least \in N : \A n \in N : least <= n
    <3> HIDE DEF N
    <3> QED
      BY <2>2, LeastNatural
  <2>4. PICK worst \in S : similarity[worst] = least
    BY <2>3
  <2> QED
    BY <1>2, <2>3, <2>4 DEF Compares
<1> QED
  BY <1>1, <1>2

(* An order sortByCosineSimilarity may leave S in. *)
IsRanking(s, S, similarity) ==
  /\ s \in [1 .. Cardinality(S) -> S]
  /\ \A i, j \in DOMAIN s : i < j =>
       s[i] # s[j] /\ Compares(similarity[s[i]], similarity[s[j]])

(* The worst match goes last, behind any order of the others. *)
LEMMA WorstGoesLast ==
  ASSUME NEW S, IsFiniteSet(S), NEW similarity,
         NEW worst \in S,
         \A h \in S : Compares(similarity[h], similarity[worst]),
         NEW s, IsRanking(s, S \ {worst}, similarity)
  PROVE  \E t : IsRanking(t, S, similarity)
<1> DEFINE n == Cardinality(S)
           t == [i \in 1 .. n |-> IF i = n THEN worst ELSE s[i]]
<1>1. n \in Nat /\ n > 0 /\ Cardinality(S \ {worst}) = n - 1
  <2>1. IsFiniteSet(S \ {worst}) /\ Cardinality(S \ {worst}) = n - 1
    BY FS_RemoveElement
  <2> QED
    BY <2>1, FS_CardinalityType
<1> HIDE DEF n
<1>2. s \in [1 .. n - 1 -> S \ {worst}] /\ DOMAIN s = 1 .. n - 1
  BY <1>1 DEF IsRanking
<1>3. \A i \in 1 .. n - 1 : t[i] = s[i] /\ t[i] \in S /\ t[i] # worst
  BY <1>1, <1>2
<1>4. t[n] = worst
  BY <1>1
<1>5. t \in [1 .. n -> S] /\ DOMAIN t = 1 .. n
  BY <1>1, <1>2
<1>6. ASSUME NEW i \in 1 .. n, NEW j \in 1 .. n, i < j
      PROVE  t[i] # t[j] /\ Compares(similarity[t[i]], similarity[t[j]])
  <2> HIDE DEF t
  <2>1. i \in 1 .. n - 1
    BY <1>1, <1>6
  <2>2. CASE j = n
    BY <1>3, <1>4, <2>1, <2>2
  <2>3. CASE j # n
    <3>1. j \in 1 .. n - 1
      BY <1>1, <2>3
    <3>2. s[i] # s[j] /\ Compares(similarity[s[i]], similarity[s[j]])
      BY <1>2, <1>6, <2>1, <3>1 DEF IsRanking
    <3> QED
      BY <1>3, <2>1, <3>1, <3>2
  <2> QED
    BY <2>2, <2>3
<1>7. IsRanking(t, S, similarity)
  <2> HIDE DEF t
  <2> QED
    BY <1>5, <1>6 DEF IsRanking, n
<1> QED
  BY <1>7

(* Any finite set of candidates can be sorted. *)
LEMMA RankingExists ==
  ASSUME NEW S, IsFiniteSet(S), NEW similarity \in [S -> Similarities]
  PROVE  \E s : IsRanking(s, S, similarity)
<1> DEFINE Unranked == {T \in SUBSET S : ~ \E s : IsRanking(s, T, similarity)}
           Sizes == {Cardinality(T) : T \in Unranked}
<1>1. \A T \in SUBSET S : IsFiniteSet(T) /\ Cardinality(T) \in Nat
  BY FS_Subset, FS_CardinalityType
<1>2. SUFFICES ASSUME Unranked # {} PROVE FALSE
  OBVIOUS
<1>3. Sizes \in SUBSET Nat /\ Sizes # {}
  BY <1>1, <1>2
<1>4. PICK least \in Sizes : \A n \in Sizes : least <= n
  <2> HIDE DEF Sizes
  <2> QED
    BY <1>3, LeastNatural
<1>5. PICK T \in Unranked : Cardinality(T) = least
  BY <1>4
<1>6. T # {}
  <2> SUFFICES ASSUME T = {} PROVE FALSE
    OBVIOUS
  <2>1. Cardinality({}) = 0
    BY FS_EmptySet
  <2>2. IsRanking([i \in 1 .. 0 |-> 0], {}, similarity)
    BY <2>1 DEF IsRanking
  <2> QED
    BY <1>5, <2>2
<1>7. \E worst \in T : \A h \in T : Compares(similarity[h], similarity[worst])
  <2> DEFINE ofT == [h \in T |-> similarity[h]]
  <2>1. ofT \in [T -> Similarities]
    OBVIOUS
  <2>2. \A h \in T : ofT[h] = similarity[h]
    OBVIOUS
  <2> HIDE DEF ofT
  <2>3. PICK worst \in T : \A h \in T : Compares(ofT[h], ofT[worst])
    BY <1>6, <2>1, WorstMatch
  <2> QED
    BY <2>2, <2>3
<1>8. PICK worst \in T : \A h \in T : Compares(similarity[h], similarity[worst])
  BY <1>7
<1>9. IsFiniteSet(T) /\ Cardinality(T) \in Nat
  BY <1>1, <1>5
<1>10. Cardinality(T \ {worst}) = Cardinality(T) - 1
  BY <1>8, <1>9, FS_RemoveElement
<1>11. T \ {worst} \notin Unranked
  <2>1. CASE T \ {worst} \in Unranked
    <3>1. Cardinality(T \ {worst}) \in Sizes
      BY <2>1
    <3> QED
      BY <1>4, <1>5, <1>9, <1>10, <3>1
  <2> QED
    BY <2>1
<1>12. PICK s : IsRanking(s, T \ {worst}, similarity)
  BY <1>5, <1>11
<1>13. \E t : IsRanking(t, T, similarity)
  BY <1>8, <1>9, <1>12, WorstGoesLast
<1> QED
  BY <1>5, <1>13

-----------------------------------------------------------------------------
(* What the state and the constants say of the candidates of a query. *)
LEMMA CandidatesAreFinite ==
  /\ Candidates \subseteq Ids
  /\ IsFiniteSet(Candidates)
  /\ Cardinality(Candidates) \in Nat
<1>1. Candidates \subseteq Ids
  BY DEF Candidates, Embedded
<1>2. IsFiniteSet(Ids)
  BY ShelfIsTyped, FS_Interval DEF Ids
<1>3. IsFiniteSet(Candidates)
  BY <1>1, <1>2, FS_Subset
<1> QED
  BY <1>1, <1>3, FS_CardinalityType

LEMMA SimilarityIsTyped ==
  ASSUME TypeOK, NEW query \in Queries, NEW h \in Candidates
  PROVE  SimilarityTo(query, h) \in Similarities
<1>1. index[h] \in Embedding
  BY DEF TypeOK, Candidates, Embedded
<1>2. index[h].text \in Texts
  BY <1>1 DEF Embedding
<1>3. Cosine[query] \in [Texts -> Nat \cup {NaN}]
  BY SearchIsTyped
<1> QED
  BY <1>2, <1>3 DEF SimilarityTo, Similarities

(* There is always an answer. *)
LEMMA AnAnswerExists ==
  ASSUME TypeOK, NEW query \in Queries
  PROVE  Answers(query) # {}
<1> DEFINE similarity == [h \in Candidates |-> SimilarityTo(query, h)]
<1>1. similarity \in [Candidates -> Similarities]
  BY SimilarityIsTyped
<1>2. \A h \in Candidates : similarity[h] = SimilarityTo(query, h)
  OBVIOUS
<1> HIDE DEF similarity
<1>3. PICK s : IsRanking(s, Candidates, similarity)
  BY <1>1, CandidatesAreFinite, RankingExists
<1>4. \A i \in DOMAIN s : s[i] \in Candidates
  BY <1>3 DEF IsRanking
<1>5. s \in Rankings(query)
  BY <1>2, <1>3, <1>4 DEF IsRanking, Rankings
<1> QED
  BY <1>5 DEF Answers

(* A ranking lists every candidate, at one place. *)
LEMMA RankingListsAll ==
  ASSUME NEW query, NEW s \in Rankings(query)
  PROVE  /\ DOMAIN s = 1 .. Cardinality(Candidates)
         /\ \A i \in DOMAIN s : s[i] \in Candidates
         /\ \A i, j \in DOMAIN s : s[i] = s[j] => i = j
         /\ \A h \in Candidates : \E i \in DOMAIN s : s[i] = h
<1> DEFINE n == Cardinality(Candidates)
<1>1. n \in Nat
  BY CandidatesAreFinite
<1>2. s \in [1 .. n -> Candidates] /\ DOMAIN s = 1 .. n
  BY DEF Rankings
<1>3. \A i, j \in DOMAIN s : i < j => s[i] # s[j]
  BY DEF Rankings
<1> HIDE DEF n
<1>4. \A i, j \in 1 .. n : s[i] = s[j] => i = j
  BY <1>1, <1>2, <1>3
<1>5. s \in Injection(1 .. n, Candidates)
  BY <1>2, <1>4 DEF Injection, IsInjective
<1>6. Cardinality(1 .. n) = n
  BY <1>1, FS_Interval
<1>7. s \in Surjection(1 .. n, Candidates)
  BY <1>5, <1>6, CandidatesAreFinite, FS_Injection DEF n
<1>8. \A h \in Candidates : \E i \in 1 .. n : s[i] = h
  BY <1>7 DEF Surjection
<1> QED
  BY <1>2, <1>4, <1>8 DEF n

(* An answer is the first TopK of a ranking. *)
LEMMA AnswerIsAPrefix ==
  ASSUME NEW query, NEW a \in Answers(query)
  PROVE  \E s \in Rankings(query) :
           /\ Len(a) = Smaller(Cardinality(Candidates), TopK)
           /\ \A i \in 1 .. Len(a) : i \in DOMAIN s /\ a[i] = s[i]
<1> DEFINE n == Cardinality(Candidates)
           m == Smaller(n, TopK)
<1>1. n \in Nat /\ TopK \in Nat /\ m \in Nat /\ m <= n
  BY CandidatesAreFinite, SearchIsTyped DEF Smaller
<1>2. PICK s \in Rankings(query) : a = SubSeq(s, 1, Smaller(Len(s), TopK))
  BY DEF Answers
<1>3. DOMAIN s = 1 .. n /\ \A i \in 1 .. n : s[i] \in Candidates
  BY <1>2, RankingListsAll
<1>4. s \in [1 .. n -> Candidates]
  BY <1>2 DEF Rankings
<1>5. s \in Seq(Candidates) /\ Len(s) = n
  <2>1. s \in Seq(Candidates)
    BY <1>1, <1>4, SeqDef
  <2> QED
    BY <1>1, <1>3, <2>1, LenProperties
<1>6. a = SubSeq(s, 1, m)
  BY <1>2, <1>5
<1> HIDE DEF m, n
<1>7. \A i \in 1 .. m : s[i] \in Candidates
  BY <1>1, <1>3
<1>8. /\ Len(SubSeq(s, 1, m)) = IF 1 <= m THEN m - 1 + 1 ELSE 0
      /\ \A i \in 1 .. m - 1 + 1 : SubSeq(s, 1, m)[i] = s[1 + i - 1]
  BY <1>1, <1>7, SubSeqProperties
<1>9. Len(a) = m
  BY <1>1, <1>6, <1>8
<1>10. \A i \in 1 .. m : a[i] = s[i]
  <2> TAKE i \in 1 .. m
  <2>1. i \in 1 .. m - 1 + 1 /\ 1 + i - 1 = i
    BY <1>1
  <2> QED
    BY <1>6, <1>8, <2>1
<1>11. \A i \in 1 .. m : i \in DOMAIN s
  BY <1>1, <1>3
<1> QED
  BY <1>2, <1>9, <1>10, <1>11 DEF m, n

-----------------------------------------------------------------------------
(* An answer lists each device once, and only devices that exist. *)
LEMMA EachDeviceOnce ==
  ASSUME NEW query, NEW a \in Answers(query)
  PROVE  LET listed == {a[i] : i \in 1 .. Len(a)} IN
           /\ Cardinality(listed) = Len(a)
           /\ listed \subseteq Candidates
<1> DEFINE m == Len(a)
           listed == {a[i] : i \in 1 .. m}
           place == [i \in 1 .. m |-> a[i]]
<1>1. PICK s \in Rankings(query) :
        /\ m = Smaller(Cardinality(Candidates), TopK)
        /\ \A i \in 1 .. m : i \in DOMAIN s /\ a[i] = s[i]
  BY AnswerIsAPrefix
<1>2. m \in Nat
  BY <1>1, CandidatesAreFinite, SearchIsTyped DEF Smaller
<1> HIDE DEF m
<1>3. \A i, j \in 1 .. m : a[i] = a[j] => i = j
  BY <1>1, RankingListsAll
<1>4. listed \subseteq Candidates
  BY <1>1, RankingListsAll
<1>5. place \in [1 .. m -> listed] /\ \A i \in 1 .. m : place[i] = a[i]
  OBVIOUS
<1>6. \A h \in listed : \E i \in 1 .. m : place[i] = h
  OBVIOUS
<1> HIDE DEF place
<1>7. place \in Bijection(1 .. m, listed)
  <2> HIDE DEF listed
  <2>1. \A i, j \in 1 .. m : place[i] = place[j] => i = j
    BY <1>3, <1>5
  <2>2. place \in Injection(1 .. m, listed)
    BY <1>5, <2>1 DEF Injection, IsInjective
  <2>3. place \in Surjection(1 .. m, listed)
    BY <1>5, <1>6 DEF Surjection
  <2> QED
    BY <2>2, <2>3 DEF Bijection
<1>8. Cardinality(listed) = m
  <2> HIDE DEF listed
  <2>1. ExistsBijection(1 .. m, listed)
    BY <1>7 DEF ExistsBijection
  <2> QED
    BY <1>2, <2>1, FS_CountingElements
<1> QED
  BY <1>4, <1>8 DEF m

(* An answer that is not full lists every candidate. *)
LEMMA ShortAnswerListsAll ==
  ASSUME NEW query, NEW a \in Answers(query), Len(a) < TopK
  PROVE  {a[i] : i \in 1 .. Len(a)} = Candidates
<1>1. PICK s \in Rankings(query) :
        /\ Len(a) = Smaller(Cardinality(Candidates), TopK)
        /\ \A i \in 1 .. Len(a) : i \in DOMAIN s /\ a[i] = s[i]
  BY AnswerIsAPrefix
<1>2. Len(a) = Cardinality(Candidates)
  BY <1>1, CandidatesAreFinite, SearchIsTyped DEF Smaller
<1>3. /\ DOMAIN s = 1 .. Len(a)
      /\ \A i \in DOMAIN s : s[i] \in Candidates
      /\ \A h \in Candidates : \E i \in DOMAIN s : s[i] = h
  BY <1>2, RankingListsAll
<1> QED
  BY <1>1, <1>3

(* A better match that were listed later, or not at all, would stand behind *)
(* a worse one in the ranking.                                              *)
LEMMA BetterStandsBefore ==
  ASSUME TypeOK, NEW query \in Queries, NEW a \in Answers(query),
         NEW i \in 1 .. Len(a), NEW h \in Candidates,
         Beats(SimilarityTo(query, h), SimilarityTo(query, a[i]))
  PROVE  \E j \in 1 .. i - 1 : a[j] = h
<1>1. PICK s \in Rankings(query) :
        /\ Len(a) = Smaller(Cardinality(Candidates), TopK)
        /\ \A k \in 1 .. Len(a) : k \in DOMAIN s /\ a[k] = s[k]
  BY AnswerIsAPrefix
<1>2. /\ DOMAIN s = 1 .. Cardinality(Candidates)
      /\ \A k \in DOMAIN s : s[k] \in Candidates
  BY RankingListsAll
<1>3. PICK j \in DOMAIN s : s[j] = h
  BY RankingListsAll
<1>4. i \in DOMAIN s /\ a[i] = s[i] /\ s[i] \in Candidates
  BY <1>1, <1>2
<1>5. Len(a) \in Nat /\ i \in Nat /\ j \in Nat /\ j >= 1
  BY <1>1, <1>2, <1>3, CandidatesAreFinite, SearchIsTyped DEF Smaller
<1>6. /\ SimilarityTo(query, h) \in Similarities
      /\ SimilarityTo(query, s[i]) \in Similarities
  BY <1>4, SimilarityIsTyped
<1>7. ~ Compares(SimilarityTo(query, s[i]), SimilarityTo(query, h))
  <2>1. Beats(SimilarityTo(query, h), SimilarityTo(query, s[i]))
    BY <1>4
  <2> QED
    BY <1>6, <2>1, SearchIsTyped DEF Beats, Compares, Similarities
<1>8. ~ (i < j)
  BY <1>3, <1>4, <1>7 DEF Rankings
<1>9. i # j
  <2>1. ~ Beats(SimilarityTo(query, h), SimilarityTo(query, h))
    BY <1>6, SearchIsTyped DEF Beats, Similarities
  <2> QED
    BY <1>3, <1>4, <2>1
<1>10. j \in 1 .. i - 1 /\ j \in 1 .. Len(a)
  BY <1>5, <1>8, <1>9
<1> QED
  BY <1>1, <1>3, <1>10

(* Whatever writes, restarts and changes of configuration the index has     *)
(* been through, an answer exists, lists each device once and only devices  *)
(* that exist, is as long as it may be and leaves no better match behind.   *)
THEOREM AnswersAreBest == Spec => []AnswersAreTheBest
<1>1. TypeOK => AnswersAreTheBest
  <2> SUFFICES ASSUME TypeOK, NEW query \in Queries
               PROVE
                 /\ Answers(query) # {}
                 /\ \A a \in Answers(query) :
                      LET listed == {a[i] : i \in 1 .. Len(a)} IN
                      /\ Cardinality(listed) = Len(a)
                      /\ \A h \in listed : hardware[h] # None
                      /\ Len(a) < TopK => listed = Candidates
                      /\ \A i \in 1 .. Len(a), h \in Candidates :
                           Beats(SimilarityTo(query, h), SimilarityTo(query, a[i])) =>
                             \E j \in 1 .. i - 1 : a[j] = h
    BY DEF AnswersAreTheBest
  <2>1. Answers(query) # {}
    BY AnAnswerExists
  <2> SUFFICES ASSUME NEW a \in Answers(query)
               PROVE
                 LET listed == {a[i] : i \in 1 .. Len(a)} IN
                 /\ Cardinality(listed) = Len(a)
                 /\ \A h \in listed : hardware[h] # None
                 /\ Len(a) < TopK => listed = Candidates
                 /\ \A i \in 1 .. Len(a), h \in Candidates :
                      Beats(SimilarityTo(query, h), SimilarityTo(query, a[i])) =>
                        \E j \in 1 .. i - 1 : a[j] = h
    BY <2>1
  <2> DEFINE listed == {a[i] : i \in 1 .. Len(a)}
  <2>2. Cardinality(listed) = Len(a) /\ listed \subseteq Candidates
    BY EachDeviceOnce
  <2>3. \A h \in listed : hardware[h] # None
    BY <2>2 DEF Candidates, Embedded
  <2>4. Len(a) < TopK => listed = Candidates
    BY ShortAnswerListsAll
  <2>5. \A i \in 1 .. Len(a), h \in Candidates :
          Beats(SimilarityTo(query, h), SimilarityTo(query, a[i])) =>
            \E j \in 1 .. i - 1 : a[j] = h
    BY BetterStandsBefore
  <2> QED
    BY <2>2, <2>3, <2>4, <2>5
<1> QED
  BY <1>1, TypeCorrect, PTL

-----------------------------------------------------------------------------
(* When every device is searchable, the candidates are the devices, each    *)
(* compared by its present text.                                            *)
LEMMA DevicesAreCandidates ==
  ASSUME \A h \in Ids : Searchable(h)
  PROVE  /\ \A h \in Ids : hardware[h] # None => h \in Candidates
         /\ \A query \in Queries, h \in Candidates :
              /\ hardware[h] # None
              /\ SimilarityTo(query, h) = Cosine[query][hardware[h]]
BY DEF Searchable, Fresh, Candidates, Embedded, SimilarityTo

(* The nearest text leads every answer. *)
LEMMA NearestTextLeads ==
  ASSUME TypeOK, \A g \in Ids : Searchable(g),
         NEW h \in Ids, NEW query \in Queries, hardware[h] # None,
         \A text \in Texts \ {hardware[h]} :
           Beats(Cosine[query][hardware[h]], Cosine[query][text]),
         NEW a \in Answers(query)
  PROVE  a # <<>> /\ hardware[a[1]] = hardware[h]
<1>1. h \in Candidates /\ SimilarityTo(query, h) = Cosine[query][hardware[h]]
  BY DevicesAreCandidates
<1>2. Cardinality(Candidates) # 0
  BY <1>1, CandidatesAreFinite, FS_EmptySet
<1>3. Len(a) \in Nat /\ Len(a) >= 1
  <2>1. Len(a) = Smaller(Cardinality(Candidates), TopK)
    BY AnswerIsAPrefix
  <2> QED
    BY <1>2, <2>1, CandidatesAreFinite, SearchIsTyped DEF Smaller
<1>4. a[1] \in Candidates
  <2>1. {a[i] : i \in 1 .. Len(a)} \subseteq Candidates
    BY EachDeviceOnce
  <2>2. 1 \in 1 .. Len(a)
    BY <1>3
  <2> QED
    BY <2>1, <2>2
<1>5. /\ hardware[a[1]] \in Texts
      /\ SimilarityTo(query, a[1]) = Cosine[query][hardware[a[1]]]
  BY <1>4, CandidatesAreFinite, DevicesAreCandidates DEF TypeOK
<1>6. CASE hardware[a[1]] # hardware[h]
  <2>1. Beats(SimilarityTo(query, h), SimilarityTo(query, a[1]))
    BY <1>1, <1>5, <1>6
  <2>2. \E j \in 1 .. 1 - 1 : a[j] = h
    BY <1>1, <1>3, <2>1, BetterStandsBefore
  <2> QED
    BY <2>2
<1>7. a # <<>>
  BY <1>3
<1> QED
  BY <1>6, <1>7

(* As long as the provider answers, the dimensions stay and no writes of    *)
(* the same device overlap, searching for a device's own text puts that     *)
(* text first, on every answer and after every restart.                     *)
THEOREM OwnTextLeads == Calm /\ ApartSpec => []OwnTextComesFirst
<1>1. TypeOK /\ AnsweredMeansSearchable => OwnTextComesFirst
  <2> SUFFICES ASSUME TypeOK, AnsweredMeansSearchable, Quiet,
                      NEW h \in Ids, NEW query \in Queries,
                      hardware[h] # None,
                      \A text \in Texts \ {hardware[h]} :
                        Beats(Cosine[query][hardware[h]], Cosine[query][text]),
                      NEW a \in Answers(query)
               PROVE  a # <<>> /\ hardware[a[1]] = hardware[h]
    BY DEF OwnTextComesFirst
  <2>1. \A g \in Ids : Searchable(g)
    BY DEF AnsweredMeansSearchable
  <2> QED
    BY <2>1, NearestTextLeads
<1>2. ApartInv => TypeOK
  BY DEF ApartInv, IInv
<1> QED
  BY <1>1, <1>2, ApartInvariance, WritersApartAreSearchable, PTL
=============================================================================
