------------------------------- MODULE Search -------------------------------
(***************************************************************************)
(* GET /hardware/search over the catalogue.  The query is embedded first,  *)
(* then one statement reads the whole index, so an answer is a function of *)
(* the query and of the state at that statement; embedder is the same at   *)
(* both, because it never changes in the life of a process.                *)
(***************************************************************************)
EXTENDS Catalogue, Sequences, FiniteSets

CONSTANTS
  Queries,  \* search queries
  Cosine,   \* per query and text: the similarity of their vectors, or NaN
  NaN,      \* 0/0, the similarity to a vector that normalize left at zero
  TopK      \* SEARCH_TOP_K

ASSUME SearchIsTyped ==
  /\ NaN \notin Nat
  /\ Cosine \in [Queries -> [Texts -> Nat \cup {NaN}]]
  /\ TopK \in Nat \ {0}

-----------------------------------------------------------------------------
(* Mutant: the arguments are swapped back. *)
ComparesAscending(x, y) == x = NaN \/ (x # NaN /\ y # NaN /\ x <= y)

(* Mutant: < and > instead of cmp.Compare, so NaN is equal to everything. *)
ComparesByLess(x, y) == x = NaN \/ y = NaN \/ y <= x

(* sortByCosineSimilarity lets similarity x stand before y: cmp.Compare of  *)
(* y and x is not positive, and puts NaN below every number.                *)
Compares(x, y) == y = NaN \/ (x # NaN /\ y # NaN /\ y <= x)

(* GetAllEmbeddings joins the index to the devices. *)
Embedded == {h \in Ids : hardware[h] # None /\ index[h] # None}

(* The vectors of the model and dimensions of the query. *)
Candidates ==
  {h \in Embedded : /\ index[h].model = embedder.model
                    /\ index[h].dimensions = embedder.dimensions}

SimilarityTo(query, h) == Cosine[query][index[h].text]

(* slices.SortFunc is not stable: any order it may leave the candidates in. *)
Rankings(query) ==
  {s \in [1 .. Cardinality(Candidates) -> Candidates] :
     \A i, j \in DOMAIN s : i < j =>
       s[i] # s[j] /\ Compares(SimilarityTo(query, s[i]), SimilarityTo(query, s[j]))}

Smaller(m, n) == IF m <= n THEN m ELSE n

(* Handler.Search *)
Answers(query) ==
  {SubSeq(s, 1, Smaller(Len(s), TopK)) : s \in Rankings(query)}

-----------------------------------------------------------------------------
(* x is a better match than y; what is not a number is no match. *)
Beats(x, y) == x # NaN /\ (y = NaN \/ x > y)

(* Whatever writes, restarts and changes of configuration the index has     *)
(* been through, an answer lists each device once and only devices that     *)
(* exist, is as long as it may be, and no device left out or listed later   *)
(* matches better than one that is listed; a vector without a direction     *)
(* never displaces a match.                                                 *)
AnswersAreTheBest ==
  phase = "serving" =>
    \A query \in Queries :
      /\ Answers(query) # {}
      /\ \A a \in Answers(query) :
           LET listed == {a[i] : i \in 1 .. Len(a)} IN
           /\ Cardinality(listed) = Len(a)
           /\ \A h \in listed : hardware[h] # None
           /\ Len(a) < TopK => listed = Candidates
           /\ \A i \in 1 .. Len(a), h \in Candidates :
                Beats(SimilarityTo(query, h), SimilarityTo(query, a[i])) =>
                  \E j \in 1 .. i - 1 : a[j] = h

(* "Searching for a device's own text must put that device first"           *)
(* (tests/hardware_test.go): when no write is in progress, and no text is   *)
(* nearer to the query than the device's own, the first device listed has   *)
(* that text, on every answer and after every restart.                      *)
OwnTextComesFirst ==
  Quiet =>
    \A h \in Ids, query \in Queries :
      /\ hardware[h] # None
      /\ \A text \in Texts \ {hardware[h]} :
           Beats(Cosine[query][hardware[h]], Cosine[query][text])
      => \A a \in Answers(query) : a # <<>> /\ hardware[a[1]] = hardware[h]
=============================================================================
