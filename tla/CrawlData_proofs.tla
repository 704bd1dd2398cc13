---------------------------- MODULE CrawlData_proofs ----------------------------
(***************************************************************************)
(* Theorems about the way of a target's data: what the prefilter of        *)
(* YouTube records amounts to, and, for every input, platform_meta and     *)
(* artefact of any length, that each value entered has its task, that the  *)
(* dry run agrees with the dispatch, that exactly what is about the        *)
(* business is published, and that records trace to their task.            *)
(***************************************************************************)
EXTENDS CrawlData, FiniteSetTheorems, FunctionTheorems, SequenceTheorems, TLAPS

-----------------------------------------------------------------------------
(***************************************************************************)
(* The prefilter.                                                          *)
(***************************************************************************)

(* The fields of a text.                                                   *)
LEMMA TextSigns ==
  ASSUME NEW text \in Texts
  PROVE  text.says \in SUBSET Signals /\ text.len \in Nat
BY DEF Texts

(* evaluateYouTubeBusinessPrefilter keeps a text if and only if it is      *)
(* relevant: no sum ends just below a threshold and no cap catches a text  *)
(* with signals of its own, and being a comment makes no difference.       *)
THEOREM PrefilterIsRelevance ==
  ASSUME NEW isComment \in BOOLEAN, NEW text \in Texts, NEW ctx \in SUBSET Signals
  PROVE  Keep(isComment, text, ctx) <=> Relevant(text, ctx)
BY SMTT(120) DEF Keep, Relevant, Score, CommentCap, Capped, BrandPoints, LogisticsPoints,
  CompetitorPoints, CrisisPoints, LengthPoints, Points, Direct, Silent, Says, Business,
  Texts, Signals

(* A text that says more, or says it at more length, in a context that says*)
(* more is kept if the other one is: generic phrases and off-topic markers *)
(* never drop a text by being added to it.                                 *)
THEOREM SignalsNeverHurt ==
  ASSUME NEW isComment \in BOOLEAN, NEW ctx \in SUBSET Signals, NEW more \in SUBSET Signals,
         NEW text \in Texts, NEW richer \in Texts,
         text.says \subseteq richer.says, text.len <= richer.len, ctx \subseteq more,
         Keep(isComment, text, ctx)
  PROVE  Keep(isComment, richer, more)
<1>1. Relevant(text, ctx)
  BY PrefilterIsRelevance
<1>2. richer.len >= 80 \/ ~ text.len >= 80
  BY TextSigns
<1>3. Relevant(richer, more)
  BY <1>1, <1>2, SMT DEF Relevant, Says
<1> QED
  BY <1>3, PrefilterIsRelevance

(* A comment is not kept for the video it is under, nor a video for its    *)
(* keyword and channel: something in the text itself is about the business.*)
THEOREM ContextAloneIsNotKept ==
  ASSUME NEW isComment \in BOOLEAN, NEW text \in Texts, NEW ctx \in SUBSET Signals,
         Keep(isComment, text, ctx)
  PROVE  ~ Silent(text)
<1>1. Relevant(text, ctx)
  BY PrefilterIsRelevance
<1> QED
  BY <1>1 DEF Relevant, Silent, Direct, Says, Business

(* Boilerplate is kept only for a crisis of the business it is shown under.*)
THEOREM BoilerplateIsKeptForACrisis ==
  ASSUME NEW isComment \in BOOLEAN, NEW text \in Texts, NEW ctx \in SUBSET Signals,
         Boilerplate(text), Keep(isComment, text, ctx)
  PROVE  Says(text, "crisis") /\ ctx \cap {"brand", "logistics"} # {}
<1>1. Relevant(text, ctx)
  BY PrefilterIsRelevance
<1> QED
  BY <1>1 DEF Relevant, Boilerplate, Direct, Says, Business

-----------------------------------------------------------------------------
(***************************************************************************)
(* Sequences: a sequence is a function on 1..n, whatever its values are.   *)
(***************************************************************************)

(* s is a sequence.                                                        *)
IsSeq(s) == s \in Seq(ToSet(s))

(* The library's name for the values of a sequence.                        *)
LEMMA ToSetIsRange ==
  ASSUME NEW s
  PROVE  ToSet(s) = Range(s)
BY DEF ToSet, Range

(* A sequence is one of its own values.                                    *)
LEMMA SeqIsSeq ==
  ASSUME NEW S, NEW s \in Seq(S)
  PROVE  IsSeq(s) /\ ToSet(s) \subseteq S
<1>1. s \in Seq(Range(s)) /\ Range(s) \in SUBSET S
  BY SeqOfRange, RangeOfSeq
<1>. QED
  BY <1>1, ToSetIsRange DEF IsSeq

(* A function on 1..n is a sequence.                                       *)
LEMMA FunIsSeq ==
  ASSUME NEW S, NEW n \in Nat, NEW f \in [1..n -> S]
  PROVE  f \in Seq(S) /\ IsSeq(f) /\ Len(f) = n /\ DOMAIN f = 1..n
<1>1. f \in Seq(S)
  BY SeqDef
<1>2. DOMAIN f = 1..n /\ DOMAIN f = 1..Len(f) /\ Len(f) \in Nat
  BY <1>1, LenProperties
<1>3. Len(f) = n
  BY <1>2
<1>. QED
  BY <1>1, <1>2, <1>3, SeqIsSeq

(* Concatenation joins the values.                                         *)
LEMMA JoinedSeq ==
  ASSUME NEW s, NEW t, IsSeq(s), IsSeq(t)
  PROVE  IsSeq(s \o t) /\ ToSet(s \o t) = ToSet(s) \cup ToSet(t)
<1>. DEFINE S == ToSet(s) \cup ToSet(t)
<1>1. s \in Seq(S) /\ t \in Seq(S)
  <2>1. s \in Seq(ToSet(s)) /\ t \in Seq(ToSet(t))
    BY DEF IsSeq
  <2>2. ToSet(s) \subseteq S /\ ToSet(t) \subseteq S
    OBVIOUS
  <2>. HIDE DEF S
  <2>. QED
    BY <2>1, <2>2, SeqMonotonic
<1>. HIDE DEF S
<1>2. s \o t \in Seq(S) /\ Range(s \o t) = Range(s) \cup Range(t)
  BY <1>1, ConcatProperties, RangeConcatenation
<1>3. IsSeq(s \o t)
  BY <1>2, SeqIsSeq
<1>. QED
  BY <1>2, <1>3, ToSetIsRange

(* The elements of a finite set of numbers, counted from below.            *)
LEMMA Counting ==
  ASSUME NEW m \in Nat, NEW I \in SUBSET (1..m)
  PROVE  /\ IsFiniteSet(I) /\ Cardinality(I) \in Nat
         /\ \A i \in I : Cardinality({j \in I : j < i}) \in 0..(Cardinality(I) - 1)
         /\ \A h, i \in I :
              Cardinality({j \in I : j < h}) = Cardinality({j \in I : j < i}) => h = i
         /\ \A k \in 1..Cardinality(I) : \E i \in I : Cardinality({j \in I : j < i}) = k - 1
<1>. DEFINE B(i) == {j \in I : j < i}
            n == Cardinality(I)
            r == [i \in I |-> Cardinality(B(i))]
<1>1. IsFiniteSet(I) /\ n \in Nat
  <2>1. IsFiniteSet(1..m)
    BY FS_Interval
  <2>. QED
    BY <2>1, FS_Subset, FS_CardinalityType
<1>2. ASSUME NEW i \in I
      PROVE  IsFiniteSet(B(i)) /\ Cardinality(B(i)) \in Nat /\ Cardinality(B(i)) < n
  <2>1. B(i) \in SUBSET I /\ i \notin B(i)
    OBVIOUS
  <2>2. IsFiniteSet(B(i)) /\ Cardinality(B(i)) <= n /\ (n = Cardinality(B(i)) => I = B(i))
    BY <1>1, <2>1, FS_Subset
  <2>. QED
    BY <1>1, <2>1, <2>2, FS_CardinalityType
<1>3. ASSUME NEW h \in I, NEW i \in I, h < i
      PROVE  Cardinality(B(h)) < Cardinality(B(i))
  <2>1. B(h) \in SUBSET B(i) /\ h \in B(i) /\ h \notin B(h)
    <3>1. \A j \in I : j \in Int
      OBVIOUS
    <3>2. \A j \in I : j < h => j < i
      BY <1>3, <3>1
    <3>3. ~(h < h)
      BY <3>1
    <3>. QED
      BY <1>3, <3>2, <3>3
  <2>2. Cardinality(B(h)) \in Nat /\ Cardinality(B(i)) \in Nat /\ IsFiniteSet(B(i))
    BY <1>2
  <2>. HIDE DEF B
  <2>3. Cardinality(B(h)) <= Cardinality(B(i)) /\ Cardinality(B(h)) # Cardinality(B(i))
    BY <2>1, <2>2, FS_Subset
  <2>. QED
    BY <2>2, <2>3
<1>4. \A i \in I : r[i] = Cardinality(B(i))
  OBVIOUS
<1>5. ASSUME NEW h \in I, NEW i \in I, Cardinality(B(h)) = Cardinality(B(i))
      PROVE  h = i
  <2>1. h \in Int /\ i \in Int /\ Cardinality(B(h)) \in Int
    BY <1>2
  <2>2. ~(h < i) /\ ~(i < h)
    <3>. HIDE DEF B
    <3>. QED
      BY <1>3, <1>5, <2>1
  <2>. QED
    BY <2>1, <2>2
<1>. HIDE DEF n
<1>6. r \in [I -> 0..(n - 1)]
  <2>. HIDE DEF B
  <2>1. \A i \in I : Cardinality(B(i)) \in 0..(n - 1)
    BY <1>1, <1>2
  <2>. QED
    BY <2>1
<1>7. \A h, i \in I : r[h] = r[i] => h = i
  <2>. HIDE DEF B
  <2>. QED
    BY <1>4, <1>5
<1>. HIDE DEF r
<1>8. r \in Injection(I, 0..(n - 1))
  BY <1>6, <1>7, Fun_IsInj
<1>9. r \in Surjection(I, 0..(n - 1))
  <2>1. IsFiniteSet(0..(n - 1)) /\ Cardinality(0..(n - 1)) = n
    BY <1>1, FS_Interval
  <2>2. n = Cardinality(I)
    BY DEF n
  <2>. QED
    BY <1>8, <2>1, <2>2, FS_Injection
<1>10. ASSUME NEW k \in 1..n PROVE \E i \in I : Cardinality(B(i)) = k - 1
  <2>1. k - 1 \in 0..(n - 1)
    BY <1>1
  <2>2. PICK i \in I : r[i] = k - 1
    BY <1>9, <2>1 DEF Surjection
  <2>. HIDE DEF B
  <2>. QED
    BY <1>4, <2>2
<1>11. \A i \in I : Cardinality(B(i)) \in 0..(n - 1)
  <2>. HIDE DEF B
  <2>. QED
    BY <1>4, <1>6
<1>. QED
  BY <1>1, <1>5, <1>10, <1>11 DEF n

-----------------------------------------------------------------------------
(* EntriesAt keeps the entries at the positions, and all of them when the  *)
(* positions are all there are.                                            *)
LEMMA Entries ==
  ASSUME NEW S, NEW s \in Seq(S), NEW I \in SUBSET DOMAIN s
  PROVE  /\ EntriesAt(s, I) \in Seq(S) /\ IsSeq(EntriesAt(s, I))
         /\ Len(EntriesAt(s, I)) = Cardinality(I)
         /\ ToSet(EntriesAt(s, I)) = {s[i] : i \in I}
         /\ EntriesAt(s, I) = <<>> <=> I = {}
         /\ 1 \in I => EntriesAt(s, I)[1] = s[1]
         /\ I = DOMAIN s => EntriesAt(s, I) = s
<1>. DEFINE m == Len(s)
            n == Cardinality(I)
            B(i) == {j \in I : j < i}
            at(k) == CHOOSE i \in I : Cardinality(B(i)) = k - 1
            e == EntriesAt(s, I)
<1>1. m \in Nat /\ DOMAIN s = 1..m /\ I \in SUBSET (1..m) /\ \A i \in 1..m : s[i] \in S
  BY LenProperties, ElementOfSeq
<1>2. /\ IsFiniteSet(I) /\ n \in Nat
      /\ \A i \in I : Cardinality(B(i)) \in 0..(n - 1)
      /\ \A h, i \in I : Cardinality(B(h)) = Cardinality(B(i)) => h = i
      /\ \A k \in 1..n : \E i \in I : Cardinality(B(i)) = k - 1
  BY <1>1, Counting
<1>3. e = [k \in 1..n |-> s[at(k)]]
  BY DEF EntriesAt
<1>. HIDE DEF n, e, m
<1>4. ASSUME NEW k \in 1..n
      PROVE  at(k) \in I /\ Cardinality(B(at(k))) = k - 1
  <2>. HIDE DEF B
  <2>. QED
    BY <1>2
<1>. HIDE DEF at
<1>5. ASSUME NEW i \in I PROVE \E k \in 1..n : at(k) = i
  <2>. HIDE DEF B
  <2>. DEFINE k == Cardinality(B(i)) + 1
  <2>1. k \in 1..n /\ Cardinality(B(i)) = k - 1
    BY <1>2
  <2>2. at(k) \in I /\ Cardinality(B(at(k))) = Cardinality(B(i))
    BY <1>4, <2>1
  <2>3. at(k) = i
    BY <1>2, <2>2
  <2>. HIDE DEF k
  <2>. QED
    BY <2>1, <2>3
<1>. HIDE DEF B
<1>6. e \in [1..n -> S]
  BY <1>1, <1>3, <1>4
<1>7. e \in Seq(S) /\ IsSeq(e) /\ Len(e) = n /\ DOMAIN e = 1..n
  BY <1>2, <1>6, FunIsSeq
<1>8. ToSet(e) = {s[i] : i \in I}
  <2>1. ASSUME NEW k \in 1..n PROVE e[k] \in {s[i] : i \in I}
    BY <1>3, <1>4
  <2>2. ASSUME NEW i \in I PROVE \E k \in 1..n : e[k] = s[i]
    BY <1>3, <1>5
  <2>. QED
    BY <1>7, <2>1, <2>2 DEF ToSet
<1>9. e = <<>> <=> I = {}
  <2>1. n = 0 <=> I = {}
    BY <1>2, FS_EmptySet DEF n
  <2>2. e = <<>> <=> n = 0
    BY <1>7, EmptySeq
  <2>. QED
    BY <2>1, <2>2
<1>10. ASSUME 1 \in I PROVE e[1] = s[1]
  <2>1. B(1) = {}
    BY <1>1 DEF B
  <2>2. Cardinality(B(1)) = 0
    BY <2>1, FS_EmptySet
  <2>3. n # 0
    BY <1>2, <1>10, FS_EmptySet DEF n
  <2>4. 1 \in 1..n
    BY <1>2, <2>3
  <2>5. at(1) \in I /\ Cardinality(B(at(1))) = 0
    BY <1>4, <2>4
  <2>6. at(1) = 1
    BY <1>2, <1>10, <2>2, <2>5
  <2>. QED
    BY <1>3, <2>4, <2>6
<1>11. ASSUME I = DOMAIN s PROVE e = s
  <2>1. n = m
    BY <1>1, <1>11, FS_Interval DEF n
  <2>2. ASSUME NEW i \in 1..m PROVE Cardinality(B(i)) = i - 1
    <3>1. B(i) = 1..(i - 1)
      BY <1>1, <1>11 DEF B
    <3>2. 1 \in Int /\ i - 1 \in Int
      OBVIOUS
    <3>3. Cardinality(1..(i - 1)) = IF 1 > i - 1 THEN 0 ELSE i - 1 - 1 + 1
      BY <3>2, FS_Interval
    <3>. QED
      BY <3>1, <3>3
  <2>3. ASSUME NEW k \in 1..m PROVE e[k] = s[k]
    <3>1. at(k) \in I /\ Cardinality(B(at(k))) = k - 1
      BY <1>4, <2>1
    <3>2. at(k) = k
      BY <1>1, <1>2, <1>11, <2>2, <3>1
    <3>. QED
      BY <1>3, <2>1, <3>2
  <2>. QED
    BY <1>7, <2>1, <2>3, SeqEqual DEF m
<1>. QED
  BY <1>7, <1>8, <1>9, <1>10, <1>11 DEF e, n

-----------------------------------------------------------------------------
(***************************************************************************)
(* The helpers of DispatchSpecs.                                           *)
(***************************************************************************)

(* NonBlank drops the blank entries and no others.                         *)
LEMMA KeepsNonBlank ==
  ASSUME NEW S, NEW s \in Seq(S)
  PROVE  /\ NonBlank(s) \in Seq(S) /\ IsSeq(NonBlank(s))
         /\ ToSet(NonBlank(s)) = {v \in ToSet(s) : v # ""}
         /\ NonBlank(s) = <<>> <=> \A i \in DOMAIN s : s[i] = ""
         /\ (\A i \in DOMAIN s : s[i] # "") => NonBlank(s) = s
<1>. DEFINE I == {i \in DOMAIN s : s[i] # ""}
<1>1. I \in SUBSET DOMAIN s /\ NonBlank(s) = EntriesAt(s, I)
  BY DEF NonBlank
<1>2. {s[i] : i \in I} = {v \in ToSet(s) : v # ""}
  BY DEF ToSet
<1>3. I = {} <=> \A i \in DOMAIN s : s[i] = ""
  OBVIOUS
<1>4. (\A i \in DOMAIN s : s[i] # "") => I = DOMAIN s
  OBVIOUS
<1>. HIDE DEF I
<1>5. /\ EntriesAt(s, I) \in Seq(S) /\ IsSeq(EntriesAt(s, I))
      /\ ToSet(EntriesAt(s, I)) = {s[i] : i \in I}
      /\ EntriesAt(s, I) = <<>> <=> I = {}
      /\ I = DOMAIN s => EntriesAt(s, I) = s
  BY <1>1, Entries
<1>. QED
  BY <1>1, <1>2, <1>3, <1>4, <1>5

(* The first place there is.                                               *)
LEMMA OneIsFirst ==
  ASSUME NEW n \in Nat, n # 0
  PROVE  1 \in 1..n
OBVIOUS

(* FirstNonEmpty takes the first of its values if there is one.            *)
LEMMA FirstComesFirst ==
  ASSUME NEW S, NEW s \in Seq(S), s # <<>>, s[1] # ""
  PROVE  FirstNonEmpty(s) = s[1]
<1>. DEFINE I == {i \in DOMAIN s : s[i] # ""}
<1>1. I \in SUBSET DOMAIN s /\ NonBlank(s) = EntriesAt(s, I)
  BY DEF NonBlank
<1>2. 1 \in I
  <2>. DEFINE n == Len(s)
  <2>1. DOMAIN s = 1..n /\ n \in Nat /\ n # 0
    BY LenProperties, EmptySeq
  <2>. HIDE DEF n
  <2>2. 1 \in 1..n
    BY <2>1, OneIsFirst
  <2>. QED
    BY <2>1, <2>2
<1>. HIDE DEF I
<1>3. NonBlank(s) # <<>> /\ NonBlank(s)[1] = s[1]
  BY <1>1, <1>2, Entries
<1>. QED
  BY <1>3 DEF FirstNonEmpty

(* Distinct keeps one entry for each value.                                *)
LEMMA KeepsOneOfEach ==
  ASSUME NEW S, NEW s \in Seq(S)
  PROVE  /\ Distinct(s) \in Seq(S) /\ IsSeq(Distinct(s))
         /\ ToSet(Distinct(s)) = ToSet(s)
         /\ Len(Distinct(s)) = Cardinality(ToSet(s))
         /\ Distinct(s) = <<>> <=> s = <<>>
<1>. DEFINE m == Len(s)
            I == {i \in DOMAIN s : \A j \in 1..(i - 1) : s[j] # s[i]}
<1>1. m \in Nat /\ DOMAIN s = 1..m
  BY LenProperties
<1>2. I \in SUBSET DOMAIN s /\ Distinct(s) = EntriesAt(s, I)
  BY DEF Distinct
<1>. HIDE DEF m
<1>3. ASSUME NEW i \in 1..m PROVE \E h \in I : s[h] = s[i]
  <2>. DEFINE J == {j \in 1..m : s[j] = s[i]}
  <2>1. J \in SUBSET (1..m) /\ i \in J
    OBVIOUS
  <2>2. IsFiniteSet(J) /\ Cardinality(J) # 0 /\ Cardinality(J) \in Nat
    <3>. HIDE DEF J
    <3>. QED
      BY <1>1, <2>1, Counting, FS_EmptySet
  <2>3. 1 \in 1..Cardinality(J)
    BY <2>2
  <2>4. PICK h \in J : Cardinality({j \in J : j < h}) = 0
    <3>. HIDE DEF J
    <3>1. \A k \in 1..Cardinality(J) : \E h \in J : Cardinality({j \in J : j < h}) = k - 1
      BY <1>1, <2>1, Counting
    <3>2. 1 - 1 = 0
      OBVIOUS
    <3>3. \E h \in J : Cardinality({j \in J : j < h}) = 1 - 1
      BY <2>3, <3>1
    <3>. QED
      BY <3>2, <3>3, Zenon
  <2>5. {j \in J : j < h} = {}
    <3>1. IsFiniteSet({j \in J : j < h})
      BY <2>2, FS_Subset
    <3>. QED
      BY <2>4, <3>1, FS_EmptySet
  <2>6. \A j \in 1..(h - 1) : s[j] # s[h]
    BY <1>1, <2>5
  <2>. QED
    BY <1>1, <2>6
<1>4. ASSUME NEW h \in I, NEW i \in I, s[h] = s[i] PROVE h = i
  <2>1. ~(h < i) /\ ~(i < h) /\ h \in Int /\ i \in Int
    BY <1>1, <1>4
  <2>. QED
    BY <2>1
<1>5. {s[i] : i \in I} = ToSet(s)
  <2>1. \A v \in ToSet(s) : \E h \in I : s[h] = v
    BY <1>1, <1>3 DEF ToSet
  <2>2. \A h \in I : s[h] \in ToSet(s)
    BY DEF ToSet
  <2>. HIDE DEF I
  <2>. QED
    BY <2>1, <2>2
<1>. HIDE DEF I
<1>6. Cardinality(I) = Cardinality(ToSet(s))
  <2>. DEFINE f == [i \in I |-> s[i]]
  <2>1. f \in [I -> ToSet(s)] /\ \A h, i \in I : f[h] = f[i] => h = i
    BY <1>4, <1>5
  <2>2. \A v \in ToSet(s) : \E i \in I : f[i] = v
    BY <1>5
  <2>. HIDE DEF f
  <2>3. f \in Bijection(I, ToSet(s))
    BY <2>1, <2>2, Fun_IsBij
  <2>4. IsFiniteSet(I)
    BY <1>1, <1>2, Counting
  <2>. QED
    BY <2>3, <2>4, FS_Bijection DEF ExistsBijection
<1>7. I = {} <=> s = <<>>
  <2>1. s = <<>> <=> m = 0
    BY EmptySeq DEF m
  <2>2. m # 0 => I # {}
    BY <1>1, <1>3
  <2>3. m = 0 => I = {}
    BY <1>1, <1>2
  <2>. QED
    BY <2>1, <2>2, <2>3
<1>8. /\ EntriesAt(s, I) \in Seq(S) /\ IsSeq(EntriesAt(s, I))
      /\ Len(EntriesAt(s, I)) = Cardinality(I)
      /\ ToSet(EntriesAt(s, I)) = {s[i] : i \in I}
      /\ EntriesAt(s, I) = <<>> <=> I = {}
  BY <1>2, Entries
<1>. QED
  BY <1>2, <1>5, <1>6, <1>7, <1>8

-----------------------------------------------------------------------------
(* Induction up to a number, for a set.                                    *)
LEMMA UpTo ==
  ASSUME NEW m \in Nat, NEW P,
         \A i \in 1..m : (i = 1 \/ i - 1 \in P) => i \in P
  PROVE  1..m \subseteq P
<1>. DEFINE I == {i \in 1..m : i \notin P}
<1>. SUFFICES ASSUME I # {} PROVE FALSE
  OBVIOUS
<1>1. I \in SUBSET (1..m)
  OBVIOUS
<1>. HIDE DEF I
<1>2. IsFiniteSet(I) /\ Cardinality(I) # 0 /\ Cardinality(I) \in Nat
  BY <1>1, Counting, FS_EmptySet
<1>3. 1 \in 1..Cardinality(I)
  BY <1>2
<1>4. \A k \in 1..Cardinality(I) : \E h \in I : Cardinality({j \in I : j < h}) = k - 1
  BY <1>1, Counting
<1>5. PICK h \in I : Cardinality({j \in I : j < h}) = 1 - 1
  BY <1>3, <1>4
<1>6. IsFiniteSet({j \in I : j < h})
  BY <1>2, FS_Subset
<1>7. {j \in I : j < h} = {}
  BY <1>5, <1>6, FS_EmptySet
<1>8. h \in 1..m /\ h \notin P
  BY DEF I
<1>9. h # 1 => h - 1 \in 1..m /\ h - 1 \notin I
  BY <1>7, <1>8
<1>. QED
  BY <1>8, <1>9 DEF I

(* FlattenSeq joins sequences to a sequence.                               *)
LEMMA FlattenedSeq ==
  ASSUME NEW S, NEW seqs \in Seq(Seq(S))
  PROVE  FlattenSeq(seqs) \in Seq(S)
<1>. DEFINE n == Len(seqs)
            step(g, i) == IF i = 1 THEN seqs[i] ELSE g[i - 1] \o seqs[i]
            flatten == CHOOSE f : f = [i \in 1..n |-> step(f, i)]
<1>1. n \in Nat /\ DOMAIN seqs = 1..n /\ \A i \in 1..n : seqs[i] \in Seq(S)
  BY LenProperties, ElementOfSeq
<1>2. FlattenSeq(seqs) = IF n = 0 THEN seqs ELSE flatten[n]
  BY DEF FlattenSeq
<1>. HIDE DEF n, step
<1>3. ASSUME NEW k \in 1..n
      PROVE  \E g \in [1..k -> Seq(S)] : \A i \in 1..k : g[i] = step(g, i)
  <2>. DEFINE Q(m, g) == g \in [1..m -> Seq(S)] /\ \A i \in 1..m : g[i] = step(g, i)
              P == {m \in 1..n : \E g : Q(m, g)}
  <2>1. ASSUME NEW m \in 1..n, m = 1 \/ m - 1 \in P
        PROVE  m \in P
    <3>1. CASE m = 1
      <4>. DEFINE g == [i \in 1..1 |-> seqs[1]]
      <4>1. g \in [1..1 -> Seq(S)] /\ \A i \in 1..1 : g[i] = step(g, i)
        BY <1>1, <3>1 DEF step
      <4>. QED
        BY <3>1, <4>1
    <3>2. CASE m # 1
      <4>1. m - 1 \in 1..n /\ m - 1 \in P /\ m \in Int
        <5>. HIDE DEF P
        <5>1. m - 1 \in P
          BY <2>1, <3>2
        <5>2. m \in Int /\ m - 1 \in 1..n
          BY <1>1, <3>2
        <5>. QED
          BY <5>1, <5>2
      <4>2. PICK h : Q(m - 1, h)
        BY <4>1
      <4>. DEFINE g == [i \in 1..m |-> IF i = m THEN h[m - 1] \o seqs[m] ELSE h[i]]
      <4>3. h[m - 1] \in Seq(S) /\ seqs[m] \in Seq(S)
        BY <1>1, <4>1, <4>2
      <4>4. h[m - 1] \o seqs[m] \in Seq(S)
        BY <4>3, ConcatProperties
      <4>5. g \in [1..m -> Seq(S)]
        BY <4>1, <4>2, <4>4
      <4>6. ASSUME NEW i \in 1..m PROVE g[i] = step(g, i)
        <5>1. CASE i = m
          <6>1. m - 1 \in 1..m /\ m - 1 # m /\ m \in 1..m
            BY <4>1
          <6>2. g[m - 1] = h[m - 1] /\ g[m] = h[m - 1] \o seqs[m]
            BY <6>1
          <6>. HIDE DEF g
          <6>. QED
            BY <3>2, <5>1, <6>2 DEF step
        <5>2. CASE i # m
          <6>1. i \in 1..(m - 1)
            BY <4>1, <5>2
          <6>2. h[i] = step(h, i)
            BY <4>2, <6>1
          <6>3. i # 1 => i - 1 \in 1..m /\ i - 1 # m
            BY <4>1, <5>2
          <6>4. step(g, i) = step(h, i)
            BY <6>3 DEF step
          <6>. QED
            BY <5>2, <6>2, <6>4
        <5>. QED
          BY <5>1, <5>2
      <4>7. Q(m, g)
        <5>. HIDE DEF g
        <5>. QED
          BY <4>5, <4>6
      <4>. QED
        BY <4>7
    <3>. QED
      BY <3>1, <3>2
  <2>. HIDE DEF P
  <2>2. k \in P
    BY <1>1, <2>1, UpTo
  <2>3. PICK g : Q(k, g)
    BY <2>2 DEF P
  <2>. QED
    BY <2>3
<1>4. CASE n = 0
  <2>1. seqs = <<>>
    BY <1>4, EmptySeq DEF n
  <2>. QED
    BY <1>2, <1>4, <2>1, EmptySeq
<1>5. CASE n # 0
  <2>1. n \in 1..n
    BY <1>1, <1>5
  <2>2. PICK g \in [1..n -> Seq(S)] : \A i \in 1..n : g[i] = step(g, i)
    BY <1>3, <2>1
  <2>3. g = [i \in 1..n |-> step(g, i)]
    BY <2>2
  <2>4. flatten = [i \in 1..n |-> step(flatten, i)]
    BY <2>3
  <2>. HIDE DEF flatten
  <2>. DEFINE P == {i \in 1..n : flatten[i] \in Seq(S)}
  <2>5. ASSUME NEW i \in 1..n, i = 1 \/ i - 1 \in P
        PROVE  i \in P
    <3>1. flatten[i] = step(flatten, i)
      BY <2>4
    <3>2. CASE i = 1
      BY <1>1, <3>1, <3>2 DEF step
    <3>3. CASE i # 1
      <4>1. flatten[i - 1] \in Seq(S) /\ seqs[i] \in Seq(S)
        BY <1>1, <2>5, <3>3
      <4>2. flatten[i - 1] \o seqs[i] \in Seq(S)
        BY <4>1, ConcatProperties
      <4>. QED
        BY <3>1, <3>3, <4>2 DEF step
    <3>. QED
      BY <3>2, <3>3
  <2>. HIDE DEF P
  <2>6. n \in P
    BY <1>1, <2>1, <2>5, UpTo
  <2>. QED
    BY <1>2, <1>5, <2>6 DEF P
<1>. QED
  BY <1>4, <1>5

-----------------------------------------------------------------------------
(***************************************************************************)
(* The parsers make sequences of records; the one of YouTube says which.   *)
(***************************************************************************)

(* Sequences of sequences are joined to one.                               *)
LEMMA FlattenedIsSeq ==
  ASSUME NEW n \in Nat, NEW T, NEW f \in [1..n -> T], \A i \in 1..n : IsSeq(f[i])
  PROVE  IsSeq(FlattenSeq(f))
<1>. DEFINE S == UNION {ToSet(f[i]) : i \in 1..n}
<1>1. ASSUME NEW i \in 1..n PROVE f[i] \in Seq(S)
  <2>1. f[i] \in Seq(ToSet(f[i]))
    BY DEF IsSeq
  <2>2. ToSet(f[i]) \subseteq S
    OBVIOUS
  <2>. HIDE DEF S
  <2>. QED
    BY <2>1, <2>2, SeqMonotonic
<1>. HIDE DEF S
<1>2. f \in [1..n -> Seq(S)]
  BY <1>1
<1>3. f \in Seq(Seq(S))
  BY <1>2, FunIsSeq
<1>. QED
  BY <1>3, FlattenedSeq, SeqIsSeq

(* The values of the shortest sequences.                                   *)
LEMMA ShortSeqs ==
  ASSUME NEW x
  PROVE  /\ IsSeq(<<>>) /\ ToSet(<<>>) = {}
         /\ IsSeq(<<x>>) /\ ToSet(<<x>>) = {x}
<1>1. <<>> \in Seq({}) /\ <<x>> \in Seq({x})
  BY EmptySeq
<1>2. ToSet(<<>>) = {} /\ ToSet(<<x>>) = {x}
  BY DEF ToSet
<1>. QED
  BY <1>1, <1>2, SeqIsSeq

(* The fields of a bundle.                                                 *)
LEMMA BundleType ==
  ASSUME NEW b \in Bundles
  PROVE  /\ b.comments \in Seq(Comments) /\ Len(b.comments) \in Nat
         /\ DOMAIN b.comments = 1..Len(b.comments)
         /\ \A i \in 1..Len(b.comments) :
              /\ b.comments[i] \in Comments
              /\ Len(b.comments[i].replies) \in Nat
              /\ DOMAIN b.comments[i].replies = 1..Len(b.comments[i].replies)
         /\ b.text \in Texts /\ b.channel \subseteq Signals
<1>1. b.comments \in Seq(Comments) /\ b.text \in Texts /\ b.channel \subseteq Signals
  BY DEF Bundles
<1>2. /\ Len(b.comments) \in Nat /\ DOMAIN b.comments = 1..Len(b.comments)
      /\ \A i \in 1..Len(b.comments) : b.comments[i] \in Comments
  BY <1>1, LenProperties, ElementOfSeq
<1>3. \A c \in Comments : c.replies \in Seq(Strings)
  BY DEF Comments
<1>4. \A c \in Comments : Len(c.replies) \in Nat /\ DOMAIN c.replies = 1..Len(c.replies)
  BY <1>3, LenProperties
<1>. QED
  BY <1>1, <1>2, <1>4

(* flattenTikTokFullFlow                                                   *)
LEMMA TikTokSeq ==
  ASSUME NEW b \in Bundles
  PROVE  IsSeq(TikTokBundle(b))
<1>1. ASSUME NEW reply, NEW c, NEW root
      PROVE  IsSeq(TikTokReply(reply, c, root))
  BY ShortSeqs DEF TikTokReply
<1>2. ASSUME NEW i \in 1..Len(b.comments), NEW root
      PROVE  IsSeq(TikTokComment(b.comments[i], root))
  <2>. DEFINE c == b.comments[i]
              n == Len(c.replies)
              replies == [j \in 1..n |-> TikTokReply(c.replies[j], c, root)]
              head == <<Record("comment", "tt_c_", c.id, root, root)>>
  <2>1. n \in Nat /\ DOMAIN c.replies = 1..n
    BY BundleType
  <2>2. TikTokComment(c, root) = IF Blank(c.id) THEN <<>> ELSE head \o FlattenSeq(replies)
    BY <2>1 DEF TikTokComment
  <2>. DEFINE T == {TikTokReply(c.replies[j], c, root) : j \in 1..n}
  <2>3. replies \in [1..n -> T] /\ \A j \in 1..n : IsSeq(replies[j])
    BY <1>1
  <2>. HIDE DEF replies, n, T
  <2>4. IsSeq(FlattenSeq(replies))
    BY <2>1, <2>3, FlattenedIsSeq
  <2>5. IsSeq(head)
    BY ShortSeqs
  <2>. HIDE DEF head
  <2>6. IsSeq(head \o FlattenSeq(replies))
    BY <2>4, <2>5, JoinedSeq
  <2>. QED
    BY <2>2, <2>6, ShortSeqs
<1>. DEFINE n == Len(b.comments)
            origin == FirstNonEmpty(TrimmedAll(<<b.detail, b.post>>))
            comments == [i \in 1..n |-> TikTokComment(b.comments[i], UapId("tt_p_", origin))]
            head == <<Post("tt_p_", origin)>>
            T == {TikTokComment(b.comments[i], UapId("tt_p_", origin)) : i \in 1..n}
<1>3. n \in Nat /\ DOMAIN b.comments = 1..n
  BY BundleType
<1>4. TikTokBundle(b) = IF origin = "" THEN <<>> ELSE head \o FlattenSeq(comments)
  BY <1>3 DEF TikTokBundle
<1>5. comments \in [1..n -> T] /\ \A i \in 1..n : IsSeq(comments[i])
  BY <1>2
<1>6. IsSeq(head)
  BY ShortSeqs
<1>. HIDE DEF comments, n, T, head, origin
<1>7. IsSeq(FlattenSeq(comments))
  BY <1>3, <1>5, FlattenedIsSeq
<1>8. IsSeq(head \o FlattenSeq(comments))
  BY <1>6, <1>7, JoinedSeq
<1>. QED
  BY <1>4, <1>8, ShortSeqs

(* flattenFacebookFullFlow                                                 *)
LEMMA FacebookSeq ==
  ASSUME NEW b \in Bundles
  PROVE  IsSeq(FacebookBundle(b))
<1>. DEFINE n == Len(b.comments)
            record(i) ==
              IF Blank(b.comments[i].id) THEN <<>>
              ELSE <<Record("comment", "fb_c_", b.comments[i].id,
                            UapId("fb_p_", b.post), UapId("fb_p_", b.post))>>
            comments == [i \in 1..n |-> record(i)]
            head == <<Post("fb_p_", b.post)>>
            T == {record(i) : i \in 1..n}
<1>1. n \in Nat /\ DOMAIN b.comments = 1..n
  BY BundleType
<1>2. FacebookBundle(b) = IF Blank(b.post) THEN <<>> ELSE head \o FlattenSeq(comments)
  BY <1>1 DEF FacebookBundle
<1>3. \A i \in 1..n : IsSeq(record(i))
  BY ShortSeqs
<1>. HIDE DEF record
<1>4. comments \in [1..n -> T] /\ \A i \in 1..n : IsSeq(comments[i])
  BY <1>3
<1>5. IsSeq(head)
  BY ShortSeqs
<1>. HIDE DEF comments, n, T, head
<1>6. IsSeq(FlattenSeq(comments))
  BY <1>1, <1>4, FlattenedIsSeq
<1>7. IsSeq(head \o FlattenSeq(comments))
  BY <1>5, <1>6, JoinedSeq
<1>. QED
  BY <1>2, <1>7, ShortSeqs

(* What the parser publishes of a video is what BusinessIsPublished says,  *)
(* when the prefilter applies.                                             *)
LEMMA YouTubeIds ==
  ASSUME NEW b \in Bundles, NEW dom, NEW spec,
         KeywordSays(CrawlKeyword(spec)) \subseteq Signals
  PROVE  /\ IsSeq(YouTubeBundle(dom, spec, b))
         /\ spec = batch.asked /\ Prefiltered(dom, spec) =>
              {r.id : r \in ToSet(YouTubeBundle(dom, spec, b))}
                = IF Blank(b.post) THEN {} ELSE BusinessIds(b)
<1>. DEFINE comments == b.comments
            I == {i \in DOMAIN comments : KeptComment(dom, spec, b, comments[i])}
            kept == EntriesAt(comments, I)
            Made(c) == Record("comment", "yt_c_", c.id,
                              UapId("yt_p_", b.post), UapId("yt_p_", b.post))
            made == YouTubeComments(dom, spec, b)
            post == YouTubePost(dom, spec, b)
<1>1. /\ comments \in Seq(Comments) /\ b.text \in Texts
      /\ PostContext(spec, b) \in SUBSET Signals /\ CommentContext(spec, b) \in SUBSET Signals
  BY BundleType DEF PostContext, CommentContext, Texts
<1>2. \A c \in Comments : c.text \in Texts
  BY DEF Comments
<1>3. I \in SUBSET DOMAIN comments
  OBVIOUS
<1>4. made = [i \in DOMAIN kept |-> Made(kept[i])]
  BY DEF YouTubeComments
<1>. HIDE DEF I
<1>5. /\ kept \in Seq(Comments) /\ ToSet(kept) = {comments[i] : i \in I}
      /\ kept = <<>> <=> I = {}
  BY <1>1, <1>3, Entries
<1>. HIDE DEF kept
<1>6. Len(kept) \in Nat /\ DOMAIN kept = 1..Len(kept)
  BY <1>5, LenProperties
<1>7. /\ IsSeq(made) /\ (made = <<>> <=> I = {})
      /\ ToSet(made) = {Made(c) : c \in ToSet(kept)}
  <2>. DEFINE n == Len(kept)
              T == {Made(kept[i]) : i \in 1..n}
  <2>1. made = [i \in 1..n |-> Made(kept[i])]
    BY <1>4, <1>6
  <2>. HIDE DEF made, n, Made
  <2>2. n \in Nat
    BY <1>6 DEF n
  <2>3. made \in [1..n -> T]
    BY <2>1
  <2>. HIDE DEF T
  <2>4. IsSeq(made) /\ Len(made) = n /\ DOMAIN made = 1..n /\ made \in Seq(T)
    BY <2>2, <2>3, FunIsSeq
  <2>5. ToSet(made) = {Made(c) : c \in ToSet(kept)}
    <3>1. ToSet(made) = {made[i] : i \in 1..n}
      BY <2>4 DEF ToSet
    <3>2. ToSet(kept) = {kept[i] : i \in 1..n}
      BY <1>6 DEF ToSet, n
    <3>3. \A i \in 1..n : made[i] = Made(kept[i])
      BY <2>1
    <3>. QED
      BY <3>1, <3>2, <3>3
  <2>6. made = <<>> <=> n = 0
    BY <2>4, EmptySeq
  <2>7. kept = <<>> <=> n = 0
    BY <1>5, EmptySeq DEF n
  <2>. QED
    BY <1>5, <2>4, <2>5, <2>6, <2>7
<1>8. IsSeq(post) /\ ToSet(post) \subseteq {Post("yt_p_", b.post)}
  BY ShortSeqs DEF YouTubePost
<1>9. IsSeq(YouTubeBundle(dom, spec, b))
  <2>. HIDE DEF made, post
  <2>1. IsSeq(post \o made)
    BY <1>7, <1>8, JoinedSeq
  <2>. QED
    BY <2>1, ShortSeqs DEF YouTubeBundle, made, post
<1>10. ASSUME spec = batch.asked, Prefiltered(dom, spec), ~Blank(b.post)
       PROVE  {r.id : r \in ToSet(YouTubeBundle(dom, spec, b))} = BusinessIds(b)
  <2>1. \A c \in Comments : KeptComment(dom, spec, b, c) <=> About(b, c)
    <3>. DEFINE yes == TRUE
    <3>1. yes \in BOOLEAN /\ yes = TRUE
      OBVIOUS
    <3>. HIDE DEF yes
    <3>2. \A c \in Comments : Keep(yes, c.text, CommentContext(spec, b))
                                <=> Relevant(c.text, CommentContext(spec, b))
      BY <1>1, <1>2, <3>1, PrefilterIsRelevance
    <3>. QED
      BY <1>10, <3>1, <3>2 DEF KeptComment, About
  <2>2. KeptPost(dom, spec, b) <=> Relevant(b.text, PostContext(spec, b))
    <3>. DEFINE no == FALSE
    <3>1. no \in BOOLEAN /\ no = FALSE
      OBVIOUS
    <3>. HIDE DEF no
    <3>2. Keep(no, b.text, PostContext(spec, b)) <=> Relevant(b.text, PostContext(spec, b))
      BY <1>1, <3>1, PrefilterIsRelevance
    <3>. QED
      BY <1>10, <3>1, <3>2 DEF KeptPost
  <2>3. ToSet(kept) = {c \in ToSet(comments) : About(b, c)}
    <3>1. \A i \in DOMAIN comments : comments[i] \in Comments
      BY <1>1, LenProperties, ElementOfSeq
    <3>2. \A i \in DOMAIN comments : i \in I <=> About(b, comments[i])
      BY <2>1, <3>1 DEF I
    <3>. QED
      BY <1>3, <1>5, <3>2 DEF ToSet
  <2>4. I # {} <=> \E c \in ToSet(b.comments) : About(b, c)
    <3>1. I # {} <=> ToSet(kept) # {}
      BY <1>5
    <3>. QED
      BY <2>3, <3>1
  <2>5. post = IF AboutBusiness(b) THEN <<Post("yt_p_", b.post)>> ELSE <<>>
    <3>1. made # <<>> <=> \E c \in ToSet(b.comments) : About(b, c)
      BY <1>7, <2>4
    <3>. QED
      BY <1>10, <2>2, <3>1 DEF YouTubePost, AboutBusiness
  <2>6. YouTubeBundle(dom, spec, b) = post \o made
    BY <1>10 DEF YouTubeBundle
  <2>. HIDE DEF made, post
  <2>7. ToSet(post \o made) = ToSet(post) \cup {Made(c) : c \in ToSet(kept)}
    BY <1>7, <1>8, JoinedSeq
  <2>8. ToSet(post) = {Post("yt_p_", x.post) : x \in {x \in {b} : AboutBusiness(x)}}
    BY <2>5, ShortSeqs
  <2>9. /\ \A c \in Comments : Made(c).id = UapId("yt_c_", c.id)
        /\ Post("yt_p_", b.post).id = UapId("yt_p_", b.post)
    BY DEF Post, Record
  <2>10. \A c \in ToSet(kept) : c \in Comments
    BY <1>5, SeqIsSeq
  <2>. HIDE DEF Made
  <2>11. {r.id : r \in ToSet(post)}
           = {UapId("yt_p_", x.post) : x \in {x \in {b} : AboutBusiness(x)}}
    BY <2>8, <2>9
  <2>12. {r.id : r \in {Made(c) : c \in ToSet(kept)}} = {UapId("yt_c_", c.id) : c \in ToSet(kept)}
    BY <2>9, <2>10
  <2>13. {r.id : r \in ToSet(post \o made)}
           = {r.id : r \in ToSet(post)} \cup {r.id : r \in {Made(c) : c \in ToSet(kept)}}
    BY <2>7
  <2>14. {UapId("yt_c_", c.id) : c \in ToSet(kept)}
           = {UapId("yt_c_", c.id) : c \in {c \in ToSet(b.comments) : About(b, c)}}
    BY <2>3
  <2>. QED
    BY <2>6, <2>11, <2>12, <2>13, <2>14 DEF BusinessIds
<1>11. ASSUME Blank(b.post)
       PROVE  {r.id : r \in ToSet(YouTubeBundle(dom, spec, b))} = {}
  <2>1. ToSet(YouTubeBundle(dom, spec, b)) = {}
    BY <1>11, ShortSeqs DEF YouTubeBundle
  <2>. QED
    BY <2>1
<1>. QED
  BY <1>9, <1>10, <1>11

-----------------------------------------------------------------------------
(***************************************************************************)
(* From values to tasks.                                                   *)
(***************************************************************************)

(* The rows of crawl_targets, and those that createTarget has prepared.    *)
Rows == [type : TargetTypes, values : Seq(Strings), meta : Metas, entered : Seq(Strings)]
Prepared(of) ==
  /\ of \in Rows
  /\ of.values = PrepareTargetValues(of.type, of.entered)
  /\ of.values # <<>>

(* Trimming keeps the places.                                              *)
LEMMA TrimsAll ==
  ASSUME NEW s \in Seq(Strings)
  PROVE  /\ TrimmedAll(s) \in Seq(Strings) /\ DOMAIN TrimmedAll(s) = DOMAIN s
         /\ \A i \in DOMAIN s : TrimmedAll(s)[i] = TrimSpace(s[i])
<1>1. Len(s) \in Nat /\ DOMAIN s = 1..Len(s) /\ \A i \in 1..Len(s) : s[i] \in Strings
  BY LenProperties, ElementOfSeq
<1>2. TrimmedAll(s) \in [1..Len(s) -> Strings]
  BY <1>1, TrimAssumption DEF TrimmedAll
<1>3. TrimmedAll(s) \in Seq(Strings)
  BY <1>1, <1>2, FunIsSeq
<1>. QED
  BY <1>3 DEF TrimmedAll

(* What a user enters, trimmed and without blanks.                         *)
LEMMA EnteredValues ==
  ASSUME NEW of, of.entered \in Seq(Strings)
  PROVE  /\ Entered(of) \in Seq(Strings) /\ IsSeq(Entered(of))
         /\ \A v \in ToSet(Entered(of)) : v # "" /\ TrimSpace(v) = v
<1>. DEFINE t == TrimmedAll(of.entered)
<1>1. /\ t \in Seq(Strings) /\ DOMAIN t = DOMAIN of.entered
      /\ \A i \in DOMAIN of.entered : t[i] = TrimSpace(of.entered[i])
  BY TrimsAll
<1>2. \A i \in DOMAIN of.entered : of.entered[i] \in Strings
  BY LenProperties, ElementOfSeq
<1>3. Entered(of) = NonBlank(t)
  BY DEF Entered
<1>. HIDE DEF t
<1>4. \A i \in DOMAIN t : TrimSpace(t[i]) = t[i]
  BY <1>1, <1>2, TrimAssumption
<1>5. \A v \in ToSet(t) : TrimSpace(v) = v
  BY <1>4 DEF ToSet
<1>6. /\ NonBlank(t) \in Seq(Strings) /\ IsSeq(NonBlank(t))
      /\ ToSet(NonBlank(t)) = {v \in ToSet(t) : v # ""}
  BY <1>1, KeepsNonBlank
<1>. QED
  BY <1>3, <1>5, <1>6

(* The values of a target are what was entered; they are trimmed and not   *)
(* blank, so that trimming them again changes nothing.                     *)
LEMMA PreparedValues ==
  ASSUME NEW of, Prepared(of)
  PROVE  /\ of.values \in Seq(Strings) /\ Len(of.values) \in Nat
         /\ DOMAIN of.values = 1..Len(of.values)
         /\ \A i \in 1..Len(of.values) : of.values[i] # "" /\ TrimSpace(of.values[i]) = of.values[i]
         /\ NonBlank(TrimmedAll(of.values)) = of.values
         /\ of.type = "KEYWORD" => of.values = Distinct(Entered(of))
         /\ of.type # "KEYWORD" => of.values = Entered(of)
<1>1. of.entered \in Seq(Strings) /\ of.values \in Seq(Strings) /\ of.values # <<>>
  BY DEF Prepared, Rows
<1>2. /\ Entered(of) \in Seq(Strings)
      /\ \A v \in ToSet(Entered(of)) : v # "" /\ TrimSpace(v) = v
  BY <1>1, EnteredValues
<1>3. of.values = PrepareTargetValues(of.type, of.entered)
  BY DEF Prepared
<1>4. ASSUME of.type = "KEYWORD" PROVE of.values = Distinct(Entered(of))
  <2>. DEFINE dedupe == of.type = "KEYWORD"
  <2>1. of.values = NormalizeTargetValues(of.entered, dedupe)
    BY <1>3, <1>4, Zenon DEF PrepareTargetValues
  <2>2. of.values = Distinct(Entered(of))
    BY <1>4, <2>1, Zenon DEF NormalizeTargetValues, Entered
  <2>. QED
    BY <2>2
<1>5. ASSUME of.type # "KEYWORD" PROVE of.values = Entered(of)
  <2>. DEFINE dedupe == of.type = "KEYWORD"
  <2>1. of.values = NormalizeTargetValues(of.entered, dedupe)
    BY <1>1, <1>3, <1>5, Zenon DEF PrepareTargetValues
  <2>2. of.values = Entered(of)
    BY <1>5, <2>1, Zenon DEF NormalizeTargetValues, Entered
  <2>. QED
    BY <2>2
<1>6. /\ of.type = "KEYWORD" => of.values = Distinct(Entered(of))
      /\ of.type # "KEYWORD" => of.values = Entered(of)
      /\ ToSet(of.values) = ToSet(Entered(of))
  <2>1. of.type = "KEYWORD" => ToSet(of.values) = ToSet(Entered(of))
    BY <1>2, <1>4, KeepsOneOfEach
  <2>. QED
    BY <1>4, <1>5, <2>1
<1>7. Len(of.values) \in Nat /\ DOMAIN of.values = 1..Len(of.values)
  BY <1>1, LenProperties
<1>8. \A i \in 1..Len(of.values) : of.values[i] # "" /\ TrimSpace(of.values[i]) = of.values[i]
  BY <1>2, <1>6, <1>7 DEF ToSet
<1>9. TrimmedAll(of.values) = of.values
  <2>. DEFINE t == TrimmedAll(of.values)
  <2>1. /\ t \in Seq(Strings) /\ DOMAIN t = DOMAIN of.values
        /\ \A i \in DOMAIN of.values : t[i] = TrimSpace(of.values[i])
    BY <1>1, TrimsAll
  <2>. HIDE DEF t
  <2>2. \A i \in 1..Len(of.values) : t[i] = of.values[i]
    BY <1>7, <1>8, <2>1
  <2>3. Len(t) \in Nat /\ DOMAIN t = 1..Len(t)
    BY <2>1, LenProperties
  <2>4. Len(t) = Len(of.values)
    BY <1>7, <2>1, <2>3
  <2>5. t = of.values
    BY <1>1, <2>1, <2>2, <2>4, SeqEqual
  <2>. QED
    BY <2>5 DEF t
<1>10. NonBlank(of.values) = of.values
  BY <1>1, <1>7, <1>8, KeepsNonBlank
<1>. QED
  BY <1>1, <1>6, <1>7, <1>8, <1>9, <1>10

(* A keyword target has one task for each value.                           *)
LEMMA KeywordTasks ==
  ASSUME NEW of, Prepared(of), of.type = "KEYWORD", NEW p
  PROVE  BuildDispatchSpecs(p, of)
           = [i \in 1..Len(of.values) |-> KeywordSpec(of.values[i])]
<1>1. BuildDispatchSpecs(p, of) = KeywordSpecs(of)
  BY DEF BuildDispatchSpecs
<1>2. NonBlank(TrimmedAll(of.values)) = of.values /\ DOMAIN of.values = 1..Len(of.values)
  BY PreparedValues
<1>. QED
  BY <1>1, <1>2 DEF KeywordSpecs

(* A profile target that is not refused has one task for each value.       *)
LEMMA ProfileTasks ==
  ASSUME NEW of, Prepared(of), of.type = "PROFILE", NEW p, BuildDispatchSpecs(p, of) # <<>>
  PROVE  \/ /\ p = "FACEBOOK"
            /\ BuildDispatchSpecs(p, of) = [i \in 1..Len(of.values) |-> PageSpec(of, i)]
         \/ /\ p = "TIKTOK"
            /\ BuildDispatchSpecs(p, of) = [i \in 1..Len(of.values) |-> ProfileSpec(of, i)]
<1>1. DOMAIN of.values = 1..Len(of.values)
  BY PreparedValues
<1>2. CASE p = "FACEBOOK"
  <2>1. BuildDispatchSpecs(p, of) = FacebookPages(of)
    BY <1>2 DEF BuildDispatchSpecs
  <2>. QED
    BY <1>1, <1>2, <2>1 DEF FacebookPages
<1>3. CASE p = "TIKTOK"
  <2>1. BuildDispatchSpecs(p, of) = TikTokProfiles(of)
    BY <1>3 DEF BuildDispatchSpecs
  <2>. QED
    BY <1>1, <1>3, <2>1 DEF TikTokProfiles
<1>4. CASE p \notin {"FACEBOOK", "TIKTOK"}
  BY <1>4 DEF BuildDispatchSpecs
<1>. QED
  BY <1>2, <1>3, <1>4

(* What a profile's task says.                                             *)
LEMMA ProfileFields ==
  ASSUME NEW of, NEW i
  PROVE  /\ ProfileSpec(of, i).action = "user_full_flow"
         /\ ProfileSpec(of, i).params
              = IF SecUID(of, i) # ""
                THEN [sec_uid |-> SecUID(of, i), profile_url |-> TrimSpace(of.values[i])]
                ELSE [username |-> Username(of, i), profile_url |-> TrimSpace(of.values[i])]
<1>. DEFINE params == IF SecUID(of, i) # ""
                      THEN [sec_uid |-> SecUID(of, i), profile_url |-> TrimSpace(of.values[i])]
                      ELSE [username |-> Username(of, i), profile_url |-> TrimSpace(of.values[i])]
<1>1. ProfileSpec(of, i) = [action |-> "user_full_flow", params |-> params]
  BY DEF ProfileSpec
<1>. HIDE DEF params
<1>2. /\ ProfileSpec(of, i).action = "user_full_flow"
      /\ ProfileSpec(of, i).params = params
  BY <1>1
<1>. QED
  BY <1>2 DEF params

(* What attribution takes from the task of a parsed artefact.              *)
LEMMA TaskSays ==
  ASSUME NEW of, Prepared(of), NEW p, NEW i \in DOMAIN BuildDispatchSpecs(p, of),
         NEW t, t = BuildDispatchSpecs(p, of)[i]
  PROVE  /\ SupportsParse(p, t.action) =>
              \/ /\ SourceKind(t) = "keyword_search" /\ CrawlKeyword(t) = t.params.keyword
                 /\ t.params.keyword \in ToSet(Entered(of))
              \/ /\ SourceKind(t) # "keyword_search" /\ Attribution(t) = t.params
                 /\ t.params.profile_url \in ToSet(Entered(of))
         /\ CrawlKeyword(t) \in Strings
<1>. DEFINE n == Len(of.values)
<1>1. /\ n \in Nat /\ DOMAIN of.values = 1..n /\ of.type \in TargetTypes
      /\ \A k \in 1..n : TrimSpace(of.values[k]) = of.values[k] /\ of.values[k] \in Strings
  BY PreparedValues, ElementOfSeq DEF Prepared, Rows
<1>2. \A k \in 1..n : of.values[k] \in ToSet(Entered(of))
  <2>1. of.entered \in Seq(Strings)
    BY DEF Prepared, Rows
  <2>2. Entered(of) \in Seq(Strings)
    BY <2>1, EnteredValues
  <2>3. ToSet(of.values) = ToSet(Entered(of))
    BY <2>2, PreparedValues, KeepsOneOfEach
  <2>. QED
    BY <1>1, <2>3 DEF ToSet
<1>. HIDE DEF n
<1>3. CASE of.type = "KEYWORD"
  <2>1. i \in 1..n /\ t = KeywordSpec(of.values[i])
    BY <1>3, KeywordTasks DEF n
  <2>2. /\ t.action = "full_flow" /\ DOMAIN t.params = {"keyword"}
        /\ t.params.keyword = of.values[i]
    BY <2>1 DEF KeywordSpec
  <2>3. SourceKind(t) = "keyword_search" /\ CrawlKeyword(t) = of.values[i]
    BY <2>2 DEF SourceKind, CrawlKeyword
  <2>. QED
    BY <1>1, <1>2, <2>1, <2>2, <2>3
<1>4. CASE of.type = "PROFILE"
  <2>1. BuildDispatchSpecs(p, of) # <<>>
    OBVIOUS
  <2>2. i \in 1..n /\ (t = PageSpec(of, i) \/ t = ProfileSpec(of, i))
    BY <1>4, <2>1, ProfileTasks DEF n
  <2>3. /\ t.action \in {"page_full_flow", "user_full_flow"}
        /\ DOMAIN t.params \subseteq AttributionKeys \ {"keyword"}
        /\ t.params = [k \in DOMAIN t.params |-> t.params[k]]
        /\ t.params.profile_url = TrimSpace(of.values[i])
    <3>. DEFINE url == TrimSpace(of.values[i])
    <3>1. CASE t = PageSpec(of, i)
      <4>. DEFINE page == FacebookPageID(of, i)
      <4>1. /\ t.action = "page_full_flow"
            /\ t.params = [page_id |-> page, profile_url |-> url]
        BY <3>1 DEF PageSpec
      <4>. HIDE DEF page, url
      <4>2. DOMAIN t.params = {"page_id", "profile_url"} /\ t.params.profile_url = url
        BY <4>1
      <4>3. t.params = [k \in DOMAIN t.params |-> t.params[k]]
        BY <4>1
      <4>. QED
        BY <4>1, <4>2, <4>3 DEF url, AttributionKeys
    <3>2. CASE t = ProfileSpec(of, i)
      <4>. DEFINE uid == SecUID(of, i)
                  name == Username(of, i)
      <4>1. /\ t.action = "user_full_flow"
            /\ \/ t.params = [sec_uid |-> uid, profile_url |-> url]
               \/ t.params = [username |-> name, profile_url |-> url]
        BY <3>2, ProfileFields
      <4>. HIDE DEF uid, name, url
      <4>2. CASE t.params = [sec_uid |-> uid, profile_url |-> url]
        <5>1. DOMAIN t.params = {"sec_uid", "profile_url"} /\ t.params.profile_url = url
          BY <4>2
        <5>2. t.params = [k \in DOMAIN t.params |-> t.params[k]]
          BY <4>2
        <5>. QED
          BY <4>1, <5>1, <5>2 DEF url, AttributionKeys
      <4>3. CASE t.params = [username |-> name, profile_url |-> url]
        <5>1. DOMAIN t.params = {"username", "profile_url"} /\ t.params.profile_url = url
          BY <4>3
        <5>2. t.params = [k \in DOMAIN t.params |-> t.params[k]]
          BY <4>3
        <5>. QED
          BY <4>1, <5>1, <5>2 DEF url, AttributionKeys
      <4>. QED
        BY <4>1, <4>2, <4>3
    <3>. QED
      BY <2>2, <3>1, <3>2
  <2>4. SourceKind(t) # "keyword_search" /\ CrawlKeyword(t) = "" /\ Attribution(t) = t.params
    BY <2>3 DEF SourceKind, CrawlKeyword, Attribution
  <2>. QED
    BY <1>1, <1>2, <2>2, <2>3, <2>4, TrimAssumption
<1>5. CASE of.type = "POST_URL"
  <2>1. BuildDispatchSpecs(p, of) = PostDetails(ParseIDs(of.meta))
    <3>1. CASE p = "FACEBOOK"
      BY <1>5, <3>1 DEF BuildDispatchSpecs
    <3>2. CASE p # "FACEBOOK"
      <4>1. BuildDispatchSpecs(p, of) = <<>>
        BY <1>5, <3>2 DEF BuildDispatchSpecs
      <4>. QED
        BY <4>1
    <3>. QED
      BY <3>1, <3>2
  <2>2. t = PostDetailSpec(ParseIDs(of.meta))
    BY <2>1 DEF PostDetails
  <2>3. t.action = "post_detail" /\ DOMAIN t.params = {"parse_ids"}
    BY <2>2 DEF PostDetailSpec
  <2>. QED
    BY <2>3, TrimAssumption DEF SupportsParse, CrawlKeyword
<1>. QED
  BY <1>1, <1>3, <1>4, <1>5 DEF TargetTypes

(* An id that platform_meta gives at the place of a value goes with it, if *)
(* no entry before it is blank.                                            *)
LEMMA EntryInPlace ==
  ASSUME NEW ids \in Seq(Strings \cup {NotAString}), WithoutGaps(ids), NEW i \in DOMAIN ids
  PROVE  /\ Entry(StringSliceMeta(ids), i) = TrimSpace(ids[i])
         /\ TrimSpace(ids[i]) # ""
<1>. DEFINE n == Len(ids)
            S == {StringMeta(ids[k]) : k \in 1..n}
            s == [k \in DOMAIN ids |-> StringMeta(ids[k])]
<1>1. n \in Nat /\ DOMAIN ids = 1..n
  BY LenProperties
<1>2. s \in [1..n -> S]
  BY <1>1
<1>3. s \in Seq(S) /\ DOMAIN s = 1..n
  <2>. HIDE DEF s, S, n
  <2>. QED
    BY <1>1, <1>2, FunIsSeq
<1>4. \A k \in 1..n : StringMeta(ids[k]) # ""
  BY <1>1 DEF WithoutGaps, ToSet
<1>5. \A k \in DOMAIN s : s[k] = StringMeta(ids[k]) /\ s[k] # ""
  BY <1>1, <1>4
<1>6. StringSliceMeta(ids) = NonBlank(s)
  BY DEF StringSliceMeta
<1>. HIDE DEF s, S
<1>7. NonBlank(s) = s
  BY <1>3, <1>5, KeepsNonBlank
<1>8. Entry(StringSliceMeta(ids), i) = StringMeta(ids[i])
  BY <1>1, <1>3, <1>5, <1>6, <1>7 DEF Entry
<1>9. StringMeta(ids[i]) = TrimSpace(ids[i]) /\ TrimSpace(ids[i]) # ""
  BY <1>1, <1>4 DEF StringMeta
<1>. QED
  BY <1>8, <1>9

(* The tuples FirstNonEmpty is used on.                                    *)
LEMMA ShortTuples ==
  ASSUME NEW S, NEW a \in S, NEW b \in S, NEW c \in S
  PROVE  /\ <<a, b>> \in Seq(S) /\ <<a, b>> # <<>> /\ <<a, b>>[1] = a
         /\ <<a, b, c>> \in Seq(S) /\ <<a, b, c>> # <<>> /\ <<a, b, c>>[1] = a
OBVIOUS

(* The id at the value's own place comes before the ones for all values.   *)
LEMMA FirstOfThree ==
  ASSUME NEW a, a # "", NEW b, NEW c
  PROVE  FirstNonEmpty(<<a, b, c>>) = a /\ FirstNonEmpty(<<a, b>>) = a
<1>. DEFINE S == {a, b, c}
<1>1. a \in S /\ b \in S /\ c \in S
  OBVIOUS
<1>. HIDE DEF S
<1>. DEFINE pair == <<a, b>>
            triple == <<a, b, c>>
<1>2. /\ pair \in Seq(S) /\ pair # <<>> /\ pair[1] = a
      /\ triple \in Seq(S) /\ triple # <<>> /\ triple[1] = a
  BY <1>1, ShortTuples, Zenon
<1>. HIDE DEF pair, triple
<1>3. FirstNonEmpty(pair) = a /\ FirstNonEmpty(triple) = a
  BY <1>2, FirstComesFirst
<1>. QED
  BY <1>3 DEF pair, triple

(* EveryValueHasItsTask, for the tasks of any target.                      *)
LEMMA TasksOfValues ==
  ASSUME NEW of, Prepared(of), platform \in Platforms,
         job # None, job.of = of, job.tasks = BuildDispatchSpecs(platform, of)
  PROVE  EveryValueHasItsTask
<1>. DEFINE n == Len(of.values)
            tasks == BuildDispatchSpecs(platform, of)
<1>1. /\ n \in Nat /\ DOMAIN of.values = 1..n /\ of.values \in Seq(Strings)
      /\ \A k \in 1..n : TrimSpace(of.values[k]) = of.values[k]
  BY PreparedValues
<1>2. Entered(of) \in Seq(Strings) /\ of.meta \in Metas
  BY EnteredValues DEF Prepared, Rows
<1>3. ASSUME of.type = "KEYWORD"
      PROVE  /\ {spec.params.keyword : spec \in ToSet(tasks)} = ToSet(Entered(of))
             /\ Len(tasks) = Cardinality(ToSet(Entered(of)))
  <2>. DEFINE T == {KeywordSpec(of.values[i]) : i \in 1..n}
  <2>1. tasks = [i \in 1..n |-> KeywordSpec(of.values[i])]
    BY <1>3, KeywordTasks
  <2>. HIDE DEF tasks, n
  <2>2. tasks \in [1..n -> T]
    BY <2>1
  <2>3. Len(tasks) = n /\ DOMAIN tasks = 1..n
    <3>. HIDE DEF T
    <3>. QED
      BY <1>1, <2>2, FunIsSeq
  <2>4. of.values = Distinct(Entered(of))
    BY <1>3, PreparedValues
  <2>5. ToSet(of.values) = ToSet(Entered(of)) /\ n = Cardinality(ToSet(Entered(of)))
    BY <1>2, <2>4, KeepsOneOfEach DEF n
  <2>6. \A i \in 1..n : tasks[i].params.keyword = of.values[i]
    BY <2>1 DEF KeywordSpec
  <2>7. {spec.params.keyword : spec \in ToSet(tasks)} = {tasks[i].params.keyword : i \in 1..n}
    BY <2>3 DEF ToSet
  <2>8. {tasks[i].params.keyword : i \in 1..n} = ToSet(of.values)
    BY <1>1, <2>6 DEF ToSet
  <2>. QED
    BY <2>3, <2>5, <2>7, <2>8
<1>4. ASSUME of.type = "PROFILE", tasks # <<>>
      PROVE  /\ [i \in DOMAIN tasks |-> tasks[i].params.profile_url] = Entered(of)
             /\ platform = "FACEBOOK" /\ WithoutGaps(of.meta.page_ids) =>
                  \A i \in DOMAIN tasks \cap DOMAIN of.meta.page_ids :
                    tasks[i].params.page_id = TrimSpace(of.meta.page_ids[i])
             /\ platform = "TIKTOK" /\ WithoutGaps(of.meta.sec_uids) =>
                  \A i \in DOMAIN tasks \cap DOMAIN of.meta.sec_uids :
                    tasks[i].params.sec_uid = TrimSpace(of.meta.sec_uids[i])
  <2>1. \/ platform = "FACEBOOK" /\ tasks = [i \in 1..n |-> PageSpec(of, i)]
        \/ platform = "TIKTOK" /\ tasks = [i \in 1..n |-> ProfileSpec(of, i)]
    BY <1>4, ProfileTasks
  <2>. HIDE DEF tasks, n
  <2>2. DOMAIN tasks = 1..n
    BY <2>1
  <2>3. \A i \in 1..n : PageSpec(of, i).params.profile_url = TrimSpace(of.values[i])
    BY DEF PageSpec
  <2>4. \A i \in 1..n : ProfileSpec(of, i).params.profile_url = TrimSpace(of.values[i])
    BY DEF ProfileSpec
  <2>5. \A i \in 1..n : tasks[i].params.profile_url = of.values[i]
    BY <1>1, <2>1, <2>3, <2>4
  <2>6. of.values = Entered(of)
    BY <1>4, PreparedValues
  <2>7. [i \in DOMAIN tasks |-> tasks[i].params.profile_url] = Entered(of)
    <3>1. of.values = [i \in 1..n |-> of.values[i]]
      BY <1>1
    <3>. QED
      BY <2>2, <2>5, <2>6, <3>1
  <2>8. ASSUME platform = "FACEBOOK", WithoutGaps(of.meta.page_ids),
               NEW i \in DOMAIN tasks \cap DOMAIN of.meta.page_ids
        PROVE  tasks[i].params.page_id = TrimSpace(of.meta.page_ids[i])
    <3>1. of.meta.page_ids \in Seq(Strings \cup {NotAString})
      BY <1>2 DEF Metas
    <3>2. FacebookPageID(of, i) = TrimSpace(of.meta.page_ids[i])
      <4>. DEFINE a == Entry(StringSliceMeta(of.meta.page_ids), i)
                  b == StringMeta(of.meta.page_id)
                  c == PageIdInUrl(of.values[i])
      <4>1. a = TrimSpace(of.meta.page_ids[i]) /\ a # ""
        BY <2>8, <3>1, EntryInPlace
      <4>2. FacebookPageID(of, i) = FirstNonEmpty(<<a, b, c>>)
        BY DEF FacebookPageID
      <4>. HIDE DEF a, b, c
      <4>. QED
        BY <4>1, <4>2, FirstOfThree
    <3>3. tasks[i] = PageSpec(of, i)
      BY <2>1, <2>2, <2>8
    <3>. QED
      BY <3>2, <3>3 DEF PageSpec
  <2>9. ASSUME platform = "TIKTOK", WithoutGaps(of.meta.sec_uids),
               NEW i \in DOMAIN tasks \cap DOMAIN of.meta.sec_uids
        PROVE  tasks[i].params.sec_uid = TrimSpace(of.meta.sec_uids[i])
    <3>1. of.meta.sec_uids \in Seq(Strings \cup {NotAString})
      BY <1>2 DEF Metas
    <3>2. SecUID(of, i) = TrimSpace(of.meta.sec_uids[i]) /\ SecUID(of, i) # ""
      <4>. DEFINE a == Entry(StringSliceMeta(of.meta.sec_uids), i)
                  b == StringMeta(of.meta.sec_uid)
      <4>1. a = TrimSpace(of.meta.sec_uids[i]) /\ a # ""
        BY <2>9, <3>1, EntryInPlace
      <4>2. SecUID(of, i) = FirstNonEmpty(<<a, b>>)
        BY DEF SecUID
      <4>. HIDE DEF a, b
      <4>. QED
        BY <4>1, <4>2, FirstOfThree
    <3>3. tasks[i] = ProfileSpec(of, i)
      BY <2>1, <2>2, <2>9
    <3>. DEFINE uid == SecUID(of, i)
                name == Username(of, i)
                url == TrimSpace(of.values[i])
    <3>4. tasks[i].params = IF uid # "" THEN [sec_uid |-> uid, profile_url |-> url]
                            ELSE [username |-> name, profile_url |-> url]
      <4>1. ProfileSpec(of, i).params
              = IF uid # "" THEN [sec_uid |-> uid, profile_url |-> url]
                ELSE [username |-> name, profile_url |-> url]
        BY ProfileFields, Zenon
      <4>. HIDE DEF uid, name, url
      <4>. QED
        BY <3>3, <4>1, Zenon
    <3>. HIDE DEF uid, name, url
    <3>5. uid # ""
      BY <3>2 DEF uid
    <3>6. tasks[i].params = [sec_uid |-> uid, profile_url |-> url]
      BY <3>4, <3>5, Zenon
    <3>7. [sec_uid |-> uid, profile_url |-> url].sec_uid = uid
      OBVIOUS
    <3>. QED
      BY <3>2, <3>6, <3>7, Zenon DEF uid
  <2>. QED
    BY <2>7, <2>8, <2>9
<1>. HIDE DEF tasks
<1>. QED
  BY <1>3, <1>4 DEF EveryValueHasItsTask, tasks

-----------------------------------------------------------------------------
(***************************************************************************)
(* The inductive invariant: what a dry run and a job hold was made from    *)
(* the target they saw; the batch answers one of the job's tasks; every    *)
(* record is attributed to that task; and the records are those of the     *)
(* bundles parsed so far (BusinessIsPublished).                            *)
(***************************************************************************)
RowIsPrepared == target # None => Prepared(target)

SpecsAreMade ==
  /\ sampled # None =>
       Prepared(sampled.of) /\ sampled.specs = DryrunSpec(platform, sampled.of)
  /\ job # None =>
       Prepared(job.of) /\ job.tasks = BuildDispatchSpecs(platform, job.of)

BatchAnswersTask ==
  /\ batch = None => parsed = 0 /\ records = <<>>
  /\ batch # None =>
       /\ job # None /\ batch.task \in DOMAIN job.tasks /\ batch.asked = job.tasks[batch.task]
       /\ batch.artefact \in Seq(Bundles) /\ parsed \in 0..Len(batch.artefact)

RecordsAreAttributed ==
  /\ IsSeq(records)
  /\ \A r \in ToSet(records) :
       /\ batch # None /\ SupportsParse(platform, batch.asked.action)
       /\ r.keyword = CrawlKeyword(batch.asked) /\ r.source_kind = SourceKind(batch.asked)
       /\ r.smap = Attribution(batch.asked)

CInv ==
  /\ platform \in Platforms
  /\ RowIsPrepared /\ SpecsAreMade /\ BatchAnswersTask /\ RecordsAreAttributed
  /\ BusinessIsPublished

-----------------------------------------------------------------------------
(***************************************************************************)
(* What the invariant implies.                                             *)
(***************************************************************************)

(* The two mappings from a target to tasks agree.                          *)
LEMMA DryrunPredicts == SpecsAreMade => DryrunPredictsDispatch
<1>. SUFFICES ASSUME SpecsAreMade, sampled # None, job # None, sampled.of = job.of
              PROVE  /\ sampled.specs # <<>> =>
                          job.tasks # <<>> /\ job.tasks[1] = sampled.specs[1]
                     /\ job.of.type # "PROFILE" => (sampled.specs = <<>>) = (job.tasks = <<>>)
  BY DEF DryrunPredictsDispatch
<1>. DEFINE of == job.of
            specs == DryrunSpec(platform, of)
            tasks == BuildDispatchSpecs(platform, of)
<1>1. Prepared(of) /\ sampled.specs = specs /\ job.tasks = tasks
  BY DEF SpecsAreMade
<1>. HIDE DEF of
<1>2. of.type \in TargetTypes /\ of.values # <<>>
  BY <1>1 DEF Prepared, Rows
<1>3. CASE of.type = "KEYWORD"
  <2>1. DryrunKeywords(of) = of.values
    BY <1>1, PreparedValues DEF DryrunKeywords
  <2>2. specs = <<KeywordSpec(of.values[1])>>
    BY <1>2, <1>3, <2>1 DEF DryrunSpec
  <2>3. tasks = [i \in 1..Len(of.values) |-> KeywordSpec(of.values[i])]
    BY <1>1, <1>3, KeywordTasks
  <2>4. 1 \in 1..Len(of.values)
    <3>1. Len(of.values) \in Nat /\ Len(of.values) # 0
      BY <1>1, <1>2, PreparedValues, EmptySeq
    <3>. QED
      BY <3>1, OneIsFirst
  <2>. HIDE DEF specs, tasks
  <2>5. tasks[1] = KeywordSpec(of.values[1]) /\ DOMAIN tasks = 1..Len(of.values)
    BY <2>3, <2>4
  <2>6. tasks # <<>>
    BY <2>4, <2>5
  <2>7. specs[1] = KeywordSpec(of.values[1]) /\ specs # <<>>
    BY <2>2
  <2>. QED
    BY <1>1, <2>5, <2>6, <2>7
<1>4. CASE of.type = "POST_URL"
  <2>1. specs = tasks
    <3>1. CASE platform = "FACEBOOK"
      BY <1>4, <3>1 DEF DryrunSpec, BuildDispatchSpecs, DryrunParseIDs, ParseIDs
    <3>2. CASE platform # "FACEBOOK"
      BY <1>4, <3>2 DEF DryrunSpec, BuildDispatchSpecs
    <3>. QED
      BY <3>1, <3>2
  <2>. QED
    BY <1>1, <2>1
<1>5. CASE of.type = "PROFILE"
  <2>1. specs = <<>>
    BY <1>5 DEF DryrunSpec
  <2>. QED
    BY <1>1, <1>5, <2>1 DEF of
<1>. QED
  BY <1>2, <1>3, <1>4, <1>5 DEF TargetTypes

(* The tasks of the job are those of a prepared target.                    *)
LEMMA ValuesHaveTasks == CInv => EveryValueHasItsTask
<1>. SUFFICES ASSUME CInv, job # None PROVE EveryValueHasItsTask
  BY DEF EveryValueHasItsTask
<1>1. /\ platform \in Platforms /\ Prepared(job.of)
      /\ job.tasks = BuildDispatchSpecs(platform, job.of)
  BY DEF CInv, SpecsAreMade
<1>. QED
  BY <1>1, TasksOfValues

(* The task of the batch says what its records say.                        *)
LEMMA RecordsTrace == CInv => RecordsTraceToTask
<1>. SUFFICES ASSUME CInv, NEW r \in ToSet(records)
              PROVE  /\ r.source_kind = "keyword_search" =>
                          /\ r.keyword = batch.asked.params.keyword
                          /\ r.keyword \in ToSet(Entered(job.of))
                     /\ r.source_kind # "keyword_search" =>
                          /\ r.smap = batch.asked.params
                          /\ r.smap.profile_url \in ToSet(Entered(job.of))
  BY DEF RecordsTraceToTask
<1>1. /\ batch # None /\ SupportsParse(platform, batch.asked.action)
      /\ r.keyword = CrawlKeyword(batch.asked) /\ r.source_kind = SourceKind(batch.asked)
      /\ r.smap = Attribution(batch.asked)
  BY DEF CInv, RecordsAreAttributed
<1>2. job # None /\ batch.task \in DOMAIN job.tasks /\ batch.asked = job.tasks[batch.task]
  BY <1>1 DEF CInv, BatchAnswersTask
<1>3. Prepared(job.of) /\ job.tasks = BuildDispatchSpecs(platform, job.of)
  BY <1>2 DEF CInv, SpecsAreMade
<1>. DEFINE t == batch.asked
            of == job.of
<1>4. \/ /\ SourceKind(t) = "keyword_search" /\ CrawlKeyword(t) = t.params.keyword
         /\ t.params.keyword \in ToSet(Entered(of))
      \/ /\ SourceKind(t) # "keyword_search" /\ Attribution(t) = t.params
         /\ t.params.profile_url \in ToSet(Entered(of))
  BY <1>1, <1>2, <1>3, TaskSays
<1>. HIDE DEF t, of
<1>5. r.keyword = CrawlKeyword(t) /\ r.source_kind = SourceKind(t) /\ r.smap = Attribution(t)
  BY <1>1 DEF t
<1>. QED
  BY <1>4, <1>5 DEF t, of

-----------------------------------------------------------------------------
(***************************************************************************)
(* The steps.                                                              *)
(***************************************************************************)

(* PrepareTargetValues keeps strings.                                      *)
LEMMA PreparedAreStrings ==
  ASSUME NEW type, NEW values \in Seq(Strings)
  PROVE  PrepareTargetValues(type, values) \in Seq(Strings)
<1>. DEFINE t == NonBlank(TrimmedAll(values))
            n == NormalizeTargetValues(values, type = "KEYWORD")
<1>1. t \in Seq(Strings)
  BY TrimsAll, KeepsNonBlank
<1>2. n = Distinct(t) \/ n = t
  <2>1. CASE type = "KEYWORD"
    BY <2>1 DEF NormalizeTargetValues
  <2>2. CASE type # "KEYWORD"
    BY <2>2 DEF NormalizeTargetValues
  <2>. QED
    BY <2>1, <2>2
<1>. HIDE DEF t
<1>3. Distinct(t) \in Seq(Strings)
  BY <1>1, KeepsOneOfEach
<1>4. PrepareTargetValues(type, values) \in {<<>>, n}
  BY DEF PrepareTargetValues
<1>5. <<>> \in Seq(Strings)
  OBVIOUS
<1>. HIDE DEF n
<1>. QED
  BY <1>1, <1>2, <1>3, <1>4, <1>5

(* Nothing is prepared, asked or published at first.                       *)
LEMMA CInvInit == Init => CInv
<1>. SUFFICES ASSUME Init PROVE CInv
  OBVIOUS
<1>1. RowIsPrepared /\ SpecsAreMade /\ BatchAnswersTask /\ BusinessIsPublished
  BY DEF Init, RowIsPrepared, SpecsAreMade, BatchAnswersTask, BusinessIsPublished
<1>2. RecordsAreAttributed
  BY ShortSeqs DEF Init, RecordsAreAttributed
<1>. QED
  BY <1>1, <1>2 DEF Init, CInv

(* What is about the business depends on the batch alone.                  *)
LEMMA SameIds ==
  ASSUME NEW b, batch' = batch
  PROVE  BusinessIds(b)' = BusinessIds(b)
<1>1. \A x, c : About(x, c)' <=> About(x, c)
  BY DEF About
<1>2. \A x : AboutBusiness(x)' <=> AboutBusiness(x)
  BY <1>1 DEF AboutBusiness
<1>. QED
  BY <1>1, <1>2 DEF BusinessIds

(* What the batch says and what was published stays as it is.              *)
LEMMA BatchKept ==
  ASSUME CInv, UNCHANGED <<platform, domain, batch, parsed, records>>
  PROVE  platform' \in Platforms /\ RecordsAreAttributed' /\ BusinessIsPublished'
<1>1. \A b : BusinessIds(b)' = BusinessIds(b)
  BY SameIds
<1>2. BusinessIsPublished'
  BY <1>1 DEF CInv, BusinessIsPublished
<1>. QED
  BY <1>2 DEF CInv, RecordsAreAttributed

(* createTarget: the new row is prepared.                                  *)
LEMMA CreateKeeps ==
  ASSUME CInv, NEW input \in Inputs, CreateTarget(input)
  PROVE  CInv'
<1>. DEFINE values == PrepareTargetValues(input.type, input.values)
<1>1. input.type \in TargetTypes /\ input.values \in Seq(Strings) /\ input.meta \in Metas
  BY InputsAssumption
<1>2. values \in Seq(Strings)
  BY <1>1, PreparedAreStrings
<1>3. /\ values # <<>>
      /\ target' = [type |-> input.type, values |-> values, meta |-> input.meta,
                    entered |-> input.values]
      /\ UNCHANGED <<platform, domain, edits, sampled, job, batch, parsed, records>>
  BY DEF CreateTarget
<1>4. RowIsPrepared'
  <2>. HIDE DEF values
  <2>1. target' \in Rows /\ target'.type = input.type /\ target'.entered = input.values
        /\ target'.values = values
    BY <1>1, <1>2, <1>3 DEF Rows
  <2>. QED
    BY <1>3, <2>1 DEF RowIsPrepared, Prepared, values
<1>5. SpecsAreMade' /\ BatchAnswersTask'
  BY <1>3 DEF CInv, SpecsAreMade, BatchAnswersTask
<1>. QED
  BY <1>3, <1>4, <1>5, BatchKept DEF CInv

(* UpdateTarget: platform_meta changes; no dry run, job or record does.    *)
LEMMA UpdateKeeps ==
  ASSUME CInv, NEW meta \in EditedMetas, UpdateTarget(meta)
  PROVE  CInv'
<1>1. meta \in Metas
  BY InputsAssumption
<1>2. /\ target # None /\ target' = [target EXCEPT !.meta = meta]
      /\ UNCHANGED <<platform, domain, sampled, job, batch, parsed, records>>
  BY DEF UpdateTarget
<1>3. Prepared(target)
  BY <1>2 DEF CInv, RowIsPrepared
<1>4. target \in Rows
  BY <1>3 DEF Prepared
<1>5. target' \in Rows /\ target'.type = target.type /\ target'.entered = target.entered
      /\ target'.values = target.values
  BY <1>1, <1>2, <1>4 DEF Rows
<1>6. RowIsPrepared'
  BY <1>3, <1>5 DEF RowIsPrepared, Prepared
<1>7. SpecsAreMade' /\ BatchAnswersTask'
  BY <1>2 DEF CInv, SpecsAreMade, BatchAnswersTask
<1>. QED
  BY <1>2, <1>6, <1>7, BatchKept DEF CInv

(* Trigger: the dry run asks what the mapping says of the row.             *)
LEMMA TriggerKeeps == CInv /\ Trigger => CInv'
<1>. SUFFICES ASSUME CInv, Trigger PROVE CInv'
  OBVIOUS
<1>1. /\ target # None
      /\ sampled' = [of |-> target, specs |-> DryrunSpec(platform, target)]
      /\ UNCHANGED <<platform, domain, target, edits, job, batch, parsed, records>>
  BY DEF Trigger
<1>2. sampled'.of = target /\ sampled'.specs = DryrunSpec(platform, target)
  BY <1>1
<1>3. Prepared(target)
  BY <1>1 DEF CInv, RowIsPrepared
<1>4. RowIsPrepared' /\ BatchAnswersTask'
  BY <1>1 DEF CInv, RowIsPrepared, BatchAnswersTask
<1>5. SpecsAreMade'
  BY <1>1, <1>2, <1>3 DEF CInv, SpecsAreMade
<1>. QED
  BY <1>1, <1>4, <1>5, BatchKept DEF CInv

(* dispatchPrepared: so does the job, and nothing was answered before it.  *)
LEMMA DispatchKeeps == CInv /\ DispatchTarget => CInv'
<1>. SUFFICES ASSUME CInv, DispatchTarget PROVE CInv'
  OBVIOUS
<1>1. /\ target # None /\ job = None
      /\ job' = [of |-> target, tasks |-> BuildDispatchSpecs(platform, target)]
      /\ UNCHANGED <<platform, domain, target, edits, sampled, batch, parsed, records>>
  BY DEF DispatchTarget
<1>2. job'.of = target /\ job'.tasks = BuildDispatchSpecs(platform, target)
  BY <1>1
<1>3. Prepared(target) /\ batch = None
  BY <1>1 DEF CInv, RowIsPrepared, BatchAnswersTask
<1>4. RowIsPrepared' /\ BatchAnswersTask'
  BY <1>1, <1>3 DEF CInv, RowIsPrepared, BatchAnswersTask
<1>5. SpecsAreMade'
  BY <1>1, <1>2, <1>3 DEF CInv, SpecsAreMade
<1>. QED
  BY <1>1, <1>4, <1>5, BatchKept DEF CInv

(* A crawler answers: nothing of the answer is parsed yet.                 *)
LEMMA AnswerKeeps == CInv /\ CrawlerAnswers => CInv'
<1>. SUFFICES ASSUME CInv, CrawlerAnswers PROVE CInv'
  OBVIOUS
<1>1. PICK i \in DOMAIN job.tasks : \E a \in Artefacts(platform, job.of, job.tasks[i]) :
         /\ a \in Seq(Bundles)
         /\ batch' = [task |-> i, asked |-> job.tasks[i], artefact |-> a]
  BY DEF CrawlerAnswers
<1>2. PICK a : /\ a \in Seq(Bundles)
               /\ batch' = [task |-> i, asked |-> job.tasks[i], artefact |-> a]
  BY <1>1
<1>3. /\ job # None /\ batch = None
      /\ UNCHANGED <<platform, domain, target, edits, sampled, job, parsed, records>>
  BY DEF CrawlerAnswers
<1>4. batch'.task = i /\ batch'.asked = job.tasks[i] /\ batch'.artefact = a
  BY <1>2
<1>5. parsed = 0 /\ records = <<>>
  BY <1>3 DEF CInv, BatchAnswersTask
<1>6. Len(a) \in Nat /\ 0 \in 0..Len(a)
  BY <1>2, LenProperties
<1>7. BatchAnswersTask'
  BY <1>1, <1>2, <1>3, <1>4, <1>5, <1>6 DEF BatchAnswersTask
<1>8. RecordsAreAttributed'
  BY <1>3, <1>5, ShortSeqs DEF RecordsAreAttributed
<1>9. BusinessIsPublished'
  <2>1. SubSeq(a, 1, 0) = <<>>
    BY <1>2, SubSeqProperties
  <2>2. ToSet(SubSeq(a, 1, 0)) = {} /\ ToSet(<<>>) = {}
    BY <2>1, ShortSeqs
  <2>5. /\ ToSet(SubSeq(batch'.artefact, 1, parsed')) = {}
        /\ ToSet(records') = {}
    BY <1>3, <1>4, <1>5, <2>2
  <2>. QED
    BY <2>5 DEF BusinessIsPublished
<1>10. RowIsPrepared' /\ SpecsAreMade' /\ platform' \in Platforms
  BY <1>3 DEF CInv, RowIsPrepared, SpecsAreMade
<1>. QED
  BY <1>7, <1>8, <1>9, <1>10 DEF CInv

-----------------------------------------------------------------------------
(* Parsing one more bundle adds it to those that are parsed.               *)
LEMMA OneMoreParsed ==
  ASSUME NEW S, NEW a \in Seq(S), NEW k \in Nat, k < Len(a)
  PROVE  /\ a[k + 1] \in S
         /\ ToSet(SubSeq(a, 1, k + 1)) = ToSet(SubSeq(a, 1, k)) \cup {a[k + 1]}
<1>1. Len(a) \in Nat /\ \A i \in 1..Len(a) : a[i] \in S
  BY LenProperties, ElementOfSeq
<1>2. \A m \in 0..Len(a) : ToSet(SubSeq(a, 1, m)) = {a[i] : i \in 1..m}
  <2>. SUFFICES ASSUME NEW m \in 0..Len(a) PROVE ToSet(SubSeq(a, 1, m)) = {a[i] : i \in 1..m}
    OBVIOUS
  <2>1. SubSeq(a, 1, m) = [i \in 1..m |-> a[i]]
    BY <1>1, SMT
  <2>. QED
    BY <2>1 DEF ToSet
<1>3. k \in 0..Len(a) /\ k + 1 \in 0..Len(a) /\ k + 1 \in 1..Len(a) /\ 1..(k + 1) = 1..k \cup {k + 1}
  BY <1>1
<1>. QED
  BY <1>1, <1>2, <1>3

(* Each of the parsers makes a sequence of records.                        *)
LEMMA BundleSeq ==
  ASSUME NEW p \in Platforms, NEW dom, NEW spec, NEW b \in Bundles,
         KeywordSays(CrawlKeyword(spec)) \subseteq Signals
  PROVE  IsSeq(BundleRecords(p, dom, spec, b))
<1>1. p = "TIKTOK" => IsSeq(BundleRecords(p, dom, spec, b))
  BY TikTokSeq DEF BundleRecords
<1>2. p = "FACEBOOK" => IsSeq(BundleRecords(p, dom, spec, b))
  BY FacebookSeq DEF BundleRecords
<1>3. p = "YOUTUBE" => IsSeq(BundleRecords(p, dom, spec, b))
  BY YouTubeIds DEF BundleRecords
<1>. QED
  BY <1>1, <1>2, <1>3 DEF Platforms

(* Attribution is added to each record, in its place.                      *)
LEMMA Attributed ==
  ASSUME NEW made, IsSeq(made), NEW t,
         NEW new, new = [i \in DOMAIN made |-> WithIngestAttribution(made[i], t)]
  PROVE  IsSeq(new) /\ ToSet(new) = {WithIngestAttribution(m, t) : m \in ToSet(made)}
<1>. DEFINE n == Len(made)
            T == {WithIngestAttribution(made[i], t) : i \in 1..n}
<1>1. made \in Seq(ToSet(made))
  BY DEF IsSeq
<1>2. n \in Nat /\ DOMAIN made = 1..n
  BY <1>1, LenProperties
<1>3. new \in [1..n -> T]
  BY <1>2
<1>. HIDE DEF T, n
<1>4. IsSeq(new) /\ DOMAIN new = 1..n
  BY <1>2, <1>3, FunIsSeq
<1>. QED
  BY <1>2, <1>4 DEF ToSet

(* What withIngestAttribution adds.                                        *)
LEMMA AttributionFields ==
  ASSUME NEW m, NEW t
  PROVE  /\ WithIngestAttribution(m, t).record = m
         /\ WithIngestAttribution(m, t).keyword = CrawlKeyword(t)
         /\ WithIngestAttribution(m, t).source_kind = SourceKind(t)
         /\ WithIngestAttribution(m, t).smap = Attribution(t)
BY DEF WithIngestAttribution

(* Attribution leaves the ids of the records as they are.                  *)
LEMMA AttributedIds ==
  ASSUME NEW made, NEW t, NEW all,
         \A r : r \in all <=> \E m \in made : r = WithIngestAttribution(m, t)
  PROVE  {r.record.id : r \in all} = {m.id : m \in made}
<1>. DEFINE With(m) == WithIngestAttribution(m, t)
<1>1. \A m : With(m).record = m
  BY AttributionFields
<1>2. all = {With(m) : m \in made}
  OBVIOUS
<1>. HIDE DEF With
<1>3. ASSUME NEW r \in all PROVE r.record.id \in {m.id : m \in made}
  BY <1>1, <1>2
<1>4. ASSUME NEW m \in made PROVE m.id \in {r.record.id : r \in all}
  <2>1. With(m) \in all /\ With(m).record.id = m.id
    BY <1>1, <1>2
  <2>. QED
    BY <2>1
<1>. QED
  BY <1>3, <1>4

(* What is about the business in one more bundle.                          *)
LEMMA OneMoreBundle ==
  ASSUME NEW done, NEW b
  PROVE  UNION {BusinessIds(x) : x \in done \cup {b}}
           = (UNION {BusinessIds(x) : x \in done}) \cup BusinessIds(b)
<1>. DEFINE some == UNION {BusinessIds(x) : x \in done}
            all == UNION {BusinessIds(x) : x \in done \cup {b}}
<1>1. ASSUME NEW id \in all PROVE id \in some \cup BusinessIds(b)
  <2>1. PICK x \in done \cup {b} : id \in BusinessIds(x)
    OBVIOUS
  <2>. QED
    BY <2>1
<1>2. ASSUME NEW id \in some PROVE id \in all
  OBVIOUS
<1>3. ASSUME NEW id \in BusinessIds(b) PROVE id \in all
  OBVIOUS
<1>4. all = some \cup BusinessIds(b)
  <2>. HIDE DEF all, some
  <2>. QED
    BY <1>1, <1>2, <1>3
<1>. QED
  BY <1>4

(* ParseBundle: the new records are attributed to the task, and they are what is*)
(* about the business in the bundle.                                       *)
LEMMA ParseKeeps == CInv /\ ParseBundle => CInv'
<1>. SUFFICES ASSUME CInv, ParseBundle PROVE CInv'
  OBVIOUS
<1>. DEFINE t == batch.asked
            b == batch.artefact[parsed + 1]
            made == BundleRecords(platform, domain, t, b)
            new == [i \in DOMAIN made |-> WithIngestAttribution(made[i], t)]
<1>1. /\ batch # None /\ SupportsParse(platform, t.action)
      /\ parsed < Len(batch.artefact) /\ parsed' = parsed + 1
      /\ UNCHANGED <<platform, domain, target, edits, sampled, job, batch>>
  BY DEF ParseBundle
<1>2. /\ job # None /\ batch.task \in DOMAIN job.tasks /\ t = job.tasks[batch.task]
      /\ batch.artefact \in Seq(Bundles) /\ parsed \in 0..Len(batch.artefact)
  BY <1>1 DEF CInv, BatchAnswersTask
<1>3. records' = records \o new
  BY <1>2 DEF ParseBundle, RequestPayload
<1>4. /\ b \in Bundles
      /\ ToSet(SubSeq(batch.artefact, 1, parsed + 1))
           = ToSet(SubSeq(batch.artefact, 1, parsed)) \cup {b}
  <2>1. parsed \in Nat
    BY <1>2
  <2>. QED
    BY <1>1, <1>2, <2>1, OneMoreParsed
<1>5. KeywordSays(CrawlKeyword(t)) \subseteq Signals
  <2>1. Prepared(job.of) /\ job.tasks = BuildDispatchSpecs(platform, job.of)
    BY <1>2 DEF CInv, SpecsAreMade
  <2>2. CrawlKeyword(t) \in Strings
    BY <1>2, <2>1, TaskSays
  <2>. QED
    BY <2>2, KeywordSaysAssumption
<1>6. IsSeq(made)
  BY <1>4, <1>5, BundleSeq DEF CInv
<1>8. /\ IsSeq(new) /\ ToSet(new) = {WithIngestAttribution(m, t) : m \in ToSet(made)}
  <2>. HIDE DEF made
  <2>. QED
    BY <1>6, Attributed
<1>9. IsSeq(records') /\ ToSet(records') = ToSet(records) \cup ToSet(new)
  <2>. HIDE DEF new
  <2>. QED
    BY <1>3, <1>8, JoinedSeq DEF CInv, RecordsAreAttributed
<1>10. RecordsAreAttributed'
  <2>1. \A r \in ToSet(new) : /\ r.keyword = CrawlKeyword(t) /\ r.source_kind = SourceKind(t)
                              /\ r.smap = Attribution(t)
    BY <1>8, AttributionFields
  <2>. HIDE DEF new
  <2>. QED
    BY <1>1, <1>9, <2>1 DEF CInv, RecordsAreAttributed
<1>11. BusinessIsPublished'
  <2>. SUFFICES ASSUME platform = "YOUTUBE", Prefiltered(domain, t)
                PROVE  {r.record.id : r \in ToSet(records')}
                         = UNION {BusinessIds(x) : x \in {x \in ToSet(SubSeq(batch.artefact, 1, parsed + 1)) :
                                                            ~ Blank(x.post)}}
    <3>1. \A x : BusinessIds(x)' = BusinessIds(x)
      BY <1>1, SameIds
    <3>. QED
      BY <1>1, <3>1 DEF BusinessIsPublished
  <2>. DEFINE Done == ToSet(SubSeq(batch.artefact, 1, parsed))
  <2>1. {r.record.id : r \in ToSet(records)}
          = UNION {BusinessIds(x) : x \in {x \in Done : ~ Blank(x.post)}}
    BY <1>1 DEF CInv, BusinessIsPublished
  <2>2. {r.id : r \in ToSet(made)} = IF Blank(b.post) THEN {} ELSE BusinessIds(b)
    <3>1. made = YouTubeBundle(domain, t, b)
      BY DEF BundleRecords
    <3>. QED
      BY <1>4, <1>5, <3>1, YouTubeIds
  <2>3. {r.record.id : r \in ToSet(new)} = {r.id : r \in ToSet(made)}
    <3>. DEFINE M == ToSet(made)
                N == ToSet(new)
    <3>1. \A r : r \in N <=> \E m \in M : r = WithIngestAttribution(m, t)
      BY <1>8
    <3>. HIDE DEF M, N, t
    <3>2. {r.record.id : r \in N} = {m.id : m \in M}
      BY <3>1, AttributedIds
    <3>. QED
      BY <3>2 DEF M, N
  <2>. HIDE DEF Done, b, made, new
  <2>4. {r.record.id : r \in ToSet(records')}
          = {r.record.id : r \in ToSet(records)} \cup {r.record.id : r \in ToSet(new)}
    BY <1>9
  <2>5. UNION {BusinessIds(x) : x \in {x \in Done \cup {b} : ~ Blank(x.post)}}
          = (UNION {BusinessIds(x) : x \in {x \in Done : ~ Blank(x.post)}})
              \cup (IF Blank(b.post) THEN {} ELSE BusinessIds(b))
    <3>. DEFINE Has(x) == ~ Blank(x.post)
    <3>1. CASE Has(b)
      <4>1. {x \in Done \cup {b} : Has(x)} = {x \in Done : Has(x)} \cup {b}
        BY <3>1
      <4>. HIDE DEF Has
      <4>2. UNION {BusinessIds(x) : x \in {x \in Done \cup {b} : Has(x)}}
              = (UNION {BusinessIds(x) : x \in {x \in Done : Has(x)}}) \cup BusinessIds(b)
        BY <4>1, OneMoreBundle
      <4>. QED
        BY <3>1, <4>2 DEF Has
    <3>2. CASE ~ Has(b)
      <4>1. {x \in Done \cup {b} : Has(x)} = {x \in Done : Has(x)}
        BY <3>2
      <4>. HIDE DEF Has
      <4>2. UNION {BusinessIds(x) : x \in {x \in Done \cup {b} : Has(x)}}
              = (UNION {BusinessIds(x) : x \in {x \in Done : Has(x)}}) \cup {}
        BY <4>1
      <4>. QED
        BY <3>2, <4>2 DEF Has
    <3>. QED
      BY <3>1, <3>2
  <2>6. ToSet(SubSeq(batch.artefact, 1, parsed + 1)) = Done \cup {b}
    BY <1>4 DEF Done
  <2>. QED
    BY <2>1, <2>2, <2>3, <2>4, <2>5, <2>6
<1>12. BatchAnswersTask'
  <2>1. Len(batch.artefact) \in Nat
    BY <1>2, LenProperties
  <2>2. parsed + 1 \in 0..Len(batch.artefact)
    BY <1>1, <1>2, <2>1
  <2>. QED
    BY <1>1, <1>2, <2>2 DEF BatchAnswersTask
<1>13. RowIsPrepared' /\ SpecsAreMade' /\ platform' \in Platforms
  BY <1>1 DEF CInv, RowIsPrepared, SpecsAreMade
<1>. QED
  BY <1>10, <1>11, <1>12, <1>13 DEF CInv

-----------------------------------------------------------------------------
(* The invariant holds in every state.                                     *)
LEMMA CInvHolds == Spec => []CInv
<1>1. CInv /\ [Next]_vars => CInv'
  <2>. SUFFICES ASSUME CInv, [Next]_vars PROVE CInv'
    OBVIOUS
  <2>1. CASE UNCHANGED vars
    BY <2>1, BatchKept DEF vars, CInv, RowIsPrepared, SpecsAreMade, BatchAnswersTask
  <2>2. ASSUME NEW input \in Inputs, CreateTarget(input) PROVE CInv'
    BY <2>2, CreateKeeps
  <2>3. ASSUME NEW meta \in EditedMetas, UpdateTarget(meta) PROVE CInv'
    BY <2>3, UpdateKeeps
  <2>. QED
    BY <2>1, <2>2, <2>3, TriggerKeeps, DispatchKeeps, AnswerKeeps, ParseKeeps DEF Next
<1>. QED
  BY <1>1, CInvInit, PTL DEF Spec

(* Whatever blanks and repetitions a user enters, and whatever the         *)
(* platform_meta says: each value has one task, and ids stay in place.     *)
THEOREM ValuesAreDispatched == Spec => []EveryValueHasItsTask
BY CInvHolds, ValuesHaveTasks, PTL

(* The two copies of the mapping from targets to tasks agree on every      *)
(* target that users can enter.                                            *)
THEOREM DryrunAgrees == Spec => []DryrunPredictsDispatch
<1>1. CInv => DryrunPredictsDispatch
  BY DryrunPredicts DEF CInv
<1>. QED
  BY <1>1, CInvHolds, PTL

(* Of the bundles parsed so far exactly what is about the business is      *)
(* published, for artefacts of any length, with texts of any length.       *)
THEOREM OnlyBusinessIsPublished == Spec => []BusinessIsPublished
<1>1. CInv => BusinessIsPublished
  BY DEF CInv
<1>. QED
  BY <1>1, CInvHolds, PTL

(* Every record is attributed to the value its task was made for, while    *)
(* the target is edited and other tasks of the job are answered.           *)
THEOREM RecordsAreTraced == Spec => []RecordsTraceToTask
BY CInvHolds, RecordsTrace, PTL
==============================================================================
