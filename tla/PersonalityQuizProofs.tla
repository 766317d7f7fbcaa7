------------------------ MODULE PersonalityQuizProofs ------------------------
(***************************************************************************)
(* The quiz, for every list of answers that clients may send.              *)
(***************************************************************************)
EXTENDS PersonalityQuiz, FiniteSetTheorems, SequenceTheorems, TLAPS

Answer == [question : Nat, value : Int]
Weight(q, p) == PERSONALITY_QUIZ_QUESTIONS[q][p]

-----------------------------------------------------------------------------
(* The quiz itself. *)

LEMMA FirstNumbers ==
    ASSUME NEW n \in Nat
    PROVE  IsFiniteSet(1..n) /\ Cardinality(1..n) = n
BY FS_Interval

LEMMA QuizFacts ==
    /\ Len(PERSONALITY_QUIZ_QUESTIONS) = 7 /\ Questions = 1..7
    /\ IsFiniteSet(1..7) /\ Cardinality(1..7) = 7
    /\ Personas = {"explorer", "historian", "strategist", "culture_lover"}
<1>1. Len(PERSONALITY_QUIZ_QUESTIONS) = 7 /\ Questions = 1..7
  BY DEF PERSONALITY_QUIZ_QUESTIONS, Questions
<1>2. IsFiniteSet(1..7) /\ Cardinality(1..7) = 7
  <2>1. 7 \in Nat
    OBVIOUS
  <2>2. QED
    BY <2>1, FirstNumbers, Zenon
<1>3. Personas = {"explorer", "historian", "strategist", "culture_lover"}
  BY DEF Personas, ToSet, PERSONA_PRIORITY
<1>4. QED
  BY <1>1, <1>2, <1>3

LEMMA WeightType == \A q \in Questions, p \in Personas : Weight(q, p) \in {1, 2}
<1> SUFFICES ASSUME NEW q \in 1..7, NEW p \in {"explorer", "historian", "strategist", "culture_lover"}
             PROVE  Weight(q, p) \in {1, 2}
  BY QuizFacts
<1> USE DEF Weight, PERSONALITY_QUIZ_QUESTIONS, Weights
<1>1. CASE q = 1
  BY <1>1
<1>2. CASE q = 2
  BY <1>2
<1>3. CASE q = 3
  BY <1>3
<1>4. CASE q = 4
  BY <1>4
<1>5. CASE q = 5
  BY <1>5
<1>6. CASE q = 6
  BY <1>6
<1>7. CASE q = 7
  BY <1>7
<1>8. QED
  BY <1>1, <1>2, <1>3, <1>4, <1>5, <1>6, <1>7

-----------------------------------------------------------------------------
(* What validateAnswers lets through. *)

Complete(list) ==
    /\ {list[i].question : i \in DOMAIN list} = Questions
    /\ Len(list) = Cardinality(Questions)
    /\ \A i \in DOMAIN list : list[i].value \in Values

(* Seven answers to seven questions: one each. *)
LEMMA OneEach ==
    ASSUME NEW list \in Seq(Answer), Len(list) = 7
    PROVE  {list[i].question : i \in DOMAIN list} = Questions <=>
               /\ \A i \in 1..7 : list[i].question \in Questions
               /\ \A i, k \in 1..7 : list[i].question = list[k].question => i = k
<1> DEFINE asked == [i \in 1..7 |-> list[i].question]
<1>1. DOMAIN list = 1..7 /\ Questions = 1..7 /\ IsFiniteSet(1..7)
  BY LenProperties, QuizFacts
<1>2. ASSUME {list[i].question : i \in DOMAIN list} = Questions
      PROVE  /\ \A i \in 1..7 : list[i].question \in Questions
             /\ \A i, k \in 1..7 : list[i].question = list[k].question => i = k
  <2>1. asked \in Surjection(1..7, 1..7)
    <3>1. \A i \in 1..7 : list[i].question \in 1..7
      BY <1>1, <1>2
    <3>2. ASSUME NEW t \in 1..7 PROVE \E i \in 1..7 : list[i].question = t
      BY <1>1, <1>2
    <3>3. asked \in [1..7 -> 1..7] /\ \A i \in 1..7 : asked[i] = list[i].question
      BY <3>1
    <3> HIDE DEF asked
    <3>4. QED
      BY <3>2, <3>3 DEF Surjection
  <2>2. asked \in Injection(1..7, 1..7)
    BY <1>1, <2>1, FS_Surjection
  <2>3. QED
    BY <1>1, <1>2, <2>2 DEF Injection, IsInjective
<1>3. ASSUME /\ \A i \in 1..7 : list[i].question \in Questions
             /\ \A i, k \in 1..7 : list[i].question = list[k].question => i = k
      PROVE  {list[i].question : i \in DOMAIN list} = Questions
  <2>1. asked \in Injection(1..7, 1..7)
    BY <1>1, <1>3 DEF Injection, IsInjective
  <2>2. asked \in Surjection(1..7, 1..7)
    BY <1>1, <2>1, FS_Injection
  <2>3. QED
    BY <1>1, <1>3, <2>2 DEF Surjection
<1>4. QED
  BY <1>2, <1>3

(* The first faulty answer is reported, if there is one. *)
LEMMA FirstOfFaulty ==
    ASSUME NEW S \in SUBSET (1..7), S # {}
    PROVE  (CHOOSE i \in S : \A k \in S : i <= k) \in S
<1>1. \E i \in S : \A k \in S : i <= k
  <2>1. \A k \in S : k \in {1, 2, 3, 4, 5, 6, 7}
    OBVIOUS
  <2>2. 1 \in S \/ 2 \in S \/ 3 \in S \/ 4 \in S \/ 5 \in S \/ 6 \in S \/ 7 \in S
    BY <2>1
  <2>3. QED
    BY <2>1, <2>2
<1>2. QED
  BY <1>1

LEMMA Validated ==
    ASSUME NEW list \in Seq(Answer)
    PROVE  ValidateAnswers(list) = "none" <=> Complete(list)
<1> DEFINE faulty == {i \in DOMAIN list : Fault(list, i) # "none"}
           seen == SeenBefore(list, Len(list) + 1)
<1>1. Len(list) \in Nat /\ DOMAIN list = 1..Len(list) /\ \A i \in DOMAIN list : list[i] \in Answer
  BY LenProperties, ElementOfSeq
<1>2. Cardinality(Questions) = 7 /\ Len(PERSONALITY_QUIZ_QUESTIONS) = 7 /\ Questions = 1..7
  BY QuizFacts
<1>3. CASE Len(list) # 7
  <2>1. ValidateAnswers(list) = "invalid count"
    BY <1>2, <1>3 DEF ValidateAnswers
  <2>2. QED
    BY <1>2, <1>3, <2>1 DEF Complete
<1>4. CASE Len(list) = 7
  <2>1. \A i \in 1..7 : Fault(list, i) = "none" <=>
            /\ list[i].question \in Questions /\ list[i].value \in Values
            /\ \A k \in 1..i - 1 : list[k].question # list[i].question
    <3> SUFFICES ASSUME NEW i \in 1..7
                 PROVE  Fault(list, i) = "none" <=>
                            /\ list[i].question \in Questions /\ list[i].value \in Values
                            /\ \A k \in 1..i - 1 : list[k].question # list[i].question
      OBVIOUS
    <3>1. list[i].value \in Int
      BY <1>1, <1>4 DEF Answer
    <3>2. list[i].value \in Values <=> ~(list[i].value < 1 \/ list[i].value > 5)
      BY <3>1 DEF Values
    <3>3. list[i].question \in SeenBefore(list, i) <=>
              ~(\A k \in 1..i - 1 : list[k].question # list[i].question)
      BY DEF SeenBefore
    <3>4. QED
      BY <3>2, <3>3 DEF Fault
  <2>2. faulty = {} <=>
            /\ \A i \in 1..7 : list[i].question \in Questions /\ list[i].value \in Values
            /\ \A i, k \in 1..7 : list[i].question = list[k].question => i = k
    <3>1. ASSUME faulty = {}, NEW i \in 1..7, NEW k \in 1..7, list[i].question = list[k].question
          PROVE  i = k
      <4>1. ~(i \in 1..k - 1) /\ ~(k \in 1..i - 1)
        BY <1>1, <1>4, <2>1, <3>1
      <4>2. QED
        BY <4>1
    <3>2. ASSUME NEW i \in 1..7, NEW k \in 1..i - 1 PROVE k \in 1..7 /\ k # i
      BY <3>2
    <3>3. QED
      BY <1>1, <1>4, <2>1, <3>1, <3>2
  <2>3. ASSUME faulty # {} PROVE ValidateAnswers(list) # "none"
    <3>1. faulty \in SUBSET (1..7)
      BY <1>1, <1>4
    <3>2. (CHOOSE i \in faulty : \A k \in faulty : i <= k) \in faulty
      BY <2>3, <3>1, FirstOfFaulty
    <3>3. Fault(list, CHOOSE i \in faulty : \A k \in faulty : i <= k) # "none"
      BY <3>2
    <3>4. ValidateAnswers(list) = Fault(list, CHOOSE i \in faulty : \A k \in faulty : i <= k)
      BY <1>2, <1>4, <2>3 DEF ValidateAnswers
    <3>5. QED
      BY <3>3, <3>4
  <2>4. ASSUME faulty = {} PROVE ValidateAnswers(list) = "none" /\ Complete(list)
    <3>1. /\ {list[i].question : i \in DOMAIN list} = Questions
          /\ \A i \in DOMAIN list : list[i].value \in Values
      BY <1>1, <1>4, <2>2, <2>4, OneEach
    <3>2. 1..(Len(list) + 1) - 1 = DOMAIN list
      BY <1>1
    <3>3. seen = Questions
      BY <3>1, <3>2 DEF SeenBefore
    <3>4. QED
      BY <1>2, <1>4, <2>4, <3>1, <3>3 DEF ValidateAnswers, Complete
  <2>5. ASSUME Complete(list) PROVE faulty = {}
    BY <1>1, <1>4, <2>2, <2>5, OneEach DEF Complete
  <2>6. QED
    BY <2>3, <2>4, <2>5
<1>5. QED
  BY <1>3, <1>4

-----------------------------------------------------------------------------
(* The points of a persona: what every persona gets, and what weighs twice. *)

Grid == (1..7) \X (1..10)
Common(list) == {x \in Grid : x[2] <= list[x[1]].value}
Extra(list, p) ==
    {x \in Grid : /\ list[x[1]].value < x[2] /\ x[2] <= 2 * list[x[1]].value
                  /\ Weight(list[x[1]].question, p) = 2}

LEMMA CompleteFacts ==
    ASSUME NEW list \in Seq(Answer), Complete(list)
    PROVE  /\ DOMAIN list = 1..7
           /\ \A i \in 1..7 : list[i].question \in 1..7 /\ list[i].value \in 1..5
           /\ \A i, k \in 1..7 : list[i].question = list[k].question => i = k
           /\ \A q \in 1..7 : \E i \in 1..7 : list[i].question = q
<1>1. Len(list) = 7 /\ DOMAIN list = 1..7 /\ Questions = 1..7
  BY QuizFacts, LenProperties DEF Complete
<1>2. {list[i].question : i \in 1..7} = 1..7
  BY <1>1 DEF Complete
<1>3. \A i, k \in 1..7 : list[i].question = list[k].question => i = k
  BY <1>1, OneEach DEF Complete
<1>4. \A i \in 1..7 : list[i].value \in 1..5
  BY <1>1 DEF Complete, Values
<1>5. QED
  BY <1>1, <1>2, <1>3, <1>4

LEMMA PointsSplit ==
    ASSUME NEW list \in Seq(Answer), Complete(list), NEW p \in Personas
    PROVE  Points(list, p) = Common(list) \cup Extra(list, p)
<1>1. /\ DOMAIN list = 1..7 /\ Questions = 1..7
      /\ \A i \in 1..7 : list[i].question \in 1..7 /\ list[i].value \in 1..5
  BY CompleteFacts, QuizFacts
<1>2. ASSUME NEW i \in 1..7, NEW n \in Int
      PROVE  n \in 1..list[i].value * Weight(list[i].question, p) <=>
                 <<i, n>> \in Common(list) \cup Extra(list, p)
  <2> DEFINE v == list[i].value
             w == Weight(list[i].question, p)
  <2>1. v \in 1..5 /\ w \in {1, 2}
    BY <1>1, WeightType
  <2>2. <<i, n>> \in Common(list) <=> n \in 1..10 /\ n <= v
    BY DEF Common, Grid
  <2>3. <<i, n>> \in Extra(list, p) <=> n \in 1..10 /\ v < n /\ n <= 2 * v /\ w = 2
    BY DEF Extra, Grid
  <2> HIDE DEF v, w
  <2>4. CASE w = 1
    BY <2>1, <2>2, <2>3, <2>4 DEF v, w
  <2>5. CASE w = 2
    BY <2>1, <2>2, <2>3, <2>5 DEF v, w
  <2>6. QED
    BY <2>1, <2>4, <2>5
<1>3. ASSUME NEW x \in Points(list, p) PROVE x \in Common(list) \cup Extra(list, p)
  <2>1. PICK i \in 1..7 : x \in {i} \X (1..list[i].value * Weight(list[i].question, p))
    BY <1>1 DEF Points, Weight
  <2>2. PICK n \in 1..list[i].value * Weight(list[i].question, p) : x = <<i, n>>
    BY <2>1
  <2>3. n \in Int
    OBVIOUS
  <2>4. QED
    BY <1>2, <2>2, <2>3
<1>4. ASSUME NEW x \in Common(list) \cup Extra(list, p) PROVE x \in Points(list, p)
  <2>1. PICK i \in 1..7, n \in 1..10 : x = <<i, n>>
    BY DEF Common, Extra, Grid
  <2>2. n \in 1..list[i].value * Weight(list[i].question, p)
    BY <1>2, <2>1
  <2>3. x \in {i} \X (1..list[i].value * Weight(list[i].question, p))
    BY <2>1, <2>2
  <2>4. QED
    BY <1>1, <2>3 DEF Points, Weight
<1>5. QED
  BY <1>3, <1>4

LEMMA GridIsFinite == IsFiniteSet(Grid)
<1>1. 7 \in Nat /\ 10 \in Nat
  OBVIOUS
<1>2. IsFiniteSet(1..7) /\ IsFiniteSet(1..10)
  BY <1>1, FirstNumbers, Zenon
<1>3. QED
  BY <1>2, FS_Product DEF Grid

LEMMA ScoreSplit ==
    ASSUME NEW list \in Seq(Answer), Complete(list), NEW p \in Personas
    PROVE  /\ Cardinality(Common(list)) \in Nat /\ Cardinality(Extra(list, p)) \in Nat
           /\ IsFiniteSet(Extra(list, p))
           /\ Scores(list)[p] = Cardinality(Common(list)) + Cardinality(Extra(list, p))
<1>1. Common(list) \subseteq Grid /\ Extra(list, p) \subseteq Grid
  BY DEF Common, Extra
<1>2. IsFiniteSet(Common(list)) /\ IsFiniteSet(Extra(list, p))
  BY <1>1, GridIsFinite, FS_Subset
<1>3. Common(list) \cap Extra(list, p) = {}
  <2> SUFFICES ASSUME NEW i \in 1..7, NEW n \in 1..10, list[i].value < n, n <= list[i].value
               PROVE  FALSE
    BY DEF Common, Extra, Grid
  <2>1. list[i].value \in Int
    BY CompleteFacts
  <2>2. QED
    BY <2>1
<1>4. Cardinality({}) = 0
  BY FS_EmptySet
<1>5. /\ Cardinality(Common(list)) \in Nat /\ Cardinality(Extra(list, p)) \in Nat
      /\ Cardinality(Common(list) \cup Extra(list, p)) =
             Cardinality(Common(list)) + Cardinality(Extra(list, p))
  <2> DEFINE C == Common(list)
             E == Extra(list, p)
  <2>1. IsFiniteSet(C) /\ IsFiniteSet(E) /\ C \cap E = {}
    BY <1>2, <1>3
  <2> HIDE DEF C, E
  <2>2. Cardinality(C) \in Nat /\ Cardinality(E) \in Nat
    BY <2>1, FS_CardinalityType
  <2>3. Cardinality(C \cup E) = Cardinality(C) + Cardinality(E) - Cardinality(C \cap E)
    BY <2>1, FS_Union
  <2>4. Cardinality(C \cup E) = Cardinality(C) + Cardinality(E)
    <3>1. Cardinality(C \cap E) = 0
      BY <1>4, <2>1, Zenon
    <3>2. QED
      BY <2>2, <2>3, <3>1
  <2>5. QED
    BY <2>2, <2>4 DEF C, E
<1>6. Scores(list)[p] = Cardinality(Points(list, p))
  BY DEF Scores
<1>7. QED
  BY <1>2, <1>5, <1>6, PointsSplit

(* The extra points are those of the answers to the persona's own questions. *)
LEMMA ExtraIsFavour ==
    ASSUME answers \in Seq(Answer), Complete(answers), NEW p \in Personas
    PROVE  Cardinality(Extra(answers, p)) = Favour(p)
<1> DEFINE q(i) == answers[i].question
           v(i) == answers[i].value
           own == UNION {{k} \X (1..AnswerTo(k)) : k \in OwnQuestions(p)}
           E == Extra(answers, p)
           f == [x \in E |-> <<q(x[1]), x[2] - v(x[1])>>]
<1>1. /\ DOMAIN answers = 1..7 /\ Questions = 1..7
      /\ \A i \in 1..7 : q(i) \in 1..7 /\ v(i) \in 1..5
      /\ \A i, k \in 1..7 : q(i) = q(k) => i = k
      /\ \A k \in 1..7 : \E i \in 1..7 : q(i) = k
  BY CompleteFacts, QuizFacts
<1>2. ASSUME NEW i \in 1..7 PROVE AnswerTo(q(i)) = v(i)
  <2>1. \A k \in 1..7 : q(k) = q(i) <=> k = i
    BY <1>1
  <2>2. (CHOOSE k \in 1..7 : q(k) = q(i)) = i
    BY <2>1
  <2>3. AnswerTo(q(i)) = answers[CHOOSE k \in 1..7 : q(k) = q(i)].value
    BY <1>1 DEF AnswerTo
  <2>4. QED
    BY <2>2, <2>3
<1>3. \A k : k \in OwnQuestions(p) <=> k \in 1..7 /\ Weight(k, p) = 2
  BY <1>1 DEF OwnQuestions, Weight
<1>4. \A x \in E : \E i \in 1..7, n \in 1..10 :
          x = <<i, n>> /\ v(i) < n /\ n <= 2 * v(i) /\ Weight(q(i), p) = 2
  BY DEF Extra, Grid
<1>5. \A i \in 1..7, n \in 1..10 :
          v(i) < n /\ n <= 2 * v(i) /\ Weight(q(i), p) = 2 => <<i, n>> \in E
  BY DEF Extra, Grid
<1>6. \A x \in E : f[x] = <<q(x[1]), x[2] - v(x[1])>>
  OBVIOUS
<1> HIDE DEF E, f
<1>7. ASSUME NEW x \in E PROVE f[x] \in own
  <2>1. PICK i \in 1..7, n \in 1..10 :
            x = <<i, n>> /\ v(i) < n /\ n <= 2 * v(i) /\ Weight(q(i), p) = 2
    BY <1>4
  <2>2. f[x] = <<q(i), n - v(i)>>
    BY <1>6, <2>1
  <2>3. n - v(i) \in 1..AnswerTo(q(i)) /\ q(i) \in OwnQuestions(p)
    <3>1. AnswerTo(q(i)) = v(i) /\ v(i) \in 1..5 /\ q(i) \in 1..7
      BY <1>1, <1>2
    <3>2. n - v(i) \in 1..v(i)
      <4>1. v(i) \in Int /\ n \in Int /\ v(i) < n /\ n <= 2 * v(i)
        BY <2>1, <3>1
      <4> HIDE DEF v
      <4>2. QED
        BY <4>1
    <3>3. q(i) \in OwnQuestions(p)
      BY <1>3, <2>1, <3>1
    <3>4. QED
      BY <3>1, <3>2, <3>3
  <2>4. QED
    BY <2>2, <2>3
<1>8. ASSUME NEW x \in E, NEW y \in E, f[x] = f[y] PROVE x = y
  <2>1. PICK i \in 1..7, n \in 1..10 : x = <<i, n>>
    BY <1>4
  <2>2. PICK k \in 1..7, m \in 1..10 : y = <<k, m>>
    BY <1>4
  <2>3. q(i) = q(k) /\ n - v(i) = m - v(k)
    BY <1>6, <1>8, <2>1, <2>2
  <2>4. i = k /\ v(i) \in 1..5
    BY <1>1, <2>3
  <2>5. n = m
    BY <2>3, <2>4
  <2>6. QED
    BY <2>1, <2>2, <2>4, <2>5
<1>9. ASSUME NEW y \in own PROVE \E x \in E : f[x] = y
  <2>1. PICK k \in OwnQuestions(p) : y \in {k} \X (1..AnswerTo(k))
    OBVIOUS
  <2>2. PICK m \in 1..AnswerTo(k) : y = <<k, m>>
    BY <2>1
  <2>3. PICK i \in 1..7 : q(i) = k
    BY <1>1, <1>3
  <2>4. m \in 1..v(i) /\ v(i) \in 1..5 /\ Weight(q(i), p) = 2
    BY <1>1, <1>2, <1>3, <2>3
  <2>5. /\ v(i) + m \in 1..10 /\ v(i) < v(i) + m /\ v(i) + m <= 2 * v(i)
        /\ (v(i) + m) - v(i) = m
    BY <2>4
  <2>6. <<i, v(i) + m>> \in E
    BY <1>5, <2>4, <2>5
  <2>7. f[<<i, v(i) + m>>] = <<q(i), (v(i) + m) - v(i)>>
    BY <1>6, <2>6
  <2>8. QED
    BY <2>2, <2>3, <2>5, <2>6, <2>7
<1>10. f \in [E -> own]
  BY <1>7 DEF f
<1>11. f \in Bijection(E, own)
  BY <1>8, <1>9, <1>10 DEF Bijection, Injection, Surjection, IsInjective
<1>12. IsFiniteSet(E)
  BY ScoreSplit DEF E
<1>13. Cardinality(own) = Cardinality(E)
  BY <1>11, <1>12, FS_Bijection DEF ExistsBijection
<1>14. QED
  BY <1>13 DEF Favour, E

-----------------------------------------------------------------------------

(* resolveWinner: nobody has a higher score, and nobody before in the order of *)
(* priority has the same.                                                      *)
LEMMA WinnerFacts ==
    ASSUME NEW scores \in [Personas -> Nat], NEW i \in DOMAIN PERSONA_PRIORITY,
           PERSONA_PRIORITY[i] = ResolveWinner(scores), NEW k \in DOMAIN PERSONA_PRIORITY
    PROVE  \/ scores[PERSONA_PRIORITY[k]] < scores[ResolveWinner(scores)]
           \/ scores[PERSONA_PRIORITY[k]] = scores[ResolveWinner(scores)] /\ i <= k
<1> DEFINE e == scores["explorer"]
           h == scores["historian"]
           s == scores["strategist"]
           c == scores["culture_lover"]
<1>1. e \in Nat /\ h \in Nat /\ s \in Nat /\ c \in Nat
  BY QuizFacts
<1>2. /\ DOMAIN PERSONA_PRIORITY = 1..4
      /\ PERSONA_PRIORITY[1] = "explorer" /\ PERSONA_PRIORITY[2] = "historian"
      /\ PERSONA_PRIORITY[3] = "strategist" /\ PERSONA_PRIORITY[4] = "culture_lover"
  BY DEF PERSONA_PRIORITY
<1>3. ResolveWinner(scores) =
          IF c > e /\ c > h /\ c > s THEN "culture_lover"
          ELSE IF s > e /\ s > h THEN "strategist"
          ELSE IF h > e THEN "historian" ELSE "explorer"
  BY <1>1, <1>2 DEF ResolveWinner, Better
<1> HIDE DEF e, h, s, c
<1>4. i \in {1, 2, 3, 4} /\ k \in {1, 2, 3, 4}
  BY <1>2
<1>5. QED
  BY <1>1, <1>2, <1>3, <1>4 DEF e, h, s, c

QuizInv ==
    /\ answers \in Seq(Answer)
    /\ outcome = Pending \/ outcome = CalculatePersonality(answers)

(* What is answered is what calculatePersonality computes of the list received. *)
LEMMA QuizInvariance == Spec => []QuizInv
<1>1. Init => QuizInv
  BY QuizAssumption DEF Init, QuizInv, Answer
<1>2. QuizInv /\ [Next]_vars => QuizInv'
  BY DEF QuizInv, Next, SubmitQuiz, vars
<1>3. QED
  BY <1>1, <1>2, PTL DEF Spec

LEMMA OutcomeError ==
    ASSUME QuizInv, outcome # Pending
    PROVE  /\ outcome.error = "none" <=> Complete(answers)
           /\ outcome.error = "none" => outcome.type = ResolveWinner(Scores(answers))
<1>1. ValidateAnswers(answers) = "none" <=> Complete(answers)
  BY Validated DEF QuizInv
<1>2. outcome = CalculatePersonality(answers)
  BY DEF QuizInv
<1>3. QED
  BY <1>1, <1>2 DEF CalculatePersonality

(* validateAnswers accepts exactly the complete lists: one answer to every     *)
(* question, in any order, each on the scale.                                  *)
THEOREM CompleteListsAreAccepted == Spec => []AcceptsCompleteLists
<1>1. QuizInv => AcceptsCompleteLists
  BY OutcomeError DEF AcceptsCompleteLists, Complete
<1>2. QED
  BY <1>1, QuizInvariance, PTL

(* calculatePersonality picks the persona whose own questions got the highest  *)
(* answers, the first of them in the order of priority, whatever the order of  *)
(* the answers.                                                                *)
THEOREM WinnersAreFavourites == Spec => []WinnerIsFavourite
<1>1. ASSUME QuizInv, outcome.error = "none",
             NEW i \in DOMAIN PERSONA_PRIORITY, PERSONA_PRIORITY[i] = outcome.type,
             NEW k \in DOMAIN PERSONA_PRIORITY
      PROVE  \/ Favour(PERSONA_PRIORITY[k]) < Favour(outcome.type)
             \/ Favour(PERSONA_PRIORITY[k]) = Favour(outcome.type) /\ i <= k
  <2>1. outcome # Pending
    BY <1>1 DEF Pending
  <2>2. /\ answers \in Seq(Answer) /\ Complete(answers)
        /\ outcome.type = ResolveWinner(Scores(answers))
    BY <1>1, <2>1, OutcomeError DEF QuizInv
  <2>3. PERSONA_PRIORITY[i] \in Personas /\ PERSONA_PRIORITY[k] \in Personas
    BY <1>1 DEF Personas, ToSet
  <2>4. \A p \in Personas : Favour(p) \in Nat /\ Cardinality(Common(answers)) \in Nat
            /\ Scores(answers)[p] = Cardinality(Common(answers)) + Favour(p)
    BY <2>2, ScoreSplit, ExtraIsFavour
  <2>5. Scores(answers) \in [Personas -> Nat]
    <3>1. Scores(answers) = [p \in Personas |-> Scores(answers)[p]]
      BY DEF Scores
    <3>2. \A p \in Personas : Scores(answers)[p] \in Nat
      BY <2>4
    <3> HIDE DEF Scores
    <3>3. QED
      BY <3>1, <3>2
  <2> DEFINE best == Scores(answers)[outcome.type]
             other == Scores(answers)[PERSONA_PRIORITY[k]]
  <2>6. \/ other < best
        \/ other = best /\ i <= k
    BY <1>1, <2>2, <2>5, WinnerFacts
  <2>7. /\ best = Cardinality(Common(answers)) + Favour(outcome.type)
        /\ other = Cardinality(Common(answers)) + Favour(PERSONA_PRIORITY[k])
        /\ Favour(outcome.type) \in Nat /\ Favour(PERSONA_PRIORITY[k]) \in Nat
        /\ Cardinality(Common(answers)) \in Nat
    BY <1>1, <2>3, <2>4
  <2> HIDE DEF best, other
  <2>8. QED
    BY <2>6, <2>7
<1>2. QuizInv => WinnerIsFavourite
  BY <1>1 DEF WinnerIsFavourite
<1>3. QED
  BY <1>2, QuizInvariance, PTL
=============================================================================
