--------------------------- MODULE PersonalityQuiz ---------------------------
(***************************************************************************)
(* The scoring of the onboarding quiz:                                     *)
(* src/src/modules/personality/personality-scoring.ts with the weights of  *)
(* data/personality-quiz.data.ts, as submitQuiz calls it.  A question is   *)
(* its place in the quiz, a list of answers a sequence of records.         *)
(*                                                                         *)
(* A definition preceded by a form of it that is named after a mistake is  *)
(* mutated to it in PROJECT.json; nothing else uses it.                    *)
(***************************************************************************)
EXTENDS Integers, FiniteSets, Sequences, SequencesExt

CONSTANT Submissions    \* lists of answers that clients send

ASSUME QuizAssumption == Submissions \subseteq Seq([question : Nat, value : Int])

VARIABLES
    answers,    \* the list submitted
    outcome     \* "pending", or what calculatePersonality returns or rejects with

vars == <<answers, outcome>>

-----------------------------------------------------------------------------
(* The quiz. *)

PERSONA_PRIORITY == <<"explorer", "historian", "strategist", "culture_lover">>
Personas == ToSet(PERSONA_PRIORITY)

Weights(explorer, historian, strategist, culture) ==
    [explorer |-> explorer, historian |-> historian,
     strategist |-> strategist, culture_lover |-> culture]

PERSONALITY_QUIZ_QUESTIONS ==
    << Weights(2, 1, 1, 1), Weights(1, 2, 1, 1), Weights(1, 1, 2, 1), Weights(1, 1, 1, 2),
       Weights(2, 1, 1, 1), Weights(1, 2, 1, 1), Weights(1, 1, 2, 2) >>
Questions == DOMAIN PERSONALITY_QUIZ_QUESTIONS
Values == 1..5

-----------------------------------------------------------------------------
(* validateAnswers: what is wrong with the i-th answer, checks in their order. *)

SeenBefore(list, i) == {list[k].question : k \in 1..(i - 1)}

FaultUnlessTooLow(list, i) ==
    IF list[i].question \notin Questions THEN "unknown question"
    ELSE IF list[i].question \in SeenBefore(list, i) THEN "duplicate question"
    ELSE IF list[i].value > 5 THEN "value"
    ELSE "none"

Fault(list, i) ==
    IF list[i].question \notin Questions THEN "unknown question"
    ELSE IF list[i].question \in SeenBefore(list, i) THEN "duplicate question"
    ELSE IF list[i].value < 1 \/ list[i].value > 5 THEN "value"
    ELSE "none"

ValidateAnswers(list) ==
    LET faulty == {i \in DOMAIN list : Fault(list, i) # "none"}
        seen == SeenBefore(list, Len(list) + 1)
    IN IF Len(list) # Len(PERSONALITY_QUIZ_QUESTIONS) THEN "invalid count"
       ELSE IF faulty # {} THEN
            Fault(list, CHOOSE i \in faulty : \A k \in faulty : i <= k)
       ELSE IF Cardinality(seen) # Len(PERSONALITY_QUIZ_QUESTIONS) THEN "missing questions"
       ELSE "none"

(* calculatePersonality: the scores are sums over the answers.  A sum is the   *)
(* number of its points, value * weight of them for the i-th answer.           *)
Points(list, p) ==
    UNION {{i} \X (1..list[i].value * PERSONALITY_QUIZ_QUESTIONS[list[i].question][p]) :
           i \in DOMAIN list}
Scores(list) == [p \in Personas |-> Cardinality(Points(list, p))]

(* resolveWinner: from persona to persona in the order of PERSONA_PRIORITY. *)
BetterOrEqual(scores, winner, p) == IF scores[p] >= scores[winner] THEN p ELSE winner
Better(scores, winner, p) == IF scores[p] > scores[winner] THEN p ELSE winner
ResolveWinner(scores) ==
    LET first == PERSONA_PRIORITY[1]
        second == Better(scores, first, PERSONA_PRIORITY[2])
        third == Better(scores, second, PERSONA_PRIORITY[3])
    IN Better(scores, third, PERSONA_PRIORITY[4])

CalculatePersonality(list) ==
    IF ValidateAnswers(list) # "none"
    THEN [error |-> ValidateAnswers(list), type |-> "none"]
    ELSE [error |-> "none", type |-> ResolveWinner(Scores(list))]

-----------------------------------------------------------------------------

Pending == [error |-> "pending", type |-> "none"]

Init == answers \in Submissions /\ outcome = Pending

SubmitQuiz ==
    /\ outcome = Pending
    /\ outcome' = CalculatePersonality(answers)
    /\ UNCHANGED answers

Next == SubmitQuiz

Spec == Init /\ [][Next]_vars

-----------------------------------------------------------------------------
(* A list is accepted if and only if it answers every question once, in any   *)
(* order, with a value of the scale.                                          *)
AcceptsCompleteLists ==
    outcome # Pending =>
        (outcome.error = "none" <=>
            /\ {answers[i].question : i \in DOMAIN answers} = Questions
            /\ Len(answers) = Cardinality(Questions)
            /\ \A i \in DOMAIN answers : answers[i].value \in Values)

(* The questions that speak for a persona more than for others. *)
OwnQuestions(p) == {q \in Questions : PERSONALITY_QUIZ_QUESTIONS[q][p] = 2}
AnswerTo(q) == answers[CHOOSE i \in DOMAIN answers : answers[i].question = q].value

(* What weighs in favour of a persona: the sum of the answers to its own        *)
(* questions.  The weight of 1 that every answer adds to every score favours   *)
(* nobody.                                                                      *)
Favour(p) == Cardinality(UNION {{q} \X (1..AnswerTo(q)) : q \in OwnQuestions(p)})

(* The persona is one whose own questions got the highest answers, and of     *)
(* those the first in the order of priority, in whatever order the answers    *)
(* are sent.                                                                  *)
WinnerIsFavourite ==
    outcome.error = "none" =>
        \A i \in DOMAIN PERSONA_PRIORITY : PERSONA_PRIORITY[i] = outcome.type =>
            \A k \in DOMAIN PERSONA_PRIORITY :
                \/ Favour(PERSONA_PRIORITY[k]) < Favour(outcome.type)
                \/ Favour(PERSONA_PRIORITY[k]) = Favour(outcome.type) /\ i <= k
=============================================================================
