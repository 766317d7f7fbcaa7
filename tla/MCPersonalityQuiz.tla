-------------------------- MODULE MCPersonalityQuiz --------------------------
(* Every complete list of answers in the order of the quiz, and lists that     *)
(* deviate: another order, a question or a value replaced, one answer too few  *)
(* or too many.                                                                *)
EXTENDS PersonalityQuiz

List(order, value) == [i \in DOMAIN order |-> [question |-> order[i], value |-> value[i]]]
InOrder == <<1, 2, 3, 4, 5, 6, 7>>
Complete == {List(InOrder, value) : value \in [1..7 -> 1..5]}

(* Complete lists in which two questions stand out.                            *)
Sample == {List(InOrder, [i \in 1..7 |-> IF i \in {k, k + 4} THEN 5 ELSE 2]) : k \in 1..4}
Replaced(list, i) ==
    {[list EXCEPT ![i].question = q] : q \in 0..8} \cup
    {[list EXCEPT ![i].value = v] : v \in 0..6}
Deviating == UNION {
    {Reverse(list), Tail(list), Append(list, Head(list))} \cup
        UNION {Replaced(list, i) : i \in 1..7} : list \in Sample}

MCSubmissions == Complete \cup Deviating
=============================================================================
