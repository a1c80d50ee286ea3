---------------------------- MODULE MCTextFunctions ----------------------------
(***************************************************************************)
(* Bounded inputs for the functions on texts.                               *)
(***************************************************************************)
EXTENDS TextFunctions

(* The leading digits vary, those that decide are among them; the others    *)
(* are all 5.                                                               *)
Fives(n) == [i \in 1..n |-> "5"]

MCNumbers ==
    {<<a, b>> \o Fives(n - 2) :
        a \in {"1", "2", "4", "9"}, b \in {"0", "1", "4", "5"}, n \in 8..10}

MCPlaces == {0, 1, 3, 7}

MCGaps == {<<>>, <<" ">>, <<".", "-">>, <<"(", "\n">>}

\* Texts that are no number of a country: too short or too long, without a
\* leading digit that may be, with letters, digits of another script.
MCStrangeTexts ==
    {sign \o <<a>> \o middle \o Fives(n) \o last :
        sign \in {<<>>, <<"+">>, <<"+", "+">>}, a \in {"0", "1", "4", "9"},
        middle \in {<<>>, <<"4">>, <<"x">>, <<"w">>, <<"+">>},
        n \in {0, 1, 8, 10, 12, 13, 14, 15}, last \in {<<>>, <<"\n">>, <<"\n", "\n">>}}

-----------------------------------------------------------------------------
(* Small templates.  One text is varied, or the two that meet in a sentence:*)
(* by length, by what stands in it, and by what is before its terminators.  *)
Name == After(0, "first_name")

Texts ==
    {<<Sentence(slots, n)>> :
        n \in {0, 1, 4, 6, 7, 8, 9, 11, 12, 13}, slots \in {<<>>, <<Name>>}}
    \cup {<<Sentence(<<Name, After(n, "first_name")>>, 0)>> : n \in {2, 9}}
    \cup {<<[Sentence(<<>>, n) EXCEPT !.number = digit], Sentence(<<Name>>, m), End>> :
              n \in {1, 9, 11}, m \in {0, 11}, digit \in BOOLEAN}
    \cup {<<Sentence(<<Name>>, 0), Sentence(<<>>, n), End>> : n \in {7, 10, 12}}
    \cup {<<[Sentence(<<>>, n) EXCEPT !.number = TRUE]>> : n \in {1, 9, 11}}
    \cup {<<Sentence(<<>>, 9), Sentence(<<>>, m), [End EXCEPT !.special = TRUE]>> : m \in {3, 13}}

Word == Phrase(1)

Base ==
    [persona |-> [name |-> Word, tone |-> Word, pace |-> Word], objective |-> Word,
     flow |-> <<Step(1, Word, TRUE)>>, objections |-> <<Objection(Word, Word)>>, escape |-> Word]

SmallTemplates ==
    UNION {{[Base EXCEPT !.persona.name = t], [Base EXCEPT !.persona.tone = t],
            [Base EXCEPT !.persona.pace = t],
            [Base EXCEPT !.persona.tone = t, !.persona.pace = t], [Base EXCEPT !.objective = t],
            [Base EXCEPT !.escape = t], [Base EXCEPT !.flow = <<>>, !.objective = t],
            [Base EXCEPT !.flow = <<Step(1, Word, TRUE), Step(2, t, FALSE)>>],
            [Base EXCEPT !.flow = <<Step(1, t, TRUE)>>, !.objections = <<>>]} : t \in Texts}
    \cup {[Base EXCEPT !.objections = <<Objection(Word, Word), Objection(t, u)>>] :
              t \in Texts, u \in Texts}

Without(data, field) == [f \in DOMAIN data \ {field} |-> data[f]]

FirstName(line, number) == "first_name" :> [line |-> line, number |-> number]

MCValues ==
    {FirstName(line, number) :
        line \in {<<Spoken(2)>>, <<Spoken(1), Spoken(1)>>}, number \in BOOLEAN}

MCTemplateQueries ==
    [kind : {"template"}, strict : BOOLEAN, data : {ToJsonb(t) : t \in SmallTemplates},
     vars : {<<>>} \cup MCValues]
    \cup [kind : {"template"}, strict : {TRUE}, vars : {FirstName(<<Spoken(1)>>, FALSE)},
          data : {Without(ToJsonb(RealEstate), f) : f \in Fields}]
=============================================================================
