---------------------------- MODULE PromptTemplates ----------------------------
(***************************************************************************)
(* The templates of app/conversation_prompts/templates, each text by its    *)
(* words and variables.                                                     *)
(***************************************************************************)
EXTENDS ConversationPrompts

(* Texts of plain words, and texts of one sentence; every one ends in a     *)
(* terminator.                                                              *)
End == Sentence(<<>>, 0)
Plain(words) == <<Sentence(<<>>, words), End>>
Plain2(first, second) == <<Sentence(<<>>, first), Sentence(<<>>, second), End>>
Using(slots, words) == <<Sentence(slots, words), End>>
Plain2Using(first, second, slots, words) ==
    <<Sentence(<<>>, first), Sentence(<<>>, second), Sentence(slots, words), End>>
Phrase(words) == <<Sentence(<<>>, words)>>

Step(n, text, wait) == [step |-> n, text |-> text, wait_for_ack |-> wait]
Objection(trigger, response) == [trigger |-> trigger, response |-> response]

\* The persona and the escape are the same in all templates: three words of
\* tone, one of pace.
Template(objective, flow, objections) ==
    [persona |-> [name |-> <<Sentence(<<After(0, "agent_name")>>, 0)>>,
                  tone |-> Phrase(3), pace |-> Phrase(1)],
     objective |-> objective, flow |-> flow, objections |-> objections,
     escape |-> Plain2(2, 9)]

RealEstate == Template(
    Using(<<After(3, "product_name")>>, 5),
    <<Step(1, Using(<<After(5, "first_name")>>, 0), TRUE),
      Step(2, Using(<<After(2, "agent_name"), After(2, "product_name")>>, 0), FALSE),
      Step(3, Plain(10), TRUE),
      Step(4, Plain(10), TRUE),
      Step(5, Plain(9), TRUE),
      Step(6, Plain2Using(2, 5, <<After(2, "first_name")>>, 0), FALSE)>>,
    <<Objection(Phrase(1), Plain2(2, 9)),
      Objection(Phrase(2), Plain2(3, 4)),
      Objection(Phrase(3), Plain2(2, 7))>>)

Recruitment == Template(
    Using(<<After(1, "first_name"), After(1, "product_name")>>, 4),
    <<Step(1, Using(<<After(3, "first_name")>>, 0), TRUE),
      Step(2, <<Sentence(<<After(2, "agent_name")>>, 0), Sentence(<<>>, 7), End>>, FALSE),
      Step(3, Plain(8), TRUE),
      Step(4, Plain2(1, 8), TRUE),
      Step(5, Plain(9), TRUE),
      Step(6, Plain2Using(1, 6, <<After(2, "first_name")>>, 0), FALSE)>>,
    <<Objection(Phrase(1), Plain2(4, 5)),
      Objection(Phrase(2), Plain2(3, 5)),
      Objection(Phrase(1), Plain2(5, 5))>>)

FinancialServices == Template(
    Using(<<After(1, "first_name"), After(1, "product_name")>>, 4),
    <<Step(1, Using(<<After(5, "first_name")>>, 0), TRUE),
      Step(2, Using(<<After(2, "agent_name"), After(2, "product_name")>>, 0), FALSE),
      Step(3, Plain(9), TRUE),
      Step(4, Plain(9), FALSE),
      Step(5, Plain(9), TRUE),
      Step(6, Plain2Using(2, 7, <<>>, 2), FALSE)>>,
    <<Objection(Phrase(1), Plain2(2, 8)),
      Objection(Phrase(2), Plain2(2, 5)),
      Objection(Phrase(3), Plain2(2, 8))>>)

Templates == {RealEstate, Recruitment, FinancialServices}
=============================================================================
