-------------------------- MODULE ConversationPrompts --------------------------
(***************************************************************************)
(* Conversation prompts (app/conversation_prompts): a template is stored as *)
(* JSON, rendered with the variables of a lead and checked for sentences    *)
(* too long to be spoken.  Of a text only what the check counts is kept.    *)
(*                                                                         *)
(* The check splits a line at every terminator (.!?) with no digit on       *)
(* either side.  A text of a template is here the sequence of its stretches *)
(* between terminators, so that one that ends in a terminator has an empty  *)
(* stretch at its end; a stretch is its slots (words, then a variable), the *)
(* words after them, whether it holds special characters, and whether its   *)
(* last character is a digit: then the terminator after it splits nothing.  *)
(* A value is one line of text, split in the same way, and whether it ends  *)
(* in a digit: next to a terminator of the template that matters as well.   *)
(*                                                                         *)
(* What texts are covered: a terminator inside a word, with a digit before  *)
(* or after it, is part of the word; after any other one there is a blank,  *)
(* another terminator or nothing if a variable or a digit is before it; a   *)
(* variable stands for words of its own, with at most a comma or a          *)
(* terminator after it; no text begins or ends with a blank, and a value    *)
(* begins and ends with a letter or a digit; no text or value has a line    *)
(* break in it, so that every line starts with one of the renderer's own    *)
(* prefixes, and no_bullets finds nothing.                                  *)
(***************************************************************************)
EXTENDS Naturals, Sequences, FiniteSets, SequencesExt

MaxWords == 12

\* A stretch of a template's text: words and a variable, and words after them.
After(words, variable) == [words |-> words, variable |-> variable]
Sentence(slots, words) == [slots |-> slots, words |-> words, special |-> FALSE, number |-> FALSE]

\* The fields to_jsonb writes, which are those from_jsonb asks for.
Fields == {"persona", "objective", "flow", "objections", "escape"}
PersonaFields == {"name", "tone", "pace"}
StepFields == {"step", "text", "wait_for_ack"}
ObjectionFields == {"trigger", "response"}

ToJsonb(template) ==
    LET p == template.persona
    IN  [persona |-> [name |-> p.name, tone |-> p.tone, pace |-> p.pace],
         objective |-> template.objective,
         flow |-> [i \in DOMAIN template.flow |->
                      LET s == template.flow[i]
                      IN  [step |-> s.step, text |-> s.text, wait_for_ack |-> s.wait_for_ack]],
         objections |-> [i \in DOMAIN template.objections |->
                            LET o == template.objections[i]
                            IN  [trigger |-> o.trigger, response |-> o.response]],
         escape |-> template.escape]

\* from_jsonb raises KeyError unless every field is there; others are dropped.
HasFields(data) ==
    /\ Fields \subseteq DOMAIN data
    /\ PersonaFields \subseteq DOMAIN data.persona
    /\ \A i \in DOMAIN data.flow : StepFields \subseteq DOMAIN data.flow[i]
    /\ \A i \in DOMAIN data.objections : ObjectionFields \subseteq DOMAIN data.objections[i]

FromJsonb(data) == ToJsonb(data)

-----------------------------------------------------------------------------
(* A rendered line is the sequence of its sentences.                        *)
Spoken(words) == [words |-> words, special |-> FALSE]

\* Text after text on one line: the sentence they meet in is one.
Join(left, right) ==
    Front(left)
    \o <<[words |-> Last(left).words + Head(right).words,
          special |-> Last(left).special \/ Head(right).special]>>
    \o Tail(right)

\* Text after a terminator, which splits nothing if a digit is before it.
Follow(left, digit, right) == IF digit THEN Join(left, right) ELSE left \o right

\* text.format_map(lead_vars), for a stretch: the values stand in their slots.
Said(stretch, vars) ==
    LET said[i \in 0..Len(stretch.slots)] ==
            IF i = 0 THEN <<Spoken(0)>>
            ELSE Join(Join(said[i - 1], <<Spoken(stretch.slots[i].words)>>),
                      vars[stretch.slots[i].variable].line)
    IN  Join(said[Len(stretch.slots)], <<[words |-> stretch.words, special |-> stretch.special]>>)

EndsInDigit(stretch, vars) ==
    IF stretch.words = 0 /\ stretch.slots # <<>> THEN vars[Last(stretch.slots).variable].number
    ELSE stretch.number

Sub(text, vars) ==
    LET line[i \in 1..Len(text)] ==
            IF i = 1 THEN Said(text[1], vars)
            ELSE Follow(line[i - 1], EndsInDigit(text[i - 1], vars), Said(text[i], vars))
    IN  line[Len(text)]

Named(text) == UNION {{slot.variable : slot \in Range(text[i].slots)} : i \in DOMAIN text}

\* tone and pace are not substituted: a variable stays one word in braces.
Braces(text) == [v \in Named(text) |-> [line |-> <<Spoken(1)>>, number |-> FALSE]]
Literal(text) == Sub(text, Braces(text))
LiteralDigit(text) == EndsInDigit(Last(text), Braces(text))

\* A comma or a quote next to an empty sentence is a word of its own.
Marked(sentence) == [sentence EXCEPT !.words = IF @ = 0 THEN 1 ELSE @]
OpenedBy(line) == <<Marked(Head(line))>> \o Tail(line)
ClosedBy(line) == Front(line) \o <<Marked(Last(line))>>

\* You are {name}, a friendly junior operations assistant.
PersonaLine(t, vars) ==
    Join(Join(<<Spoken(2)>>, ClosedBy(Sub(t.persona.name, vars))), <<Spoken(5), Spoken(0)>>)

\* Tone: {tone}. Pace: {pace}.
ToneLine(t) ==
    LET p == t.persona
        toned == Join(<<Spoken(1)>>, Literal(p.tone))
        paced == Join(<<Spoken(1)>>, Literal(p.pace))
    IN  Follow(Follow(toned, LiteralDigit(p.tone), paced), LiteralDigit(p.pace), <<Spoken(0)>>)

\* Mutant: the acknowledgement is put on a line of its own.
StepLineWithoutAck(step, vars) == Join(<<Spoken(2)>>, Sub(step.text, vars))

\* Step {n}: {text} (Wait for response.)
StepLine(step, vars) ==
    LET line == Join(<<Spoken(2)>>, Sub(step.text, vars))
    IN  IF step.wait_for_ack THEN Join(line, <<Spoken(3), Spoken(1)>>) ELSE line

\* If the person says "{trigger}": {response}
ObjectionLine(objection, vars) ==
    LET quoted == OpenedBy(ClosedBy(Sub(objection.trigger, vars)))
    IN  Join(Join(<<Spoken(4)>>, quoted), Sub(objection.response, vars))

\* The blank lines are left out.
Lines(t, vars) ==
    <<PersonaLine(t, vars), ToneLine(t), Join(<<Spoken(1)>>, Sub(t.objective, vars)),
      <<Spoken(2)>>>>
    \o [i \in DOMAIN t.flow |-> StepLine(t.flow[i], vars)]
    \o (IF t.objections = <<>> THEN <<>> ELSE <<<<Spoken(2)>>>>)
    \o [i \in DOMAIN t.objections |-> ObjectionLine(t.objections[i], vars)]
    \o <<Join(<<Spoken(6)>>, Sub(t.escape, vars))>>

\* The variables render asks for: a missing one is a KeyError.
Used(t) ==
    LET texts == {t.persona.name, t.objective, t.escape}
                 \cup {t.flow[i].text : i \in DOMAIN t.flow}
                 \cup UNION {{t.objections[i].trigger, t.objections[i].response} :
                                 i \in DOMAIN t.objections}
    IN  UNION {Named(text) : text \in texts}

\* Mutant: a sentence of the greatest length is too long.
TooLongFromMax(line) == \E i \in DOMAIN line : line[i].words >= MaxWords

\* sentence_length
TooLong(line) == \E i \in DOMAIN line : line[i].words > MaxWords

\* ConstraintValidator.check finds an error.
Violates(lines) ==
    \E l \in DOMAIN lines :
        TooLong(lines[l]) \/ \E i \in DOMAIN lines[l] : lines[l][i].special

\* PromptRenderer.render: the kind of its outcome, and the lines.
Render(data, vars, strict) ==
    IF ~HasFields(data) THEN [kind |-> "KeyError", lines |-> <<>>]
    ELSE LET t == FromJsonb(data)
         IN  IF ~(Used(t) \subseteq DOMAIN vars) THEN [kind |-> "KeyError", lines |-> <<>>]
             ELSE IF strict /\ Violates(Lines(t, vars)) THEN [kind |-> "ValueError", lines |-> <<>>]
             ELSE [kind |-> "text", lines |-> Lines(t, vars)]
=============================================================================
