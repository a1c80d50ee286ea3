----------------------------- MODULE TextFunctions -----------------------------
(***************************************************************************)
(* The functions on texts: a query is an input of one of them, and its      *)
(* answer is what the function returns.  The inputs are made from constants:*)
(* national numbers, the places and characters with which they are written, *)
(* other texts, and prompts to render with their variables.                 *)
(***************************************************************************)
EXTENDS PhoneNumbers, PromptTemplates

CONSTANTS Numbers, Places, Gaps, StrangeTexts, TemplateQueries, Variables

(* What a stored template may be, and the value of a variable.              *)
Slot == [words : Nat, variable : Variables]
Text == Seq([slots : Seq(Slot), words : Nat, special : BOOLEAN, number : BOOLEAN]) \ {<<>>}

PromptTemplate ==
    [persona : [name : Text, tone : Text, pace : Text], objective : Text,
     flow : Seq([step : Nat, text : Text, wait_for_ack : BOOLEAN]),
     objections : Seq([trigger : Text, response : Text]), escape : Text]

Utterance == [words : Nat, special : BOOLEAN]
Line == Seq(Utterance) \ {<<>>}
Value == {v \in [line : Line, number : BOOLEAN] : Head(v.line).words > 0 /\ Last(v.line).words > 0}

\* The variables of the templates of the repository.
LeadNames == {"agent_name", "first_name", "product_name"}

ASSUME TextsAssumption ==
    /\ Numbers \subseteq Seq(Digits)
    /\ Places \subseteq Nat
    /\ Gaps \subseteq Seq(Formatting)
    /\ StrangeTexts \subseteq Seq(STRING)
    /\ LeadNames \subseteq Variables
    /\ \A q \in TemplateQueries :
          /\ q.kind = "template" /\ q.strict \in BOOLEAN
          /\ HasFields(q.data) => ToJsonb(q.data) \in PromptTemplate
          /\ \A v \in DOMAIN q.vars : q.vars[v] \in Value

VARIABLES query, answer

vars == <<query, answer>>

NoAnswer == [kind |-> "none"]

-----------------------------------------------------------------------------
(* A subscriber's number and a way to write it.                             *)
NationalNumbers(country) ==
    {number \in Numbers :
        /\ IF country = "UK" THEN 8 <= Len(number) /\ Len(number) <= 10 ELSE Len(number) = 10
        /\ number[1] # "0"}

Forms == {"national", "trunk", "international", "plus"}

\* Forms the function tells apart by length: a British number with its code
\* and no "+" is known only if it has eight digits without it, and one that
\* begins with 44 is taken to have the code.
Understood(country, number, form) ==
    /\ form = "trunk" => country = "UK"
    /\ (country = "UK" /\ form = "international") => Len(number) = 8
    /\ (country = "UK" /\ Len(number) = 10 /\ form \in {"national", "trunk"}) =>
           ~StartsWith(number, CallingCode("UK"))

\* The characters of the number in that form.
Digital(country, number, form) ==
    [national |-> number,
     trunk |-> <<"0">> \o number,
     international |-> CallingCode(country) \o number,
     plus |-> <<"+">> \o CallingCode(country) \o number][form]

\* Formatting characters at a place, and at the end.
Written(text, place, character, last) ==
    LET i == IF place > Len(text) THEN Len(text) ELSE place
    IN  SubSeq(text, 1, i) \o character \o SubSeq(text, i + 1, Len(text)) \o last

PhoneQueries ==
    {q \in [kind : {"phone"}, country : {"US", "IN", "UK"}, number : Numbers, form : Forms,
            place : Places, character : Gaps, last : Gaps] :
        /\ q.number \in NationalNumbers(q.country)
        /\ Understood(q.country, q.number, q.form)}

StrangeQueries == [kind : {"strange"}, country : Countries, number : StrangeTexts]

(* A template of the repository, for an agent and a product of up to three  *)
(* words and a first name of up to two, each with terminators and a digit at*)
(* its end or not; but an agent of several words does not end in a digit.   *)
Words(line) ==
    LET sum[i \in 0..Len(line)] == IF i = 0 THEN 0 ELSE sum[i - 1] + line[i].words
    IN  sum[Len(line)]

Names(n) ==
    {line \in UNION {[1..k -> {Spoken(w) : w \in 1..n}] : k \in 1..n} : Words(line) <= n}

LeadVars ==
    {values \in [LeadNames -> [line : Names(3), number : BOOLEAN]] :
        /\ values["first_name"].line \in Names(2)
        /\ values["agent_name"].number => values["agent_name"].line = <<Spoken(1)>>}

RepositoryQueries ==
    [kind : {"repository"}, data : {ToJsonb(t) : t \in Templates}, vars : LeadVars]

PromptQueries == RepositoryQueries \cup TemplateQueries

Strict(q) == q.kind = "template" => q.strict

TextOf(q) ==
    IF q.kind = "strange" THEN q.number
    ELSE Written(Digital(q.country, q.number, q.form), q.place, q.character, q.last)

\* The text has no digit of another script.
InOneScript(text) == \A i \in DOMAIN text : text[i] \notin WideDigits

-----------------------------------------------------------------------------
Init ==
    /\ query \in PhoneQueries \cup StrangeQueries \cup PromptQueries
    /\ answer = NoAnswer

AnswerNumber ==
    /\ query.kind \in {"phone", "strange"}
    /\ answer' = [kind |-> "number", number |-> Normalize(TextOf(query), query.country)]

AnswerPrompt ==
    /\ query.kind \in {"repository", "template"}
    /\ answer' = Render(query.data, query.vars, Strict(query))

Next == answer = NoAnswer /\ (AnswerNumber \/ AnswerPrompt) /\ UNCHANGED query

Spec == Init /\ [][Next]_vars

-----------------------------------------------------------------------------
\* However a number is written, with or without its calling code, trunk
\* prefix and formatting, it becomes the one number it is (but for the
\* British forms Understood leaves out).
FormsAgree ==
    (query.kind = "phone" /\ answer # NoAnswer) =>
        answer.number = <<"+">> \o CallingCode(query.country) \o query.number

\* What is returned for any text passes the worker's check as it stands, and
\* has nothing after the sign but digits: no formatting, and no line break at
\* its end, which the check would let through.  It is returned for itself,
\* whatever the country, and has the digits 0 to 9 if the text had no others.
\* (Digits of another script are kept: such a number passes the check, but
\* differs from the same number in the registry written with 0 to 9.)
NormalizedIsDialable ==
    answer.kind = "number" =>
        LET n == answer.number
        IN  \/ n = PhoneValidationError
            \/ /\ IsE164(n) /\ Len(n) <= 16
               /\ \A i \in 2..Len(n) : n[i] \in Digits \cup WideDigits
               /\ InOneScript(TextOf(query)) => InOneScript(n)
               /\ \A country \in Countries : Normalize(n, country) = n

(* No sentence of the line is too long, or has special characters, with     *)
(* words before the first and after the last on the same line.              *)
Fits(line, before, after) ==
    \A i \in DOMAIN line :
        /\ line[i].words + (IF i = 1 THEN before ELSE 0) + (IF i = Len(line) THEN after ELSE 0)
              <= MaxWords
        /\ ~line[i].special

\* The texts of an objection share a sentence, and a quote is a word where
\* the trigger ends in a terminator.
ObjectionFits(trigger, response) ==
    LET quoted == Last(trigger).words
        shared == (IF quoted = 0 THEN 1 ELSE quoted) + (IF Len(trigger) = 1 THEN 4 ELSE 0)
    IN  Fits(trigger, 4, 0) /\ Fits(response, shared, 0)

\* The two texts of the tone's line share a sentence if the first of them
\* ends in a digit.
ToneFits(tone, pace, digit) ==
    LET shared == Last(tone).words + (IF Len(tone) = 1 THEN 1 ELSE 0)
    IN  Fits(tone, 1, 0) /\ Fits(pace, 1 + (IF digit THEN shared ELSE 0), 0)

\* A stored template that lacks a field, or a lead that lacks a variable, is
\* a KeyError, never a prompt with a hole in it.
\* In strict mode a prompt is rejected exactly when one of its texts, with
\* the values in it, has a special character or is too long for its place: a
\* sentence may have twelve words, but the first of an objective eleven, that
\* of a step ten, a persona's name five, and what is said before a step's
\* acknowledgement three fewer; a trigger and the reply's first sentence
\* share eight, and tone and pace ten if the tone ends in a digit.
StrictRenderExactly ==
    (query \in PromptQueries /\ answer # NoAnswer) =>
        LET t == query.data
            Fit(text, before, after) == Fits(Sub(text, query.vars), before, after)
            whole == HasFields(t) /\ Used(t) \subseteq DOMAIN query.vars
            fine == /\ Fit(t.persona.name, 2, 5)
                    /\ ToneFits(Literal(t.persona.tone), Literal(t.persona.pace),
                                LiteralDigit(t.persona.tone))
                    /\ Fit(t.objective, 1, 0) /\ Fit(t.escape, 6, 0)
                    /\ \A i \in DOMAIN t.flow :
                          Fit(t.flow[i].text, 2, IF t.flow[i].wait_for_ack THEN 3 ELSE 0)
                    /\ \A i \in DOMAIN t.objections :
                          ObjectionFits(Sub(t.objections[i].trigger, query.vars),
                                        Sub(t.objections[i].response, query.vars))
        IN  answer.kind = IF ~whole THEN "KeyError"
                          ELSE IF Strict(query) => fine THEN "text" ELSE "ValueError"

\* The three templates of the repository are rendered and pass the check for
\* every agent and product of up to three words and every first name of up
\* to two, wherever their terminators make sentences end or a digit keeps
\* one from ending: the tests try one lead.  (An agent "Team 7" is left out:
\* the sentences of a step of the recruiter's are then one, too long.)
RepositoryTemplatesValid ==
    (query.kind = "repository" /\ answer # NoAnswer) => answer.kind = "text"

=============================================================================
