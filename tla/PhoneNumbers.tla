----------------------------- MODULE PhoneNumbers -----------------------------
(***************************************************************************)
(* Phone numbers (app/dialing_worker/phone_utils.py).  A string is the      *)
(* sequence of its characters, each a string of length one; "w" stands for  *)
(* the digits of other scripts, which \d matches as well.                   *)
(***************************************************************************)
EXTENDS Naturals, Sequences

Digits == {"0", "1", "2", "3", "4", "5", "6", "7", "8", "9"}
WideDigits == {"w"}
Blank == {" ", "\t", "\n"}
Formatting == Blank \cup {"-", "(", ")", "."}
Countries == {"US", "IN", "UK", "other"}    \* "other": any further country

\* Mutant: the pattern is not anchored at its end.
IsE164Prefix(s) ==
    /\ Len(s) >= 3 /\ s[1] = "+" /\ s[2] \in Digits \ {"0"}
    /\ s[3] \in Digits \cup WideDigits

\* ^\+[1-9]\d{1,14}$ , whose $ also matches before a line break at the end.
IsE164(s) ==
    LET end == IF s # <<>> /\ s[Len(s)] = "\n" THEN Len(s) - 1 ELSE Len(s)
    IN  /\ end \in 3..16
        /\ s[1] = "+" /\ s[2] \in Digits \ {"0"}
        /\ \A i \in 3..end : s[i] \in Digits \cup WideDigits

\* Formatting characters are removed, wherever they are.
Cleaned(s) ==
    LET clean[n \in 0..Len(s)] ==
            IF n = 0 THEN <<>>
            ELSE IF s[n] \in Formatting THEN clean[n - 1] ELSE Append(clean[n - 1], s[n])
    IN  clean[Len(s)]

CallingCode(country) ==
    IF country = "IN" THEN <<"9", "1">> ELSE IF country = "UK" THEN <<"4", "4">> ELSE <<"1">>

StartsWith(s, prefix) == Len(s) >= Len(prefix) /\ SubSeq(s, 1, Len(prefix)) = prefix

\* The trunk prefix of a national number of the UK.
National(s, country) ==
    IF country = "UK" /\ StartsWith(s, <<"0">>) THEN Tail(s) ELSE s

\* Mutant: any number that begins with the calling code has it.
HasCountryCodeAnyLength(s, country) ==
    country # "other" /\ StartsWith(s, CallingCode(country))

\* By the length the number would have.  A further country's code is taken to
\* be "1", and only a longer code is looked for: its numbers never have it.
HasCountryCode(s, country) ==
    \E form \in {[of |-> "US", length |-> 11], [of |-> "IN", length |-> 12],
                 [of |-> "UK", length |-> 10]} :
        form.of = country /\ form.length = Len(s) /\ StartsWith(s, CallingCode(country))

PhoneValidationError == <<>>

\* normalize_to_e164
Normalize(s, country) ==
    LET cleaned == Cleaned(s)
        national == National(cleaned, country)
        candidate == IF HasCountryCode(national, country) THEN <<"+">> \o national
                     ELSE <<"+">> \o CallingCode(country) \o national
    IN  IF IsE164(cleaned) THEN cleaned
        ELSE IF IsE164(candidate) THEN candidate ELSE PhoneValidationError
=============================================================================
