-------------------------- MODULE TextFunctionsProofs --------------------------
(***************************************************************************)
(* What normalize_to_e164 returns, for texts of any length over any         *)
(* characters: a number that is dialable and returned for itself, or no     *)
(* number; and one number for every spelling of it.  And what render does   *)
(* with any template: its lines fit the limit exactly when its texts fit    *)
(* their places (JoinFits), and those of the repository's templates do.     *)
(* Cleaned, Said and Sub are recursive functions on a length, so what they *)
(* compute is proved by induction on the naturals, as a set that contains 0 *)
(* and successors.                                                          *)
(***************************************************************************)
EXTENDS TextFunctions, SequenceTheorems, WellFoundedInduction, TLAPS

\* A set of naturals has a least member.
LEMMA LeastOfNat == ASSUME NEW T, T \subseteq Nat, T # {} PROVE \E x \in T : \A y \in T : ~(y < x)
<1>1. \A x, y \in Nat : y < x => <<y, x>> \in OpToRel(<, Nat)
  BY DEF OpToRel
<1>2. \E x \in T : \A y \in T : ~(<<y, x>> \in OpToRel(<, Nat))
  BY NatLessThanWellFounded, WFMin
<1> QED BY <1>1, <1>2

\* Induction, for a set T.
LEMMA AllNat ==
    ASSUME NEW T, 0 \in T, \A n \in Nat : n \in T => n + 1 \in T
    PROVE  Nat \subseteq T
<1> SUFFICES ASSUME Nat \ T # {} PROVE FALSE
  OBVIOUS
<1>1. PICK n \in Nat \ T : \A m \in Nat \ T : ~(m < n)
  BY LeastOfNat
<1>2. n # 0 /\ n - 1 \in Nat
  OBVIOUS
<1>3. n - 1 \in T
  BY <1>1, <1>2
<1>4. n - 1 + 1 = n
  OBVIOUS
<1> QED BY <1>2, <1>3, <1>4

\* clean is the function that Cleaned defines, up to n.
Cleans(clean, s, n) ==
    clean = [k \in 0..n |->
        IF k = 0 THEN <<>>
        ELSE IF s[k] \in Formatting THEN clean[k - 1] ELSE Append(clean[k - 1], s[k])]

\* There is such a function, so Cleaned is what the definition says.
LEMMA CleansExists == ASSUME NEW s, NEW n \in Nat PROVE \E clean : Cleans(clean, s, n)
<1> DEFINE T == {m \in Nat : \E clean : Cleans(clean, s, m)}
<1>1. 0 \in T
  <2> DEFINE c == [k \in 0..0 |-> <<>>]
  <2>1. Cleans(c, s, 0)
    BY DEF Cleans
  <2> QED BY <2>1
<1>2. ASSUME NEW m \in Nat, m \in T PROVE m + 1 \in T
  <2>1. PICK c : Cleans(c, s, m)
    BY <1>2
  <2> DEFINE next == IF s[m + 1] \in Formatting THEN c[m] ELSE Append(c[m], s[m + 1])
             d == [k \in 0..(m + 1) |-> IF k = m + 1 THEN next ELSE c[k]]
  <2>2. ASSUME NEW k \in 0..(m + 1)
        PROVE  d[k] = IF k = 0 THEN <<>>
                      ELSE IF s[k] \in Formatting THEN d[k - 1] ELSE Append(d[k - 1], s[k])
    <3>1. CASE k = m + 1
      BY <3>1
    <3>2. CASE k # m + 1
      <4>1. k \in 0..m /\ (k = 0 \/ k - 1 \in 0..m) /\ k - 1 # m + 1
        BY <3>2
      <4>2. d[k] = c[k] /\ (k # 0 => d[k - 1] = c[k - 1])
        BY <4>1, <3>2
      <4>3. c[k] = IF k = 0 THEN <<>>
                   ELSE IF s[k] \in Formatting THEN c[k - 1] ELSE Append(c[k - 1], s[k])
        <5> HIDE DEF d, next
        <5> QED BY <4>1, <2>1 DEF Cleans
      <4> HIDE DEF d, next
      <4> QED BY <4>2, <4>3
    <3> QED BY <3>1, <3>2
  <2>3. Cleans(d, s, m + 1)
    BY <2>2 DEF Cleans
  <2> QED BY <2>3
<1> QED BY <1>1, <1>2, AllNat

\* Cleaned is the last value of such a function.
LEMMA CleanedCleans ==
    ASSUME NEW s, Len(s) \in Nat
    PROVE  \E clean : Cleans(clean, s, Len(s)) /\ Cleaned(s) = clean[Len(s)]
<1> DEFINE f == CHOOSE clean : Cleans(clean, s, Len(s))
<1>1. Cleans(f, s, Len(s))
  BY CleansExists
<1>2. Cleaned(s) = f[Len(s)]
  BY DEF Cleaned, Cleans
<1> QED BY <1>1, <1>2

\* Induction up to n.
LEMMA UpTo ==
    ASSUME NEW n \in Nat, NEW T, 0 \in T, \A k \in 0..(n - 1) : k \in T => k + 1 \in T
    PROVE  0..n \subseteq T
<1> DEFINE U == {k \in Nat : k <= n => k \in T}
<1>1. 0 \in U
  OBVIOUS
<1>2. ASSUME NEW k \in Nat, k \in U PROVE k + 1 \in U
  BY <1>2
<1>3. Nat \subseteq U
  <2> HIDE DEF U
  <2> QED BY <1>1, <1>2, AllNat
<1> QED BY <1>3

\* Each character is kept or left out.
LEMMA CleanStep ==
    ASSUME NEW s, NEW n \in Nat, NEW clean, Cleans(clean, s, n)
    PROVE  /\ clean[0] = <<>>
           /\ \A k \in 0..(n - 1) :
                  clean[k + 1] = IF s[k + 1] \in Formatting THEN clean[k]
                                 ELSE Append(clean[k], s[k + 1])
<1>1. ASSUME NEW k \in 0..n
      PROVE  clean[k] = IF k = 0 THEN <<>>
                        ELSE IF s[k] \in Formatting THEN clean[k - 1] ELSE Append(clean[k - 1], s[k])
  BY DEF Cleans
<1>2. ASSUME NEW k \in 0..(n - 1) PROVE k + 1 \in 0..n /\ k + 1 # 0 /\ k + 1 - 1 = k
  OBVIOUS
<1> QED BY <1>1, <1>2

\* clean holds what is left of each prefix of s.
Leaves(clean, s) ==
    /\ Cleaned(s) = clean[Len(s)]
    /\ clean[0] = <<>>
    /\ \A k \in 0..(Len(s) - 1) :
          clean[k + 1] = IF s[k + 1] \in Formatting THEN clean[k] ELSE Append(clean[k], s[k + 1])

\* A text has such a function.
LEMMA SomeLeaves == ASSUME NEW S, NEW s \in Seq(S) PROVE \E clean : Leaves(clean, s)
<1>1. Len(s) \in Nat
  OBVIOUS
<1>2. PICK clean : Cleans(clean, s, Len(s)) /\ Cleaned(s) = clean[Len(s)]
  BY <1>1, CleanedCleans
<1>3. Leaves(clean, s)
  BY <1>1, <1>2, CleanStep DEF Leaves
<1> QED BY <1>3

\* What is left of a text has no formatting in it.
LEMMA CleanedType ==
    ASSUME NEW S, NEW s \in Seq(S)
    PROVE  Cleaned(s) \in Seq(S \ Formatting)
<1> DEFINE P == S \ Formatting
<1>1. PICK clean : Leaves(clean, s)
  BY SomeLeaves
<1>2. \A k \in 0..(Len(s) - 1) : s[k + 1] \in Formatting \/ s[k + 1] \in P
  OBVIOUS
<1> HIDE DEF P
<1> DEFINE T == {k \in 0..Len(s) : clean[k] \in Seq(P)}
<1>3. 0 \in T
  <2>1. 0 \in 0..Len(s)
    OBVIOUS
  <2>2. <<>> \in Seq(P)
    BY EmptySeq
  <2>3. clean[0] = <<>>
    BY <1>1 DEF Leaves
  <2> QED BY <2>1, <2>2, <2>3
<1>4. ASSUME NEW k \in 0..(Len(s) - 1), k \in T PROVE k + 1 \in T
  <2>1. k + 1 \in 0..Len(s) /\ clean[k] \in Seq(P)
    BY <1>4
  <2>2. CASE s[k + 1] \in Formatting
    BY <1>1, <2>1, <2>2 DEF Leaves
  <2>3. CASE s[k + 1] \notin Formatting
    <3>1. s[k + 1] \in P
      BY <1>2, <2>3
    <3>2. clean[k + 1] = Append(clean[k], s[k + 1])
      BY <1>1, <2>3 DEF Leaves
    <3>3. \A u \in Seq(P) : \A x \in P : Append(u, x) \in Seq(P)
      BY AppendProperties
    <3> QED BY <2>1, <3>1, <3>2, <3>3
  <2> QED BY <2>2, <2>3
<1>5. Len(s) \in Nat
  OBVIOUS
<1>6. 0..Len(s) \subseteq T
  <2> HIDE DEF T
  <2> QED BY <1>3, <1>4, <1>5, UpTo
<1>7. Cleaned(s) \in Seq(P)
  BY <1>1, <1>5, <1>6 DEF Leaves
<1> QED BY <1>7 DEF P

\* A text without formatting is left as it is.
LEMMA CleanedAlready ==
    ASSUME NEW P, P \cap Formatting = {}, NEW s \in Seq(P)
    PROVE  Cleaned(s) = s
<1>1. PICK clean : Leaves(clean, s)
  BY SomeLeaves
<1>2. \A k \in 0..(Len(s) - 1) : s[k + 1] \in P
  OBVIOUS
<1> DEFINE T == {k \in 0..Len(s) : clean[k] = SubSeq(s, 1, k)}
<1>3. 0 \in T
  <2>1. SubSeq(s, 1, 0) = <<>> /\ 0 \in 0..Len(s)
    BY SubSeqEmpty, LenProperties
  <2> QED BY <1>1, <2>1 DEF Leaves
<1>4. ASSUME NEW k \in 0..(Len(s) - 1), k \in T PROVE k + 1 \in T
  <2>1. k + 1 \in 0..Len(s) /\ clean[k] = SubSeq(s, 1, k)
    BY <1>4
  <2>2. SubSeq(s, 1, k + 1) = Append(SubSeq(s, 1, k), s[k + 1])
    OBVIOUS
  <2>3. clean[k + 1] = Append(clean[k], s[k + 1])
    BY <1>1, <1>2 DEF Leaves
  <2> QED BY <2>1, <2>2, <2>3
<1>5. Len(s) \in Nat
  OBVIOUS
<1>6. 0..Len(s) \subseteq T
  <2> HIDE DEF T
  <2> QED BY <1>3, <1>4, <1>5, UpTo
<1>7. SubSeq(s, 1, Len(s)) = s
  BY SubSeqFull
<1>8. Len(s) \in T
  BY <1>5, <1>6
<1> QED BY <1>1, <1>7, <1>8 DEF Leaves

(* Concatenation as an operator that is expanded only where it is cited.    *)
Joined(u, v) == u \o v

\* A character appended to the second part is appended to the whole.
LEMMA JoinedAppend ==
    ASSUME NEW S, NEW u \in Seq(S), NEW v \in Seq(S), NEW x \in S
    PROVE  Append(Joined(u, v), x) = Joined(u, Append(v, x))
<1> DEFINE l == Append(u \o v, x)
           r == u \o Append(v, x)
<1>1. /\ Len(u) \in Nat /\ Len(v) \in Nat /\ u \o v \in Seq(S) /\ Append(v, x) \in Seq(S)
      /\ Len(u \o v) = Len(u) + Len(v) /\ Len(Append(v, x)) = Len(v) + 1
  BY ConcatProperties, AppendProperties
<1>2. /\ l \in Seq(S) /\ r \in Seq(S) /\ Len(l) = Len(u) + Len(v) + 1 /\ Len(r) = Len(l)
  BY <1>1, ConcatProperties, AppendProperties
<1>3. ASSUME NEW i \in 1..Len(l) PROVE l[i] = r[i]
  <2>1. CASE i <= Len(u)
    BY <1>1, <1>2, <2>1
  <2>2. CASE Len(u) < i /\ i <= Len(u) + Len(v)
    BY <1>1, <1>2, <2>2
  <2>3. CASE i = Len(u) + Len(v) + 1
    BY <1>1, <1>2, <2>3
  <2> QED BY <1>1, <1>2, <2>1, <2>2, <2>3
<1> HIDE DEF l, r
<1>4. l = r
  BY <1>2, <1>3, SeqEqual
<1> QED BY <1>4 DEF l, r, Joined

\* A text can be cleaned in parts.
LEMMA CleanedConcat ==
    ASSUME NEW S, NEW a \in Seq(S), NEW b \in Seq(S)
    PROVE  Cleaned(a \o b) = Cleaned(a) \o Cleaned(b)
<1> DEFINE s == a \o b
<1>1. PICK c : Leaves(c, s)
  <2>1. s \in Seq(S)
    OBVIOUS
  <2> HIDE DEF s
  <2> QED BY <2>1, SomeLeaves
<1>2. PICK d : Leaves(d, a)
  BY SomeLeaves
<1>3. PICK e : Leaves(e, b)
  BY SomeLeaves
<1>4. Len(a) \in Nat /\ Len(b) \in Nat /\ Len(s) = Len(a) + Len(b)
  OBVIOUS
<1>5. \A k \in 0..(Len(a) - 1) : s[k + 1] = a[k + 1]
  OBVIOUS
<1>6. \A k \in 0..(Len(b) - 1) : s[Len(a) + k + 1] = b[k + 1] /\ b[k + 1] \in S
  OBVIOUS
<1> HIDE DEF s
<1> DEFINE T == {k \in 0..Len(a) : c[k] = d[k]}
<1>7. ASSUME NEW k \in 0..(Len(a) - 1), k \in T PROVE k + 1 \in T
  <2>1. k \in 0..(Len(s) - 1) /\ k + 1 \in 0..Len(a) /\ c[k] = d[k]
    BY <1>4, <1>7
  <2> QED BY <1>1, <1>2, <1>5, <2>1 DEF Leaves
<1>8. 0..Len(a) \subseteq T
  <2>1. 0 \in T
    BY <1>1, <1>2, <1>4 DEF Leaves
  <2> HIDE DEF T
  <2> QED BY <1>4, <1>7, <2>1, UpTo
<1>9. Cleaned(a) \in Seq(S)
  <2>1. Cleaned(a) \in Seq(S \ Formatting)
    BY CleanedType
  <2> QED BY <2>1
<1>10. c[Len(a)] = Cleaned(a)
  BY <1>2, <1>4, <1>8 DEF Leaves
<1> DEFINE U == {k \in 0..Len(b) : e[k] \in Seq(S) /\ c[Len(a) + k] = Joined(Cleaned(a), e[k])}
<1>11. 0 \in U
  <2>1. e[0] = <<>> /\ Len(a) + 0 = Len(a) /\ 0 \in 0..Len(b)
    BY <1>3, <1>4 DEF Leaves
  <2>2. Cleaned(a) \o <<>> = Cleaned(a) /\ <<>> \in Seq(S)
    BY <1>9
  <2> QED BY <1>10, <2>1, <2>2 DEF Joined
<1>12. ASSUME NEW k \in 0..(Len(b) - 1), k \in U PROVE k + 1 \in U
  <2> DEFINE j == Len(a) + k
  <2>1. /\ j \in 0..(Len(s) - 1) /\ j + 1 = Len(a) + (k + 1) /\ k + 1 \in 0..Len(b)
        /\ e[k] \in Seq(S) /\ c[j] = Joined(Cleaned(a), e[k])
    BY <1>4, <1>12
  <2>2. s[j + 1] = b[k + 1] /\ b[k + 1] \in S
    BY <1>6
  <2> HIDE DEF j
  <2>4. CASE b[k + 1] \in Formatting
    <3>1. e[k + 1] = e[k] /\ c[j + 1] = c[j]
      BY <1>1, <1>3, <2>1, <2>2, <2>4 DEF Leaves
    <3> QED BY <2>1, <3>1
  <2>5. CASE b[k + 1] \notin Formatting
    <3>1. e[k + 1] = Append(e[k], b[k + 1]) /\ c[j + 1] = Append(c[j], b[k + 1])
      BY <1>1, <1>3, <2>1, <2>2, <2>5 DEF Leaves
    <3>2. Append(c[j], b[k + 1]) = Joined(Cleaned(a), Append(e[k], b[k + 1]))
      <4>1. Append(Joined(Cleaned(a), e[k]), b[k + 1]) = Joined(Cleaned(a), Append(e[k], b[k + 1]))
        <5>1. e[k] \in Seq(S) /\ b[k + 1] \in S
          BY <2>1, <2>2
        <5>2. \A u \in Seq(S) : \A v \in Seq(S) : \A x \in S :
                 Append(Joined(u, v), x) = Joined(u, Append(v, x))
          BY JoinedAppend
        <5> QED BY <1>9, <5>1, <5>2
      <4> QED BY <2>1, <4>1
    <3>3. Append(e[k], b[k + 1]) \in Seq(S)
      BY <2>1, <2>2
    <3> QED BY <2>1, <3>1, <3>2, <3>3
  <2> QED BY <2>4, <2>5
<1>13. 0..Len(b) \subseteq U
  <2> HIDE DEF U
  <2> QED BY <1>4, <1>11, <1>12, UpTo
<1>14. c[Len(a) + Len(b)] = Joined(Cleaned(a), e[Len(b)])
  <2>1. Len(b) \in 0..Len(b)
    BY <1>4
  <2>2. Len(b) \in U
    BY <1>13, <2>1
  <2> QED BY <2>2
<1> QED BY <1>1, <1>3, <1>4, <1>14 DEF Leaves, Joined, s

\* Of formatting nothing is left.
LEMMA CleanedGap ==
    ASSUME NEW s \in Seq(Formatting)
    PROVE  Cleaned(s) = <<>>
<1>1. Cleaned(s) \in Seq(Formatting \ Formatting)
  BY CleanedType
<1>2. \A t \in Seq({}) : t = <<>>
  OBVIOUS
<1> QED BY <1>1, <1>2

\* Where formatting stands in a text, and how much of it, makes no difference.
LEMMA CleanedWritten ==
    ASSUME NEW P, P \cap Formatting = {}, NEW text \in Seq(P), NEW place \in Nat,
           NEW character \in Seq(Formatting), NEW last \in Seq(Formatting)
    PROVE  Cleaned(Written(text, place, character, last)) = text
<1> DEFINE i == IF place > Len(text) THEN Len(text) ELSE place
           left == SubSeq(text, 1, i)
           right == SubSeq(text, i + 1, Len(text))
           S == P \cup Formatting
<1>1. Len(text) \in Nat /\ i \in 0..Len(text)
  OBVIOUS
<1>2. left \in Seq(P) /\ right \in Seq(P)
  OBVIOUS
<1>3. left \o right = text
  <2>1. SubSeq(text, 1, Len(text)) = text
    BY SubSeqFull
  <2>2. 1 \in 1..(Len(text) + 1) /\ i \in (1 - 1)..Len(text) /\ Len(text) \in i..Len(text)
    BY <1>1
  <2> HIDE DEF i
  <2>3. SubSeq(text, 1, i) \o SubSeq(text, i + 1, Len(text)) = SubSeq(text, 1, Len(text))
    BY <2>2, ConcatAdjacentSubSeq, Zenon
  <2> QED BY <2>1, <2>3
<1>4. Written(text, place, character, last) = left \o character \o right \o last
  BY DEF Written
<1> HIDE DEF left, right
<1>5. Cleaned(left) = left /\ Cleaned(right) = right /\ Cleaned(character) = <<>> /\ Cleaned(last) = <<>>
  BY <1>2, CleanedAlready, CleanedGap
<1>6. /\ left \in Seq(S) /\ right \in Seq(S) /\ character \in Seq(S) /\ last \in Seq(S)
  BY <1>2, SeqMonotonic
<1> HIDE DEF S
<1>7. /\ left \o character \in Seq(S) /\ left \o character \o right \in Seq(S)
  BY <1>6
<1>8. Cleaned(left \o character \o right \o last)
        = Cleaned(left) \o Cleaned(character) \o Cleaned(right) \o Cleaned(last)
  <2>1. \A p, q \in Seq(S) : Cleaned(p \o q) = Cleaned(p) \o Cleaned(q)
    BY CleanedConcat
  <2>2. Cleaned(left \o character) = Cleaned(left) \o Cleaned(character)
    BY <1>6, <2>1, Zenon
  <2>3. Cleaned(left \o character \o right) = Cleaned(left \o character) \o Cleaned(right)
    BY <1>6, <1>7, <2>1, Zenon
  <2>4. Cleaned(left \o character \o right \o last)
          = Cleaned(left \o character \o right) \o Cleaned(last)
    BY <1>6, <1>7, <2>1, Zenon
  <2> QED BY <2>2, <2>3, <2>4, Zenon
<1>9. left \o <<>> = left /\ text \o <<>> = text
  BY <1>2, ConcatEmptySeq
<1> QED BY <1>3, <1>4, <1>5, <1>8, <1>9

-----------------------------------------------------------------------------
\* A dialable text without formatting is returned for itself, and has only
\* digits after its sign.
LEMMA DialableStays ==
    ASSUME NEW P, P \cap Formatting = {}, NEW n \in Seq(P), IsE164(n)
    PROVE  /\ Len(n) <= 16 /\ \A i \in 2..Len(n) : n[i] \in Digits \cup WideDigits
           /\ \A country \in Countries : Normalize(n, country) = n
<1>1. Len(n) \in Nat /\ (n # <<>> => n[Len(n)] \in P)
  OBVIOUS
<1>2. Len(n) <= 16
  <2>1. n # <<>> => n[Len(n)] # "\n"
    BY <1>1 DEF Formatting, Blank
  <2>2. n = <<>> => Len(n) = 0
    OBVIOUS
  <2>3. n # <<>> => Len(n) \in 3..16
    BY <2>1 DEF IsE164
  <2> QED BY <1>1, <2>2, <2>3
<1>3. Cleaned(n) = n
  BY CleanedAlready
<1>4. ASSUME NEW i \in 2..Len(n) PROVE n[i] \in Digits \cup WideDigits
  <2>0. n # <<>>
    <3>1. n = <<>> => Len(n) = 0
      OBVIOUS
    <3> QED BY <1>4, <3>1
  <2>1. n # <<>> /\ n[Len(n)] # "\n"
    BY <1>1, <2>0 DEF Formatting, Blank
  <2>2. n[2] \in Digits /\ \A k \in 3..Len(n) : n[k] \in Digits \cup WideDigits
    BY <2>1 DEF IsE164
  <2>3. i = 2 \/ i \in 3..Len(n)
    BY <1>1
  <2> QED BY <2>2, <2>3
<1>5. \A country \in Countries : Normalize(n, country) = n
  BY <1>3 DEF Normalize
<1> QED BY <1>2, <1>4, <1>5

\* What normalize_to_e164 tries after a text that is not dialable as it is.
Candidate(cleaned, country) ==
    LET national == National(cleaned, country)
    IN  IF HasCountryCode(national, country) THEN <<"+">> \o national
        ELSE <<"+">> \o CallingCode(country) \o national

\* What is tried has no formatting either.
LEMMA CandidateType ==
    ASSUME NEW P, {"+", "1", "4", "9"} \subseteq P, NEW cleaned \in Seq(P), NEW country
    PROVE  Candidate(cleaned, country) \in Seq(P)
<1> DEFINE national == National(cleaned, country)
<1>3. national \in Seq(P)
  <2>1. CASE StartsWith(cleaned, <<"0">>)
    <3>1. cleaned # <<>>
      BY <2>1 DEF StartsWith
    <3>2. Tail(cleaned) \in Seq(P)
      BY <3>1, HeadTailProperties
    <3> QED BY <3>2 DEF National
  <2> QED BY <2>1 DEF National
<1>4. CallingCode(country) \in Seq(P) /\ <<"+">> \in Seq(P)
  <2>1. \/ CallingCode(country) = <<"9", "1">> \/ CallingCode(country) = <<"4", "4">>
        \/ CallingCode(country) = <<"1">>
    BY DEF CallingCode
  <2>2. /\ <<"9", "1">> \in Seq(P) /\ <<"4", "4">> \in Seq(P)
        /\ <<"1">> \in Seq(P) /\ <<"+">> \in Seq(P)
    OBVIOUS
  <2> QED BY <2>1, <2>2
<1> HIDE DEF national
<1>5. /\ <<"+">> \o national \in Seq(P)
      /\ <<"+">> \o CallingCode(country) \o national \in Seq(P)
  BY <1>3, <1>4, ConcatProperties
<1> QED BY <1>5 DEF Candidate, national

\* normalize_to_e164 by its cases.
LEMMA NormalizeIs ==
    ASSUME NEW s, NEW country
    PROVE  Normalize(s, country) =
               IF IsE164(Cleaned(s)) THEN Cleaned(s)
               ELSE IF IsE164(Candidate(Cleaned(s), country)) THEN Candidate(Cleaned(s), country)
               ELSE PhoneValidationError
BY DEF Normalize, Candidate

\* For every text and country normalize_to_e164 raises or returns a number
\* that is dialable and, whatever the country, returned for itself; it is all
\* digits after its sign, and 0 to 9 if the text has no digits but these.
THEOREM ResultIsDialable ==
    ASSUME NEW S, NEW s \in Seq(S), NEW country
    PROVE  LET n == Normalize(s, country)
           IN  \/ n = PhoneValidationError
               \/ /\ IsE164(n) /\ Len(n) <= 16
                  /\ \A i \in 2..Len(n) : n[i] \in Digits \cup WideDigits
                  /\ InOneScript(s) => InOneScript(n)
                  /\ \A other \in Countries : Normalize(n, other) = n
<1> DEFINE R == {s[i] : i \in DOMAIN s}
           P == (R \cup {"+", "1", "4", "9"}) \ Formatting
           n == Normalize(s, country)
<1>1. Cleaned(s) \in Seq(P)
  <2>1. s \in Seq(R)
    <3>1. Len(s) \in Nat /\ DOMAIN s = 1..Len(s) /\ s = [i \in 1..Len(s) |-> s[i]]
      OBVIOUS
    <3>2. \A i \in 1..Len(s) : s[i] \in R
      BY <3>1
    <3>3. s \in [1..Len(s) -> R]
      BY <3>1, <3>2
    <3> QED BY <3>1, <3>3, SeqDef
  <2> HIDE DEF R
  <2>2. Cleaned(s) \in Seq(R \ Formatting)
    BY <2>1, CleanedType
  <2>3. R \ Formatting \subseteq P
    OBVIOUS
  <2> HIDE DEF P
  <2> QED BY <2>2, <2>3, SeqMonotonic
<1>2. InOneScript(s) => P \cap WideDigits = {}
  BY DEF InOneScript, WideDigits
<1>3. {"+", "1", "4", "9"} \subseteq P /\ P \cap Formatting = {}
  BY DEF Formatting, Blank
<1> HIDE DEF R, P
<1>4. Candidate(Cleaned(s), country) \in Seq(P)
  BY <1>1, <1>3, CandidateType
<1>5. n = PhoneValidationError \/ (n \in Seq(P) /\ IsE164(n))
  BY <1>1, <1>4, NormalizeIs
<1> HIDE DEF n
<1>6. ASSUME n \in Seq(P), IsE164(n)
      PROVE  /\ Len(n) <= 16 /\ \A i \in 2..Len(n) : n[i] \in Digits \cup WideDigits
             /\ InOneScript(s) => InOneScript(n)
             /\ \A other \in Countries : Normalize(n, other) = n
  <2>1. InOneScript(s) => InOneScript(n)
    <3>1. \A i \in DOMAIN n : n[i] \in P
      BY <1>6
    <3> QED BY <1>2, <3>1 DEF InOneScript
  <2> QED BY <1>3, <1>6, <2>1, DialableStays
<1> QED BY <1>5, <1>6 DEF n

-----------------------------------------------------------------------------
(* The countries and their calling codes.                                   *)
LEMMA Codes ==
    /\ CallingCode("US") = <<"1">> /\ CallingCode("IN") = <<"9", "1">>
    /\ CallingCode("UK") = <<"4", "4">>
BY DEF CallingCode

\* The lengths by which a number is taken to have its code.
LEMMA LengthsWithCode ==
    ASSUME NEW s, NEW n, n = Len(s)
    PROVE  /\ HasCountryCode(s, "US") <=> n = 11 /\ StartsWith(s, CallingCode("US"))
           /\ HasCountryCode(s, "IN") <=> n = 12 /\ StartsWith(s, CallingCode("IN"))
           /\ HasCountryCode(s, "UK") <=> n = 10 /\ StartsWith(s, CallingCode("UK"))
BY DEF HasCountryCode

\* A number with its code in front starts with the code.
LEMMA StartsWithCode ==
    ASSUME NEW S, NEW code \in Seq(S), NEW number \in Seq(S)
    PROVE  StartsWith(code \o number, code)
<1>1. Len(code) \in Nat /\ Len(number) \in Nat /\ Len(code \o number) = Len(code) + Len(number)
  OBVIOUS
<1>2. SubSeq(code \o number, 1, Len(code)) = code
  OBVIOUS
<1> QED BY <1>1, <1>2 DEF StartsWith

\* startswith, for one character.
LEMMA StartsWithOne ==
    ASSUME NEW S, NEW s \in Seq(S), NEW c
    PROVE  StartsWith(s, <<c>>) <=> s # <<>> /\ s[1] = c
<1>1. CASE s = <<>>
  BY <1>1 DEF StartsWith
<1>2. CASE s # <<>>
  <2>1. 1 <= Len(s) /\ Len(s) \in Nat
    BY <1>2
  <2> DEFINE t == SubSeq(s, 1, 1)
  <2>2. t \in Seq(S) /\ Len(t) = 1 /\ t[1] = s[1]
    BY <2>1
  <2> HIDE DEF t
  <2>3. t = <<s[1]>>
    BY <2>2
  <2>4. StartsWith(s, <<c>>) <=> t = <<c>>
    BY <2>1 DEF StartsWith, t
  <2> QED BY <1>2, <2>3, <2>4
<1> QED BY <1>1, <1>2

\* A number with its code and "+" is dialable.
LEMMA FullNumber ==
    ASSUME NEW code \in Seq(Digits \ {"0"}), 1 <= Len(code), Len(code) <= 2,
           NEW number \in Seq(Digits), 8 <= Len(number), Len(number) <= 10
    PROVE  IsE164(<<"+">> \o code \o number)
<1> DEFINE cn == code \o number
           r == <<"+">> \o code \o number
           n == Len(code) + Len(number)
<1>1. 9 <= n /\ n <= 12 /\ n \in Nat /\ Len(code) \in Nat /\ Len(number) \in Nat
  OBVIOUS
<1>2. code[1] \in Digits \ {"0"} /\ \A i \in 1..Len(code) : code[i] \in Digits
  OBVIOUS
<1>3. \A i \in 1..Len(number) : number[i] \in Digits
  OBVIOUS
<1>4. Len(r) = n + 1 /\ r[1] = "+" /\ r[2] = code[1]
  BY <1>1
<1>5. ASSUME NEW i \in 3..(n + 1) PROVE r[i] \in Digits
  <2>1. CASE i <= Len(code) + 1
    <3>1. r[i] = code[i - 1] /\ i - 1 \in 1..Len(code)
      BY <1>1, <2>1
    <3> QED BY <1>2, <3>1
  <2>2. CASE i > Len(code) + 1
    <3>1. r[i] = number[i - 1 - Len(code)] /\ i - 1 - Len(code) \in 1..Len(number)
      BY <1>1, <2>2
    <3> QED BY <1>3, <3>1
  <2> QED BY <1>1, <2>1, <2>2
<1>6. r # <<>>
  BY <1>1, <1>4
<1> HIDE DEF r, n
<1>7. r[n + 1] # "\n"
  <2>1. n + 1 \in 3..(n + 1)
    BY <1>1
  <2> QED BY <1>5, <2>1 DEF Digits
<1>8. IsE164(r)
  BY <1>1, <1>2, <1>4, <1>5, <1>6, <1>7 DEF IsE164
<1> QED BY <1>8 DEF r

\* National numbers are sequences of eight to ten digits.
LEMMA Nationals ==
    ASSUME NEW country \in {"US", "IN", "UK"}, NEW number \in NationalNumbers(country)
    PROVE  /\ number \in Seq(Digits) /\ 8 <= Len(number) /\ Len(number) <= 10
           /\ number[1] \in Digits \ {"0"}
           /\ country # "UK" => Len(number) = 10
<1>1. number \in Seq(Digits) /\ number[1] # "0"
  BY TextsAssumption DEF NationalNumbers
<1>2. 8 <= Len(number) /\ Len(number) <= 10 /\ (country # "UK" => Len(number) = 10)
  <2>1. CASE country = "UK"
    BY <2>1 DEF NationalNumbers
  <2>2. CASE country # "UK"
    <3> DEFINE n == Len(number)
    <3>1. n = 10
      BY <2>2 DEF NationalNumbers
    <3> HIDE DEF n
    <3>2. 8 <= n /\ n <= 10
      BY <3>1
    <3> QED BY <3>1, <3>2 DEF n
  <2> QED BY <2>1, <2>2
<1>3. number[1] \in Digits
  BY <1>1, <1>2
<1> QED BY <1>1, <1>2, <1>3

\* A national number is not taken to have its code.
LEMMA ShortHasNoCode ==
    ASSUME NEW country \in {"US", "IN", "UK"}, NEW number \in NationalNumbers(country),
           NEW form \in {"national", "trunk"}, Understood(country, number, form)
    PROVE  ~HasCountryCode(number, country)
<1> DEFINE n == Len(number)
<1>1. n \in Nat /\ (country # "UK" => n = 10)
  BY Nationals
<1>2. (country = "UK" /\ n = 10) => ~StartsWith(number, CallingCode("UK"))
  BY DEF Understood
<1>3. /\ HasCountryCode(number, "US") => n = 11
      /\ HasCountryCode(number, "IN") => n = 12
      /\ HasCountryCode(number, "UK") => n = 10 /\ StartsWith(number, CallingCode("UK"))
  BY LengthsWithCode
<1> HIDE DEF n
<1> QED BY <1>1, <1>2, <1>3

\* A text that spells a national number in a form the function understands
\* is normalized to the number, with its code and "+".
THEOREM SpellingsAgree ==
    ASSUME NEW country \in {"US", "IN", "UK"}, NEW number \in NationalNumbers(country),
           NEW form \in Forms, Understood(country, number, form),
           NEW text, Cleaned(text) = Digital(country, number, form)
    PROVE  Normalize(text, country) = <<"+">> \o CallingCode(country) \o number
<1> DEFINE code == CallingCode(country)
           full == <<"+">> \o code \o number
           cleaned == Cleaned(text)
<1>1. /\ number \in Seq(Digits) /\ 8 <= Len(number) /\ Len(number) <= 10
      /\ number[1] \in Digits \ {"0"} /\ (country # "UK" => Len(number) = 10)
  BY Nationals
<1>2. /\ code \in Seq(Digits \ {"0"}) /\ 1 <= Len(code) /\ Len(code) <= 2
      /\ code # <<>> /\ code[1] # "0" /\ code[1] # "+"
      /\ country = "US" => Len(code) = 1
      /\ country # "US" => Len(code) = 2
  <2>1. CASE country = "US"
    <3>1. code = <<"1">>
      BY <2>1, Codes
    <3> HIDE DEF code
    <3> QED BY <2>1, <3>1 DEF Digits
  <2>2. CASE country = "IN"
    <3>1. code = <<"9", "1">>
      BY <2>2, Codes
    <3> HIDE DEF code
    <3> QED BY <2>2, <3>1 DEF Digits
  <2>3. CASE country = "UK"
    <3>1. code = <<"4", "4">>
      BY <2>3, Codes
    <3> HIDE DEF code
    <3> QED BY <2>3, <3>1 DEF Digits
  <2> QED BY <2>1, <2>2, <2>3
<1>8. \A c \in Digits : c # "+"
  BY DEF Digits
<1>3. IsE164(full)
  <2> HIDE DEF code
  <2> QED BY <1>1, <1>2, FullNumber
<1>4. CASE form = "plus"
  <2>1. cleaned = full
    BY <1>4 DEF Digital
  <2> QED BY <1>3, <2>1, NormalizeIs
<1>5. CASE form = "national"
  <2>1. cleaned = number
    BY <1>5 DEF Digital
  <2>2. ~IsE164(number)
    BY <1>1, <1>8 DEF IsE164
  <2>3. National(number, country) = number
    <3>1. ~StartsWith(number, <<"0">>)
      BY <1>1, StartsWithOne
    <3> QED BY <3>1 DEF National
  <2>4. ~HasCountryCode(number, country)
    BY <1>5, ShortHasNoCode
  <2>5. Candidate(cleaned, country) = full
    BY <2>1, <2>3, <2>4 DEF Candidate
  <2> HIDE DEF full, cleaned
  <2>6. Normalize(text, country) = full
    BY <1>3, <2>1, <2>2, <2>5, NormalizeIs DEF cleaned
  <2> QED BY <2>6 DEF full
<1>6. CASE form = "trunk"
  <2>1. cleaned = <<"0">> \o number /\ country = "UK"
    BY <1>6 DEF Digital, Understood
  <2>2. ~IsE164(cleaned)
    BY <1>1, <2>1 DEF IsE164
  <2>3. National(cleaned, country) = number
    <3>1. StartsWith(cleaned, <<"0">>)
      <4>1. <<"0">> \in Seq(Digits)
        BY DEF Digits
      <4> QED BY <1>1, <2>1, <4>1, StartsWithCode
    <3>2. Tail(<<"0">> \o number) = number
      BY <1>1
    <3> QED BY <2>1, <3>1, <3>2 DEF National
  <2>4. ~HasCountryCode(number, country)
    BY <1>6, ShortHasNoCode
  <2>5. Candidate(cleaned, country) = full
    BY <2>3, <2>4 DEF Candidate
  <2> HIDE DEF full, cleaned
  <2>6. Normalize(text, country) = full
    BY <1>3, <2>2, <2>5, NormalizeIs DEF cleaned
  <2> QED BY <2>6 DEF full
<1>7. CASE form = "international"
  <2>1. cleaned = code \o number
    BY <1>7 DEF Digital
  <2>2. /\ cleaned \in Seq(Digits) /\ Len(cleaned) = Len(code) + Len(number)
        /\ cleaned[1] = code[1] /\ cleaned # <<>>
    <3>1. code \in Seq(Digits)
      <4> HIDE DEF code
      <4> QED BY <1>2
    <3> HIDE DEF code, cleaned
    <3>2. cleaned \in Seq(Digits) /\ Len(cleaned) = Len(code) + Len(number)
      BY <1>1, <2>1, <3>1
    <3>3. cleaned[1] = code[1]
      BY <1>1, <1>2, <2>1, <3>1
    <3> QED BY <1>1, <1>2, <3>2, <3>3
  <2>3. ~IsE164(cleaned)
    <3> HIDE DEF code, cleaned
    <3> QED BY <1>2, <2>2 DEF IsE164
  <2>4. National(cleaned, country) = cleaned
    <3> HIDE DEF code, cleaned
    <3> QED BY <1>2, <2>2, StartsWithOne DEF National
  <2>5. HasCountryCode(cleaned, country)
    <3>1. StartsWith(cleaned, code)
      <4>1. code \in Seq(Digits)
        <5> HIDE DEF code
        <5> QED BY <1>2
      <4> HIDE DEF code
      <4> QED BY <1>1, <2>1, <4>1, StartsWithCode
    <3>2. /\ country = "US" => Len(cleaned) = 11
          /\ country = "IN" => Len(cleaned) = 12
          /\ country = "UK" => Len(cleaned) = 10
      <4>1. country = "UK" => Len(number) = 8
        BY <1>7 DEF Understood
      <4> DEFINE l == Len(cleaned)
                 c == Len(code)
                 n == Len(number)
      <4>2. /\ l = c + n
            /\ country = "US" => c = 1
            /\ country # "US" => c = 2
            /\ country # "UK" => n = 10
            /\ country = "UK" => n = 8
        BY <1>1, <1>2, <2>2, <4>1
      <4> HIDE DEF l, c, n
      <4>3. /\ country = "US" => l = 11
            /\ country = "IN" => l = 12
            /\ country = "UK" => l = 10
        BY <4>2
      <4> QED BY <4>3 DEF l
    <3> HIDE DEF cleaned
    <3> QED BY <3>1, <3>2, LengthsWithCode
  <2>6. <<"+">> \o (code \o number) = full
    BY <1>1, <1>2
  <2>7. Candidate(cleaned, country) = full
    <3> HIDE DEF full, code
    <3> QED BY <2>1, <2>4, <2>5, <2>6 DEF Candidate
  <2> HIDE DEF full, cleaned
  <2>8. Normalize(text, country) = full
    BY <1>3, <2>3, <2>7, NormalizeIs DEF cleaned
  <2> QED BY <2>8 DEF full
<1> QED BY <1>4, <1>5, <1>6, <1>7 DEF Forms

-----------------------------------------------------------------------------
(* The answer is what the function returns for the query.                   *)
TextInv ==
    /\ query \in PhoneQueries \cup StrangeQueries \cup PromptQueries
    /\ \/ answer = NoAnswer
       \/ /\ query.kind \in {"phone", "strange"}
          /\ answer = [kind |-> "number", number |-> Normalize(TextOf(query), query.country)]
       \/ /\ query.kind \in {"repository", "template"} /\ answer.kind # "number"
          /\ answer = Render(query.data, query.vars, Strict(query))

\* The kinds of the queries.
LEMMA QueryKinds ==
    /\ \A q \in RepositoryQueries : q.kind = "repository"
    /\ \A q \in TemplateQueries : q.kind = "template"
    /\ \A q \in PhoneQueries : q.kind = "phone"
    /\ \A q \in StrangeQueries : q.kind = "strange"
<1>1. \A q \in RepositoryQueries : q.kind = "repository"
  BY DEF RepositoryQueries
<1>2. \A q \in TemplateQueries : q.kind = "template"
  BY TextsAssumption
<1>3. \A q \in PhoneQueries : q.kind = "phone"
  BY DEF PhoneQueries
<1>4. \A q \in StrangeQueries : q.kind = "strange"
  BY DEF StrangeQueries
<1> QED BY <1>1, <1>2, <1>3, <1>4

\* It always is.
LEMMA TextInvHolds == Spec => []TextInv
<1>1. Init => TextInv
  BY DEF Init, TextInv
<1>2. TextInv /\ [Next]_vars => TextInv'
  <2> SUFFICES ASSUME TextInv, [Next]_vars PROVE TextInv'
    OBVIOUS
  <2>1. CASE UNCHANGED vars
    BY <2>1 DEF TextInv, vars
  <2>2. CASE UNCHANGED query /\ AnswerNumber
    BY <2>2 DEF TextInv, AnswerNumber
  <2>3. CASE UNCHANGED query /\ AnswerPrompt
    <3>1. answer'.kind # "number"
      BY <2>3 DEF AnswerPrompt, Render
    <3>2. Strict(query') = Strict(query)
      BY <2>3
    <3> QED BY <2>3, <3>1, <3>2 DEF TextInv, AnswerPrompt
  <2> QED BY <2>1, <2>2, <2>3 DEF Next
<1> QED BY <1>1, <1>2, PTL DEF Spec

\* The texts of the queries are sequences of characters.
LEMMA DigitalType ==
    ASSUME NEW country, NEW number \in Seq(Digits), NEW form \in Forms
    PROVE  Digital(country, number, form) \in Seq(Digits \cup {"+"})
<1> DEFINE P == Digits \cup {"+"}
<1>1. number \in Seq(P)
  OBVIOUS
<1>2. {"+", "0", "1", "4", "9"} \subseteq P
  BY DEF Digits
<1> HIDE DEF P
<1>3. /\ <<"0">> \in Seq(P) /\ <<"+">> \in Seq(P)
      /\ <<"1">> \in Seq(P) /\ <<"9", "1">> \in Seq(P) /\ <<"4", "4">> \in Seq(P)
  BY <1>2
<1>4. CallingCode(country) \in Seq(P)
  <2>1. \/ CallingCode(country) = <<"9", "1">> \/ CallingCode(country) = <<"4", "4">>
        \/ CallingCode(country) = <<"1">>
    BY DEF CallingCode
  <2> QED BY <1>3, <2>1
<1> DEFINE trunk == <<"0">> \o number
           international == CallingCode(country) \o number
           plus == <<"+">> \o CallingCode(country) \o number
           digital == Digital(country, number, form)
<1>5. /\ trunk \in Seq(P) /\ international \in Seq(P) /\ plus \in Seq(P)
  BY <1>1, <1>3, <1>4, ConcatProperties
<1>6. form = "national" => digital = number
  BY DEF Digital
<1>7. form = "trunk" => digital = trunk
  BY DEF Digital
<1>8. form = "international" => digital = international
  BY DEF Digital
<1>9. form = "plus" => digital = plus
  BY DEF Digital
<1> HIDE DEF trunk, international, plus, digital
<1>10. digital \in Seq(P)
  <2>1. form = "national" \/ form = "trunk" \/ form = "international" \/ form = "plus"
    BY DEF Forms
  <2> QED BY <1>1, <1>5, <1>6, <1>7, <1>8, <1>9, <2>1, Zenon
<1> QED BY <1>10 DEF P, digital

\* However a national number is written, with or without its calling code,
\* trunk prefix and formatting, it is normalized to the one number it is.
THEOREM FormsAlwaysAgree == Spec => []FormsAgree
<1>1. TextInv => FormsAgree
  <2> SUFFICES ASSUME TextInv, query.kind = "phone", answer # NoAnswer
               PROVE  answer.number = <<"+">> \o CallingCode(query.country) \o query.number
    BY DEF FormsAgree
  <2>1. query \in PhoneQueries
    BY QueryKinds DEF TextInv, PromptQueries
  <2>2. answer.number = Normalize(TextOf(query), query.country)
    BY DEF TextInv
  <2> DEFINE text == Digital(query.country, query.number, query.form)
  <2>3. /\ query.country \in {"US", "IN", "UK"} /\ query.number \in NationalNumbers(query.country)
        /\ query.form \in Forms /\ Understood(query.country, query.number, query.form)
        /\ query.place \in Nat /\ query.character \in Seq(Formatting) /\ query.last \in Seq(Formatting)
    BY <2>1, TextsAssumption DEF PhoneQueries
  <2>4. text \in Seq(Digits \cup {"+"})
    BY <2>3, Nationals, DigitalType
  <2>5. TextOf(query) = Written(text, query.place, query.character, query.last)
    BY DEF TextOf
  <2>6. (Digits \cup {"+"}) \cap Formatting = {}
    BY DEF Digits, Formatting, Blank
  <2> HIDE DEF text
  <2>7. Cleaned(TextOf(query)) = text
    <3> DEFINE P == Digits \cup {"+"}
               place == query.place
               character == query.character
               last == query.last
    <3>1. /\ P \cap Formatting = {} /\ text \in Seq(P)
          /\ place \in Nat /\ character \in Seq(Formatting) /\ last \in Seq(Formatting)
      BY <2>3, <2>4, <2>6
    <3>2. TextOf(query) = Written(text, place, character, last)
      BY <2>5
    <3> HIDE DEF P, place, character, last
    <3>3. Cleaned(Written(text, place, character, last)) = text
      BY <3>1, CleanedWritten, Zenon
    <3> QED BY <3>2, <3>3
  <2>8. Normalize(TextOf(query), query.country) = <<"+">> \o CallingCode(query.country) \o query.number
    BY <2>3, <2>7, SpellingsAgree, Zenon DEF text
  <2> QED BY <2>2, <2>8
<1> QED BY <1>1, TextInvHolds, PTL

\* What normalize_to_e164 returns for any text passes the worker's check as it
\* stands, is the sign and digits, 0 to 9 if the text has no others, and is
\* returned for itself.
THEOREM NormalizedAreDialable == Spec => []NormalizedIsDialable
<1>1. TextInv => NormalizedIsDialable
  <2> SUFFICES ASSUME TextInv, answer.kind = "number"
               PROVE  LET n == answer.number
                      IN  \/ n = PhoneValidationError
                          \/ /\ IsE164(n) /\ Len(n) <= 16
                             /\ \A i \in 2..Len(n) : n[i] \in Digits \cup WideDigits
                             /\ InOneScript(TextOf(query)) => InOneScript(n)
                             /\ \A country \in Countries : Normalize(n, country) = n
    BY DEF NormalizedIsDialable
  <2>1. query.kind \in {"phone", "strange"} /\ answer.number = Normalize(TextOf(query), query.country)
    BY DEF TextInv, NoAnswer
  <2>2. \E S : TextOf(query) \in Seq(S)
    <3>1. query \in PhoneQueries \/ query \in StrangeQueries
      BY <2>1, QueryKinds DEF TextInv, PromptQueries
    <3>2. CASE query \in StrangeQueries
      BY <3>2, TextsAssumption DEF StrangeQueries, TextOf
    <3>3. CASE query \in PhoneQueries
      <4> DEFINE text == Digital(query.country, query.number, query.form)
                 S == Digits \cup {"+"} \cup Formatting
      <4>1. /\ query.number \in Seq(Digits) /\ query.form \in Forms /\ query.place \in Nat
            /\ query.character \in Seq(Formatting) /\ query.last \in Seq(Formatting)
            /\ query.kind = "phone"
        BY <3>3, TextsAssumption DEF PhoneQueries
      <4>2. text \in Seq(Digits \cup {"+"})
        BY <4>1, DigitalType
      <4> HIDE DEF text
      <4>3. text \in Seq(S) /\ query.character \in Seq(S) /\ query.last \in Seq(S)
        BY <4>1, <4>2
      <4> HIDE DEF S
      <4>4. Written(text, query.place, query.character, query.last) \in Seq(S)
        BY <4>1, <4>3 DEF Written
      <4> QED BY <4>1, <4>4 DEF TextOf, text
    <3> QED BY <3>1, <3>2, <3>3
  <2> QED BY <2>1, <2>2, ResultIsDialable
<1> QED BY <1>1, TextInvHolds, PTL

-----------------------------------------------------------------------------
\* The sentence in which two lines meet.
Met(left, right) ==
    [words |-> Last(left).words + Head(right).words,
     special |-> Last(left).special \/ Head(right).special]

\* A line has a first sentence and a last.
LEMMA LinesAre ==
    ASSUME NEW line \in Line
    PROVE  /\ Len(line) \in Nat /\ Len(line) >= 1 /\ DOMAIN line = 1..Len(line)
           /\ Head(line) = line[1]
           /\ \A i \in 1..Len(line) : line[i] \in Utterance
           /\ 1 \in 1..Len(line) /\ Len(line) \in 1..Len(line)
<1>1. line \in Seq(Utterance) /\ line # <<>>
  BY DEF Line
<1>2. Len(line) \in Nat \ {0} /\ DOMAIN line = 1..Len(line) /\ Head(line) = line[1]
  BY <1>1, EmptySeq, LenProperties
<1> QED BY <1>1, <1>2, ElementOfSeq

\* All but the last sentence of a line.
LEMMA SubSeqFront ==
    ASSUME NEW s \in Seq(Utterance), s # <<>>
    PROVE  /\ SubSeq(s, 1, Len(s) - 1) \in Seq(Utterance)
           /\ Len(SubSeq(s, 1, Len(s) - 1)) = Len(s) - 1
           /\ \A i \in 1..(Len(s) - 1) : SubSeq(s, 1, Len(s) - 1)[i] = s[i]
<1> DEFINE k == Len(s) - 1
<1>1. Len(s) \in Nat \ {0}
  BY EmptySeq
<1>2. \A i \in 1..k : s[i] \in Utterance
  BY <1>1, ElementOfSeq
<1>3. k \in Nat /\ 1 \in Int /\ k \in Int
  BY <1>1
<1> HIDE DEF k
<1>4. /\ SubSeq(s, 1, k) \in Seq(Utterance)
      /\ Len(SubSeq(s, 1, k)) = IF 1 <= k THEN k - 1 + 1 ELSE 0
      /\ \A i \in 1..(k - 1 + 1) : SubSeq(s, 1, k)[i] = s[1 + i - 1]
  BY <1>2, <1>3, SubSeqProperties
<1>5. \A i \in 1..k : i \in 1..(k - 1 + 1) /\ 1 + i - 1 = i
  BY <1>3
<1>6. SubSeq(s, 1, k) \in Seq(Utterance) /\ Len(SubSeq(s, 1, k)) = k /\ \A i \in 1..k : SubSeq(s, 1, k)[i] = s[i]
  BY <1>3, <1>4, <1>5
<1> QED BY <1>6 DEF k

\* The sentences of two lines that are joined.
LEMMA JoinedLine ==
    ASSUME NEW left \in Line, NEW right \in Line
    PROVE  /\ Join(left, right) \in Line
           /\ Len(Join(left, right)) = Len(left) + Len(right) - 1
           /\ \A i \in 1..(Len(left) - 1) : Join(left, right)[i] = left[i]
           /\ Join(left, right)[Len(left)] = Met(left, right)
           /\ \A i \in 2..Len(right) : Join(left, right)[Len(left) + i - 1] = right[i]
<1> DEFINE front == Front(left)
           met == Met(left, right)
           tail == Tail(right)
           m == Len(left)
           n == Len(right)
<1>0. left \in Seq(Utterance) /\ right \in Seq(Utterance) /\ left # <<>> /\ right # <<>>
  BY DEF Line
<1>1. /\ m \in Nat /\ n \in Nat /\ m >= 1 /\ n >= 1
      /\ left \in Seq(Utterance) /\ right \in Seq(Utterance)
  BY <1>0, EmptySeq, LenProperties
<1>2. front \in Seq(Utterance) /\ Len(front) = m - 1 /\ \A i \in 1..(m - 1) : front[i] = left[i]
  BY <1>1, SubSeqFront DEF Front
<1>3. /\ tail \in Seq(Utterance) /\ Len(tail) = n - 1 /\ \A i \in 1..(n - 1) : tail[i] = right[i + 1]
  BY <1>1
<1>4. met \in Utterance
  <2>1. left[m] \in Utterance /\ right[1] \in Utterance /\ Head(right) = right[1]
    BY <1>1
  <2> QED BY <2>1 DEF Met, Last, Utterance
<1>5. Join(left, right) = front \o <<met>> \o tail
  BY DEF Join, Met
<1> HIDE DEF front, met, tail
<1> DEFINE s == front \o <<met>>
<1>6. /\ s \in Seq(Utterance) /\ Len(s) = m /\ \A i \in 1..(m - 1) : s[i] = front[i]
      /\ s[m] = met
  BY <1>1, <1>2, <1>4
<1> HIDE DEF s
<1> DEFINE t == s \o tail
<1>7. /\ t \in Seq(Utterance) /\ Len(t) = m + (n - 1) /\ \A i \in 1..m : t[i] = s[i]
      /\ \A i \in 1..(n - 1) : t[m + i] = tail[i]
  <2>1. /\ t \in Seq(Utterance) /\ Len(t) = Len(s) + Len(tail)
        /\ \A i \in 1..(Len(s) + Len(tail)) : t[i] = IF i <= Len(s) THEN s[i] ELSE tail[i - Len(s)]
    <3>1. s \in Seq(Utterance) /\ tail \in Seq(Utterance)
      BY <1>3, <1>6
    <3> QED BY <3>1, ConcatProperties, Zenon
  <2> HIDE DEF t, n, m
  <2>2. ASSUME NEW i \in 1..m PROVE t[i] = s[i]
    <3>1. i \in 1..(Len(s) + Len(tail)) /\ i <= Len(s)
      BY <1>1, <1>3, <1>6
    <3> QED BY <2>1, <3>1
  <2>3. ASSUME NEW i \in 1..(n - 1) PROVE t[m + i] = tail[i]
    <3> DEFINE k == m + i
    <3>1. k \in 1..(Len(s) + Len(tail)) /\ ~(k <= Len(s)) /\ k - Len(s) = i
      BY <1>1, <1>3, <1>6
    <3> HIDE DEF k
    <3>2. t[k] = tail[i]
      BY <2>1, <3>1
    <3> QED BY <3>2 DEF k
  <2> QED BY <1>1, <1>3, <1>6, <2>1, <2>2, <2>3
<1> HIDE DEF t
<1>8. Join(left, right) = t
  BY <1>5 DEF s, t
<1>9. /\ t # <<>> /\ Len(t) = m + n - 1
      /\ \A i \in 1..(m - 1) : t[i] = left[i]
      /\ t[m] = met
  <2> HIDE DEF m, n
  <2>1. Len(t) = m + n - 1 /\ Len(t) # 0
    BY <1>1, <1>7
  <2>2. t # <<>>
    <3>1. Len(<<>>) = 0
      OBVIOUS
    <3> QED BY <2>1, <3>1
  <2>3. \A i \in 1..m : t[i] = s[i]
    BY <1>7
  <2>4. m \in 1..m /\ \A i \in 1..(m - 1) : i \in 1..m
    BY <1>1
  <2> QED BY <1>2, <1>6, <2>1, <2>2, <2>3, <2>4
<1>10. ASSUME NEW i \in 2..n PROVE t[m + i - 1] = right[i]
  <2>1. i - 1 \in 1..(n - 1) /\ m + (i - 1) = m + i - 1 /\ (i - 1) + 1 = i
    BY <1>1
  <2> QED BY <1>3, <1>7, <2>1
<1> QED BY <1>7, <1>8, <1>9, <1>10 DEF Line, met

\* Two lines that are joined fit exactly when each does next to the other.
LEMMA JoinFits ==
    ASSUME NEW left \in Line, NEW right \in Line, NEW before \in Nat, NEW after \in Nat
    PROVE  Fits(Join(left, right), before, after) <=>
              /\ Fits(left, before, Head(right).words + (IF Len(right) = 1 THEN after ELSE 0))
              /\ Fits(right, Last(left).words + (IF Len(left) = 1 THEN before ELSE 0), after)
<1> DEFINE j == Join(left, right)
           met == Met(left, right)
           m == Len(left)
           n == Len(right)
           x == IF m = 1 THEN before ELSE 0
           y == IF n = 1 THEN after ELSE 0
<1>1. /\ m \in Nat /\ n \in Nat /\ m >= 1 /\ n >= 1
      /\ DOMAIN left = 1..m /\ DOMAIN right = 1..n
      /\ Head(right) = right[1] /\ Last(left) = left[m]
      /\ \A i \in 1..m : left[i] \in Utterance
      /\ \A i \in 1..n : right[i] \in Utterance
  BY LinesAre DEF Last
<1>2. /\ DOMAIN j = 1..(m + n - 1) /\ Len(j) = m + n - 1
      /\ \A i \in 1..(m - 1) : j[i] = left[i]
      /\ j[m] = met
      /\ \A i \in 2..n : j[m + i - 1] = right[i]
  <2>1. j \in Line
    BY JoinedLine
  <2>2. DOMAIN j = 1..Len(j)
    BY <2>1, LinesAre
  <2> QED BY <2>2, JoinedLine
<1>3. /\ \A i \in 1..m : left[i].words \in Nat
      /\ \A i \in 1..n : right[i].words \in Nat
      /\ left[m].words \in Nat /\ right[1].words \in Nat
  <2>1. \A z \in Utterance : z.words \in Nat
    BY DEF Utterance
  <2> QED BY <1>1, <2>1
<1> DEFINE p == left[m].words
           q == right[1].words
           u == left[m].special
           v == right[1].special
<1>4. /\ p \in Nat /\ q \in Nat /\ met.words = p + q /\ (met.special <=> u \/ v)
      /\ left[m].words = p /\ right[1].words = q
      /\ (left[m].special <=> u) /\ (right[1].special <=> v)
  BY <1>1, <1>3 DEF Met
<1>5. Len(left) = m /\ Len(right) = n /\ x \in Nat /\ y \in Nat
      /\ (m # 1 => x = 0) /\ (n # 1 => y = 0) /\ (m = 1 => x = before) /\ (n = 1 => y = after)
  OBVIOUS
<1> HIDE DEF j, met, m, n, x, y, p, q, u, v
<1> DEFINE Fine(z, k) == z.words + k <= MaxWords /\ ~z.special
           Start == \A i \in 1..(m - 1) : Fine(left[i], IF i = 1 THEN before ELSE 0)
           End_ == \A i \in 2..n : Fine(right[i], IF i = n THEN after ELSE 0)
<1>6. Fits(left, before, q + y) <=> Start /\ Fine(left[m], x + q + y)
  <2>1. ASSUME Fits(left, before, q + y) PROVE Start
    <3> SUFFICES ASSUME NEW i \in 1..(m - 1) PROVE Fine(left[i], IF i = 1 THEN before ELSE 0)
      OBVIOUS
    <3>1. i \in 1..m /\ i # m /\ left[i].words \in Nat
      BY <1>1, <1>3
    <3> QED BY <1>1, <1>5, <2>1, <3>1 DEF Fits
  <2>2. m \in 1..m
    BY <1>1
  <2>3. ASSUME Fits(left, before, q + y) PROVE Fine(left[m], x + q + y)
    <3>1. /\ left[m].words + (IF m = 1 THEN before ELSE 0) + (q + y) <= MaxWords
          /\ ~left[m].special
      BY <1>1, <1>4, <1>5, <2>2, <2>3 DEF Fits
    <3> QED BY <1>4, <1>5, <3>1 DEF MaxWords
  <2>4. ASSUME Start, Fine(left[m], x + q + y), NEW i \in 1..m
        PROVE  /\ left[i].words + (IF i = 1 THEN before ELSE 0)
                     + (IF i = m THEN q + y ELSE 0) <= MaxWords
               /\ ~left[i].special
    <3>1. CASE i = m
      BY <1>4, <1>5, <2>4, <3>1 DEF MaxWords
    <3>2. CASE i # m
      <4>1. i \in 1..(m - 1)
        BY <1>1, <3>2
      <4>2. Fine(left[i], IF i = 1 THEN before ELSE 0)
        BY <2>4, <4>1
      <4> QED BY <1>3, <3>2, <4>2
    <3> QED BY <3>1, <3>2
  <2>5. Start /\ Fine(left[m], x + q + y) => Fits(left, before, q + y)
    <3> HIDE DEF Start, Fine
    <3> QED BY <1>1, <1>5, <2>4 DEF Fits
  <2> QED BY <2>1, <2>3, <2>5
<1>7. Fits(right, p + x, after) <=> End_ /\ Fine(right[1], p + x + y)
  <2>1. ASSUME Fits(right, p + x, after) PROVE End_
    <3> SUFFICES ASSUME NEW i \in 2..n PROVE Fine(right[i], IF i = n THEN after ELSE 0)
      OBVIOUS
    <3>1. i \in 1..n /\ i # 1 /\ right[i].words \in Nat
      BY <1>1, <1>3
    <3> QED BY <1>1, <1>5, <2>1, <3>1 DEF Fits
  <2>2. 1 \in 1..n
    BY <1>1
  <2>3. ASSUME Fits(right, p + x, after) PROVE Fine(right[1], p + x + y)
    <3>1. /\ right[1].words + (p + x) + (IF 1 = n THEN after ELSE 0) <= MaxWords
          /\ ~right[1].special
      BY <1>1, <1>4, <1>5, <2>2, <2>3 DEF Fits
    <3> QED BY <1>4, <1>5, <3>1 DEF MaxWords
  <2>4. ASSUME End_, Fine(right[1], p + x + y), NEW i \in 1..n
        PROVE  /\ right[i].words + (IF i = 1 THEN p + x ELSE 0)
                     + (IF i = n THEN after ELSE 0) <= MaxWords
               /\ ~right[i].special
    <3>1. CASE i = 1
      BY <1>4, <1>5, <2>4, <3>1 DEF MaxWords
    <3>2. CASE i # 1
      <4>1. i \in 2..n
        BY <1>1, <3>2
      <4>2. Fine(right[i], IF i = n THEN after ELSE 0)
        BY <2>4, <4>1
      <4> QED BY <1>3, <3>2, <4>2
    <3> QED BY <3>1, <3>2
  <2>5. End_ /\ Fine(right[1], p + x + y) => Fits(right, p + x, after)
    <3> HIDE DEF End_, Fine
    <3> QED BY <1>1, <1>5, <2>4 DEF Fits
  <2> QED BY <2>1, <2>3, <2>5
<1>8. Fits(j, before, after) <=> Start /\ End_ /\ Fine(met, x + y)
  <2>1. ASSUME Fits(j, before, after) PROVE Start
    <3> SUFFICES ASSUME NEW i \in 1..(m - 1) PROVE Fine(left[i], IF i = 1 THEN before ELSE 0)
      OBVIOUS
    <3>1. i \in 1..(m + n - 1) /\ i # m + n - 1 /\ left[i].words \in Nat /\ j[i] = left[i]
      BY <1>1, <1>2, <1>3
    <3> QED BY <1>2, <2>1, <3>1 DEF Fits
  <2>2. ASSUME Fits(j, before, after) PROVE End_
    <3> SUFFICES ASSUME NEW i \in 2..n PROVE Fine(right[i], IF i = n THEN after ELSE 0)
      OBVIOUS
    <3> DEFINE k == m + i - 1
    <3>1. /\ k \in 1..(m + n - 1) /\ (k = m + n - 1 <=> i = n) /\ k # 1
          /\ right[i].words \in Nat /\ j[k] = right[i]
      BY <1>1, <1>2, <1>3
    <3> HIDE DEF k
    <3> QED BY <1>2, <2>2, <3>1 DEF Fits
  <2>3. m \in 1..(m + n - 1) /\ (m = m + n - 1 <=> n = 1)
    BY <1>1
  <2>4. ASSUME Fits(j, before, after) PROVE Fine(met, x + y)
    <3>1. /\ met.words + (IF m = 1 THEN before ELSE 0) + (IF m = m + n - 1 THEN after ELSE 0) <= MaxWords
          /\ ~met.special
      BY <1>2, <2>3, <2>4 DEF Fits
    <3> HIDE DEF Start, End_
    <3> QED BY <1>4, <1>5, <2>3, <3>1 DEF MaxWords
  <2>5. ASSUME Start, End_, Fine(met, x + y), NEW k \in 1..(m + n - 1)
        PROVE  /\ j[k].words + (IF k = 1 THEN before ELSE 0)
                     + (IF k = m + n - 1 THEN after ELSE 0) <= MaxWords
               /\ ~j[k].special
    <3>1. CASE k = m
      <4>1. met.words + (x + y) <= MaxWords /\ ~met.special
        BY <2>5
      <4>2. met.words + (IF m = 1 THEN before ELSE 0) + (IF m = m + n - 1 THEN after ELSE 0) <= MaxWords
        BY <1>4, <1>5, <2>3, <4>1 DEF MaxWords
      <4> QED BY <1>2, <3>1, <4>1, <4>2
    <3>2. CASE k < m
      <4>1. k \in 1..(m - 1) /\ k # m + n - 1 /\ j[k] = left[k] /\ left[k].words \in Nat
        BY <1>1, <1>2, <1>3, <3>2
      <4>2. Fine(left[k], IF k = 1 THEN before ELSE 0)
        BY <2>5, <4>1
      <4> QED BY <4>1, <4>2
    <3>3. CASE k > m
      <4> DEFINE i == k - m + 1
      <4>1. i \in 2..n /\ m + i - 1 = k /\ (k = m + n - 1 <=> i = n) /\ k # 1
        BY <1>1, <3>3
      <4>2. j[k] = right[i] /\ right[i].words \in Nat
        BY <1>1, <1>2, <1>3, <4>1
      <4> HIDE DEF i
      <4>3. Fine(right[i], IF i = n THEN after ELSE 0)
        BY <2>5, <4>1
      <4> QED BY <4>1, <4>2, <4>3
    <3> QED BY <1>1, <3>1, <3>2, <3>3
  <2>6. Start /\ End_ /\ Fine(met, x + y) => Fits(j, before, after)
    <3> HIDE DEF Start, End_, Fine
    <3> QED BY <1>2, <2>5 DEF Fits
  <2> QED BY <2>1, <2>2, <2>4, <2>6
<1>9. Fine(met, x + y) <=> (p + x + q + y <= MaxWords /\ ~u /\ ~v)
  <2>1. met.words + (x + y) = p + x + q + y
    BY <1>4, <1>5
  <2> QED BY <1>4, <2>1
<1>11. Fine(left[m], x + q + y) <=> (p + x + q + y <= MaxWords /\ ~u)
  <2>1. left[m].words + (x + q + y) = p + x + q + y
    BY <1>4, <1>5
  <2> QED BY <1>4, <2>1
<1>12. Fine(right[1], p + x + y) <=> (p + x + q + y <= MaxWords /\ ~v)
  <2>1. right[1].words + (p + x + y) = p + x + q + y
    BY <1>4, <1>5
  <2> QED BY <1>4, <2>1
<1> HIDE DEF Start, End_, Fine
<1>10. Fits(j, before, after) <=> Fits(left, before, q + y) /\ Fits(right, p + x, after)
  BY <1>6, <1>7, <1>8, <1>9, <1>11, <1>12
<1> QED BY <1>1, <1>10 DEF j, m, n, x, y, p, q

\* Words before a line.
LEMMA LeadFits ==
    ASSUME NEW line \in Line, NEW n \in Nat, NEW after \in Nat
    PROVE  /\ Join(<<Spoken(n)>>, line) \in Line
           /\ Fits(Join(<<Spoken(n)>>, line), 0, after) <=> Fits(line, n, after)
<1> DEFINE lead == <<Spoken(n)>>
           m == Len(line)
           y == IF m = 1 THEN after ELSE 0
           w == Head(line).words
<1>1. /\ lead \in Line /\ Len(lead) = 1 /\ DOMAIN lead = 1..1 /\ lead[1].words = n
      /\ ~lead[1].special /\ Last(lead).words = n
  BY DEF Line, Spoken, Utterance, Last
<1>2. /\ DOMAIN line = 1..m /\ m \in Nat /\ m >= 1 /\ Head(line) = line[1] /\ w \in Nat /\ 1 \in 1..m
  BY LinesAre DEF Utterance
<1>3. y \in Nat /\ (m = 1 => y = after) /\ (m # 1 => y = 0)
  OBVIOUS
<1>4. w = line[1].words
  BY <1>2
<1> HIDE DEF lead, w
<1>5. /\ Join(lead, line) \in Line
      /\ Fits(Join(lead, line), 0, after) <=> Fits(lead, 0, w + y) /\ Fits(line, n + 0, after)
  <2>1. Fits(Join(lead, line), 0, after) <=>
           /\ Fits(lead, 0, Head(line).words + (IF Len(line) = 1 THEN after ELSE 0))
           /\ Fits(line, Last(lead).words + (IF Len(lead) = 1 THEN 0 ELSE 0), after)
    BY <1>1, JoinFits
  <2> QED BY <1>1, <2>1, JoinedLine DEF w
<1> HIDE DEF m, y
<1>6. Fits(line, n, after) => Fits(lead, 0, w + y)
  <2> SUFFICES ASSUME Fits(line, n, after) PROVE Fits(lead, 0, w + y)
    OBVIOUS
  <2>1. w + n + (IF 1 = m THEN after ELSE 0) <= MaxWords
    BY <1>2, <1>4 DEF Fits, m
  <2>2. n + (IF 1 = 1 THEN 0 ELSE 0) + (IF 1 = 1 THEN w + y ELSE 0) <= MaxWords
    BY <1>2, <1>3, <2>1 DEF MaxWords
  <2> QED BY <1>1, <2>2 DEF Fits
<1>7. n + 0 = n
  OBVIOUS
<1> QED BY <1>5, <1>6, <1>7 DEF lead

\* Words after a line, and a short sentence.
LEMMA TrailFits ==
    ASSUME NEW line \in Line, NEW before \in Nat, NEW n \in Nat, NEW k \in 0..1
    PROVE  /\ Join(line, <<Spoken(n), Spoken(k)>>) \in Line
           /\ Fits(Join(line, <<Spoken(n), Spoken(k)>>), before, 0) <=> Fits(line, before, n)
<1> DEFINE trail == <<Spoken(n), Spoken(k)>>
           m == Len(line)
           x == IF m = 1 THEN before ELSE 0
           w == Last(line).words
<1>1. /\ trail \in Line /\ Len(trail) = 2 /\ DOMAIN trail = 1..2
      /\ trail[1].words = n /\ trail[2].words = k
      /\ ~trail[1].special /\ ~trail[2].special /\ Head(trail).words = n
  BY DEF Line, Spoken, Utterance
<1>2. /\ DOMAIN line = 1..m /\ m \in Nat /\ m >= 1 /\ w = line[m].words /\ w \in Nat /\ m \in 1..m
  BY LinesAre DEF Utterance, Last
<1>3. x \in Nat /\ (m = 1 => x = before) /\ (m # 1 => x = 0)
  OBVIOUS
<1> HIDE DEF trail, w
<1>5. /\ Join(line, trail) \in Line
      /\ Fits(Join(line, trail), before, 0) <=> Fits(line, before, n + 0) /\ Fits(trail, w + x, 0)
  <2>1. Fits(Join(line, trail), before, 0) <=>
           /\ Fits(line, before, Head(trail).words + (IF Len(trail) = 1 THEN 0 ELSE 0))
           /\ Fits(trail, Last(line).words + (IF Len(line) = 1 THEN before ELSE 0), 0)
    BY <1>1, JoinFits
  <2> QED BY <1>1, <2>1, JoinedLine DEF w
<1> HIDE DEF m, x
<1>6. Fits(line, before, n) => Fits(trail, w + x, 0)
  <2> SUFFICES ASSUME Fits(line, before, n) PROVE Fits(trail, w + x, 0)
    OBVIOUS
  <2>1. w + (IF m = 1 THEN before ELSE 0) + n <= MaxWords
    BY <1>2 DEF Fits, m
  <2>2. n + (w + x) + 0 <= MaxWords /\ k + 0 + 0 <= MaxWords
    BY <1>2, <1>3, <2>1 DEF MaxWords
  <2>3. \A i \in 1..2 : i = 1 \/ i = 2
    OBVIOUS
  <2> QED BY <1>1, <2>2, <2>3 DEF Fits
<1>7. n + 0 = n
  OBVIOUS
<1> QED BY <1>5, <1>6, <1>7 DEF trail

\* An empty sentence may become one word where there is room for it.
LEMMA MarksFit ==
    ASSUME NEW low \in Line, NEW high \in Line, Len(high) = Len(low),
           \A i \in 1..Len(low) :
              /\ high[i].special <=> low[i].special
              /\ high[i].words = low[i].words \/ (low[i].words = 0 /\ high[i].words = 1),
           NEW before \in Nat, NEW after \in Nat, before + after < MaxWords
    PROVE  Fits(high, before, after) <=> Fits(low, before, after)
<1> DEFINE n == Len(low)
           Room(i) == (IF i = 1 THEN before ELSE 0) + (IF i = n THEN after ELSE 0)
<1>1. DOMAIN low = 1..n /\ DOMAIN high = 1..n /\ n \in Nat /\ Len(high) = n /\ Len(low) = n
  BY LinesAre
<1>2. \A i \in 1..n : low[i].words \in Nat /\ high[i].words \in Nat
  <2>1. \A z \in Utterance : z.words \in Nat
    BY DEF Utterance
  <2> QED BY <2>1, LinesAre
<1>3. \A i \in 1..n : Room(i) \in Nat /\ Room(i) < MaxWords
  BY DEF MaxWords
<1>4. \A i \in 1..n :
         /\ high[i].words + (IF i = 1 THEN before ELSE 0) + (IF i = n THEN after ELSE 0)
                = high[i].words + Room(i)
         /\ low[i].words + (IF i = 1 THEN before ELSE 0) + (IF i = n THEN after ELSE 0)
                = low[i].words + Room(i)
  BY <1>2
<1>9. \A i \in 1..n : high[i].words = low[i].words \/ (low[i].words = 0 /\ high[i].words = 1)
  OBVIOUS
<1> HIDE DEF n, Room
<1>5. ASSUME NEW i \in 1..n PROVE high[i].words + Room(i) <= MaxWords <=> low[i].words + Room(i) <= MaxWords
  <2>1. CASE high[i].words = low[i].words
    BY <2>1
  <2>2. CASE low[i].words = 0 /\ high[i].words = 1
    <3>1. 1 + Room(i) <= MaxWords /\ 0 + Room(i) <= MaxWords
      BY <1>3 DEF MaxWords
    <3> QED BY <2>2, <3>1
  <2> QED BY <1>9, <2>1, <2>2
<1>6. \A i \in 1..n : high[i].special <=> low[i].special
  BY DEF n
<1>7. Fits(high, before, after) <=> \A i \in 1..n : high[i].words + Room(i) <= MaxWords /\ ~high[i].special
  BY <1>1, <1>4 DEF Fits
<1>8. Fits(low, before, after) <=> \A i \in 1..n : low[i].words + Room(i) <= MaxWords /\ ~low[i].special
  BY <1>1, <1>4 DEF Fits
<1> QED BY <1>5, <1>6, <1>7, <1>8

\* A mark makes at most an empty sentence one word.
LEMMA MarkedIs ==
    ASSUME NEW z \in Utterance
    PROVE  /\ Marked(z) \in Utterance /\ Marked(z).special = z.special
           /\ Marked(z).words = IF z.words = 0 THEN 1 ELSE z.words
BY DEF Marked, Utterance

\* A line with a mark after it.
LEMMA ClosedLine ==
    ASSUME NEW line \in Line
    PROVE  /\ ClosedBy(line) \in Line /\ Len(ClosedBy(line)) = Len(line)
           /\ \A i \in 1..(Len(line) - 1) : ClosedBy(line)[i] = line[i]
           /\ ClosedBy(line)[Len(line)] = Marked(line[Len(line)])
<1> DEFINE m == Len(line)
           front == SubSeq(line, 1, m - 1)
           z == Marked(line[m])
           r == front \o <<z>>
<1>1. m \in Nat /\ m >= 1 /\ line \in Seq(Utterance) /\ line[m] \in Utterance
  BY LinesAre DEF Line
<1>2. z \in Utterance
  BY <1>1, MarkedIs
<1>3. ClosedBy(line) = r
  BY DEF ClosedBy, Front, Last
<1>4. front \in Seq(Utterance) /\ Len(front) = m - 1 /\ \A i \in 1..(m - 1) : front[i] = line[i]
  BY <1>1, SubSeqFront
<1> HIDE DEF front, z, m
<1>5. /\ r \in Seq(Utterance) /\ Len(r) = m
      /\ \A i \in 1..(m - 1) : r[i] = front[i]
      /\ r[m] = z
  BY <1>1, <1>2, <1>4
<1> HIDE DEF r
<1>6. r # <<>>
  BY <1>1, <1>5
<1> QED BY <1>3, <1>4, <1>5, <1>6 DEF Line, m, z

\* A line with a mark before it.
LEMMA OpenedLine ==
    ASSUME NEW line \in Line
    PROVE  /\ OpenedBy(line) \in Line /\ Len(OpenedBy(line)) = Len(line)
           /\ OpenedBy(line)[1] = Marked(line[1])
           /\ \A i \in 2..Len(line) : OpenedBy(line)[i] = line[i]
<1> DEFINE m == Len(line)
           tail == Tail(line)
           z == Marked(line[1])
           r == <<z>> \o tail
<1>1. m \in Nat /\ m >= 1 /\ line \in Seq(Utterance) /\ line # <<>> /\ line[1] \in Utterance /\ Head(line) = line[1]
  BY LinesAre DEF Line
<1>2. z \in Utterance
  BY <1>1, MarkedIs
<1>3. OpenedBy(line) = r
  BY <1>1 DEF OpenedBy
<1>4. tail \in Seq(Utterance) /\ Len(tail) = m - 1 /\ \A i \in 1..(m - 1) : tail[i] = line[i + 1]
  BY <1>1
<1> HIDE DEF tail, z, m
<1>5. r \in Seq(Utterance) /\ Len(r) = m /\ r[1] = z
  BY <1>1, <1>2, <1>4
<1>6. ASSUME NEW i \in 2..m PROVE r[i] = line[i]
  <2>1. r[i] = tail[i - 1] /\ i - 1 \in 1..(m - 1) /\ (i - 1) + 1 = i
    BY <1>1, <1>2, <1>4
  <2> QED BY <1>4, <2>1
<1> HIDE DEF r
<1>7. r # <<>>
  BY <1>1, <1>5
<1> QED BY <1>3, <1>5, <1>6, <1>7 DEF Line, m, z

\* Room after a line is room after its last sentence.
LEMMA TrailRoom ==
    ASSUME NEW line \in Line, NEW before \in Nat, NEW h \in Nat
    PROVE  Fits(line, before, h) <=>
              /\ Fits(line, before, 0)
              /\ Last(line).words + (IF Len(line) = 1 THEN before ELSE 0) + h <= MaxWords
<1> DEFINE n == Len(line)
           w == Last(line).words
<1>1. /\ DOMAIN line = 1..n /\ n \in Nat /\ n >= 1 /\ n \in 1..n
      /\ w = line[n].words /\ Len(line) = n
      /\ \A i \in 1..n : line[i].words \in Nat
  <2>1. \A z \in Utterance : z.words \in Nat
    BY DEF Utterance
  <2> QED BY <2>1, LinesAre DEF Last
<1> HIDE DEF n, w
<1>2. ASSUME Fits(line, before, h) PROVE Fits(line, before, 0) /\ w + (IF n = 1 THEN before ELSE 0) + h <= MaxWords
  <2>1. w + (IF n = 1 THEN before ELSE 0) + h <= MaxWords
    BY <1>1, <1>2 DEF Fits
  <2>2. ASSUME NEW i \in 1..n
        PROVE  /\ line[i].words + (IF i = 1 THEN before ELSE 0) + (IF i = n THEN 0 ELSE 0) <= MaxWords
               /\ ~line[i].special
    <3>1. /\ line[i].words + (IF i = 1 THEN before ELSE 0) + (IF i = n THEN h ELSE 0) <= MaxWords
          /\ ~line[i].special
      BY <1>1, <1>2 DEF Fits
    <3>2. line[i].words \in Nat
      BY <1>1
    <3> QED BY <3>1, <3>2 DEF MaxWords
  <2>3. Fits(line, before, 0)
    BY <1>1, <2>2 DEF Fits
  <2> QED BY <2>1, <2>3
<1>3. ASSUME Fits(line, before, 0), w + (IF n = 1 THEN before ELSE 0) + h <= MaxWords, NEW i \in 1..n
      PROVE  /\ line[i].words + (IF i = 1 THEN before ELSE 0) + (IF i = n THEN h ELSE 0) <= MaxWords
             /\ ~line[i].special
  <2>1. /\ line[i].words + (IF i = 1 THEN before ELSE 0) + (IF i = n THEN 0 ELSE 0) <= MaxWords
        /\ ~line[i].special
    BY <1>1, <1>3 DEF Fits
  <2>2. line[i].words \in Nat
    BY <1>1
  <2>3. CASE i = n
    BY <1>1, <1>3, <2>1, <2>2, <2>3 DEF MaxWords
  <2>4. CASE i # n
    BY <2>1, <2>2, <2>4 DEF MaxWords
  <2> QED BY <2>3, <2>4
<1>4. Fits(line, before, 0) /\ w + (IF n = 1 THEN before ELSE 0) + h <= MaxWords => Fits(line, before, h)
  BY <1>1, <1>3 DEF Fits
<1> QED BY <1>2, <1>4 DEF n, w

\* A quoted line: only empty sentences at its ends have changed.
LEMMA QuotedLine ==
    ASSUME NEW line \in Line, NEW quoted, quoted = OpenedBy(ClosedBy(line))
    PROVE  /\ quoted \in Line /\ Len(quoted) = Len(line)
           /\ \A i \in 1..Len(line) :
                 /\ quoted[i].special <=> line[i].special
                 /\ quoted[i].words = line[i].words \/ (line[i].words = 0 /\ quoted[i].words = 1)
           /\ Last(quoted).words = IF Last(line).words = 0 THEN 1 ELSE Last(line).words
<1> DEFINE closed == ClosedBy(line)
           n == Len(line)
<1>1. /\ closed \in Line /\ Len(closed) = n /\ closed[n] = Marked(line[n])
      /\ \A i \in 1..(n - 1) : closed[i] = line[i]
  BY ClosedLine
<1> HIDE DEF closed
<1>2. /\ quoted \in Line /\ Len(quoted) = n /\ quoted[1] = Marked(closed[1])
      /\ \A i \in 2..n : quoted[i] = closed[i]
  BY <1>1, OpenedLine DEF closed
<1>3. /\ n \in Nat /\ n >= 1 /\ \A i \in 1..n : line[i] \in Utterance /\ closed[i] \in Utterance
      /\ Last(line) = line[n] /\ Last(quoted) = quoted[n]
  <2>1. n \in Nat /\ n >= 1 /\ \A i \in 1..n : line[i] \in Utterance
    BY LinesAre
  <2>2. \A i \in 1..n : closed[i] \in Utterance
    BY <1>1, LinesAre
  <2> QED BY <1>2, <2>1, <2>2 DEF Last
<1> HIDE DEF n
<1>4. \A z \in Utterance : /\ Marked(z).special = z.special /\ z.words \in Nat
                       /\ Marked(z).words = IF z.words = 0 THEN 1 ELSE z.words
  BY MarkedIs DEF Utterance
<1>5. ASSUME NEW i \in 1..n
      PROVE  /\ closed[i].special = line[i].special
             /\ closed[i].words = line[i].words \/ (line[i].words = 0 /\ closed[i].words = 1)
             /\ i = n => closed[i].words = IF line[i].words = 0 THEN 1 ELSE line[i].words
  <2>1. i \in 1..(n - 1) \/ i = n
    BY <1>3
  <2>2. i \in 1..(n - 1) => i # n
    BY <1>3
  <2> QED BY <1>1, <1>3, <1>4, <2>1, <2>2
<1>6. ASSUME NEW i \in 1..n
      PROVE  /\ quoted[i].special = closed[i].special
             /\ quoted[i].words = IF i = 1 /\ closed[i].words = 0 THEN 1 ELSE closed[i].words
  <2>1. i \in 2..n \/ i = 1
    BY <1>3
  <2>2. i \in 2..n => i # 1
    BY <1>3
  <2> QED BY <1>2, <1>3, <1>4, <2>1, <2>2
<1>7. n \in 1..n
  BY <1>3
<1>8. Last(quoted).words = IF Last(line).words = 0 THEN 1 ELSE Last(line).words
  BY <1>3, <1>4, <1>5, <1>6, <1>7
<1>9. \A i \in 1..n : /\ quoted[i].special <=> line[i].special
                      /\ quoted[i].words = line[i].words \/ (line[i].words = 0 /\ quoted[i].words = 1)
  BY <1>5, <1>6
<1> QED BY <1>2, <1>8, <1>9 DEF n

\* The line of an objection fits exactly when its texts do.
LEMMA ObjectionLineFits ==
    ASSUME NEW trigger \in Line, NEW response \in Line
    PROVE  LET line == Join(Join(<<Spoken(4)>>, OpenedBy(ClosedBy(trigger))), response)
           IN  line \in Line /\ (Fits(line, 0, 0) <=> ObjectionFits(trigger, response))
<1> DEFINE quoted == OpenedBy(ClosedBy(trigger))
           lead == <<Spoken(4)>>
           left == Join(lead, quoted)
           h == Head(response).words
           w == Last(quoted).words
           x == IF Len(trigger) = 1 THEN 4 ELSE 0
           line == Join(left, response)
<1>1. /\ quoted \in Line /\ Len(quoted) = Len(trigger)
      /\ \A i \in 1..Len(trigger) :
            /\ quoted[i].special <=> trigger[i].special
            /\ quoted[i].words = trigger[i].words \/ (trigger[i].words = 0 /\ quoted[i].words = 1)
      /\ w = IF Last(trigger).words = 0 THEN 1 ELSE Last(trigger).words
  BY QuotedLine
<1> HIDE DEF quoted
<1>2. Fits(quoted, 4, 0) <=> Fits(trigger, 4, 0)
  BY <1>1, MarksFit DEF MaxWords
<1>3. /\ lead \in Line /\ Len(lead) = 1 /\ lead[1].words = 4
  BY DEF Line, Spoken, Utterance
<1>4. left \in Line /\ \A k \in Nat : Fits(left, 0, k) <=> Fits(quoted, 4, k)
  BY <1>1, LeadFits
<1>5. Len(left) = Len(trigger) /\ Last(left).words = w + x
  <2> DEFINE m == Len(quoted)
  <2>1. /\ Len(left) = 1 + m - 1 /\ left[1] = Met(lead, quoted)
        /\ \A i \in 2..m : left[1 + i - 1] = quoted[i]
    <3> HIDE DEF lead, left, m
    <3> DEFINE j == Join(lead, quoted)
    <3>1. /\ Len(j) = Len(lead) + Len(quoted) - 1
          /\ j[Len(lead)] = Met(lead, quoted)
          /\ \A i \in 2..Len(quoted) : j[Len(lead) + i - 1] = quoted[i]
      <4>1. lead \in Line /\ quoted \in Line
        BY <1>1, <1>3
      <4> QED BY <4>1, JoinedLine, Zenon
    <3>2. left = j
      BY DEF left
    <3> HIDE DEF j
    <3> QED BY <1>3, <3>1, <3>2 DEF m
  <2>2. m \in Nat /\ m >= 1 /\ Head(quoted) = quoted[1] /\ w = quoted[m].words /\ w \in Nat
    BY <1>1, LinesAre DEF Last, Utterance
  <2>3. Len(left) = m /\ Last(left) = left[m]
    BY <2>1, <2>2 DEF Last
  <2>4. CASE m = 1
    <3>1. Met(lead, quoted).words = 4 + w
      BY <1>3, <2>2, <2>4 DEF Met, Last
    <3>2. x = 4 /\ Len(left) = Len(trigger) /\ Last(left) = Met(lead, quoted)
      BY <1>1, <2>1, <2>3, <2>4
    <3> HIDE DEF left, w, x, lead
    <3>3. w + x = 4 + w
      BY <2>2, <3>2
    <3> QED BY <3>1, <3>2, <3>3
  <2>5. CASE m # 1
    <3>1. m \in 2..m /\ 1 + m - 1 = m
      <4> HIDE DEF m
      <4> QED BY <2>2, <2>5
    <3>2. left[m] = quoted[m]
      BY <2>1, <3>1
    <3> QED BY <1>1, <2>2, <2>3, <2>5, <3>2
  <2> QED BY <2>4, <2>5
<1>6. /\ Head(response) = response[1] /\ h \in Nat /\ w \in Nat /\ x \in Nat
      /\ 1 \in 1..Len(response) /\ DOMAIN response = 1..Len(response)
  BY <1>1, LinesAre DEF Utterance, Last
<1> HIDE DEF left, lead, w, x
<1>7. /\ line \in Line
      /\ Fits(line, 0, 0) <=> Fits(left, 0, h) /\ Fits(response, w + x, 0)
  <2>1. Fits(line, 0, 0) <=>
           /\ Fits(left, 0, Head(response).words + (IF Len(response) = 1 THEN 0 ELSE 0))
           /\ Fits(response, Last(left).words + (IF Len(left) = 1 THEN 0 ELSE 0), 0)
    BY <1>4, JoinFits
  <2>2. h + (IF Len(response) = 1 THEN 0 ELSE 0) = h /\ (w + x) + (IF Len(left) = 1 THEN 0 ELSE 0) = w + x
    BY <1>6
  <2>3. line \in Line
    BY <1>4, JoinedLine
  <2> QED BY <1>5, <2>1, <2>2, <2>3
<1>8. Fits(quoted, 4, h) <=> Fits(quoted, 4, 0) /\ w + x + h <= MaxWords
  BY <1>1, <1>6, TrailRoom DEF w, x
<1>9. Fits(response, w + x, 0) => w + x + h <= MaxWords
  <2> SUFFICES ASSUME Fits(response, w + x, 0) PROVE w + x + h <= MaxWords
    OBVIOUS
  <2>1. h + (w + x) + (IF 1 = Len(response) THEN 0 ELSE 0) <= MaxWords
    BY <1>6 DEF Fits
  <2> QED BY <1>6, <2>1 DEF MaxWords
<1> HIDE DEF line, h
<1>10. Fits(line, 0, 0) <=> Fits(trigger, 4, 0) /\ Fits(response, w + x, 0)
  BY <1>2, <1>4, <1>6, <1>7, <1>8, <1>9
<1>11. ObjectionFits(trigger, response) <=> Fits(trigger, 4, 0) /\ Fits(response, w + x, 0)
  BY <1>1 DEF ObjectionFits, x
<1> QED BY <1>7, <1>10, <1>11 DEF line, left, lead, quoted

\* A stretch of a template's text, and values for its variables.
Unspoken == [slots : Seq(Slot), words : Nat, special : BOOLEAN, number : BOOLEAN]
Valued(z, lead) == \A i \in 1..Len(z.slots) : lead[z.slots[i].variable] \in Value

\* Lines of a sentence.
LEMMA OneSentence ==
    ASSUME NEW z \in Utterance
    PROVE  <<z>> \in Line /\ Len(<<z>>) = 1 /\ Head(<<z>>) = z /\ Last(<<z>>) = z /\ <<z>>[1] = z
BY DEF Line, Last

LEMMA SpokenIs ==
    ASSUME NEW n \in Nat
    PROVE  Spoken(n) \in Utterance /\ Spoken(n).words = n /\ Spoken(n).special = FALSE
BY DEF Spoken, Utterance

\* Lines of one sentence that has only its words.
LEMMA SpokenLine ==
    ASSUME NEW n \in Nat
    PROVE  /\ <<Spoken(n)>> \in Line /\ Len(<<Spoken(n)>>) = 1 /\ DOMAIN <<Spoken(n)>> = {1}
           /\ <<Spoken(n)>>[1] = Spoken(n) /\ Head(<<Spoken(n)>>) = Spoken(n)
           /\ Last(<<Spoken(n)>>) = Spoken(n)
<1> DEFINE z == Spoken(n)
<1>1. z \in Utterance
  BY SpokenIs
<1> HIDE DEF z
<1>2. <<z>> \in Line /\ Len(<<z>>) = 1 /\ <<z>>[1] = z /\ Head(<<z>>) = z /\ Last(<<z>>) = z
  BY <1>1, OneSentence
<1>3. DOMAIN <<z>> = {1}
  OBVIOUS
<1> QED BY <1>2, <1>3 DEF z

\* What a line of one sentence becomes when another is joined to it.
LEMMA SpokenJoined ==
    ASSUME NEW n \in Nat, NEW line \in Line
    PROVE  LET j == Join(<<Spoken(n)>>, line)
           IN  /\ j \in Line /\ Len(j) = Len(line) /\ j[1] = Met(<<Spoken(n)>>, line)
               /\ j[1].words = n + line[1].words /\ (j[1].special <=> line[1].special)
               /\ \A i \in 2..Len(line) : j[i] = line[i]
<1> DEFINE lead == <<Spoken(n)>>
           led == Join(lead, line)
           l == Len(lead)
           m == Len(line)
           last == Last(lead)
           head == Head(line)
<1>1. lead \in Line /\ l = 1 /\ last.words = n /\ last.special = FALSE
  BY SpokenLine, SpokenIs
<1>2. m \in Nat /\ m >= 1 /\ head = line[1]
  BY LinesAre
<1> HIDE DEF lead
<1>3. /\ led \in Line /\ Len(led) = l + m - 1 /\ led[l] = Met(lead, line)
      /\ \A i \in 2..m : led[l + i - 1] = line[i]
  BY <1>1, JoinedLine
<1>4. led[1].words = last.words + head.words /\ led[1].special = (last.special \/ head.special)
  <2> HIDE DEF led
  <2>1. led[1] = Met(lead, line)
    BY <1>1, <1>3
  <2> QED BY <2>1 DEF Met
<1> HIDE DEF led, l, m, last, head
<1>5. led \in Line /\ Len(led) = m /\ led[1] = Met(lead, line)
  BY <1>1, <1>2, <1>3
<1>6. \A i \in 2..m : led[i] = line[i]
  <2> SUFFICES ASSUME NEW i \in 2..m PROVE led[i] = line[i]
    OBVIOUS
  <2>1. led[l + i - 1] = line[i] /\ l + i - 1 = i
    BY <1>1, <1>2, <1>3
  <2> QED BY <2>1
<1>7. led[1].words = n + line[1].words /\ (led[1].special <=> line[1].special)
  BY <1>1, <1>2, <1>4
<1> QED BY <1>5, <1>6, <1>7 DEF led, m, lead

\* What follows a line makes a line of it.
LEMMA FollowLine ==
    ASSUME NEW left \in Line, NEW right \in Line, NEW digit \in BOOLEAN
    PROVE  /\ Follow(left, digit, right) \in Line
           /\ digit => Follow(left, digit, right) = Join(left, right)
           /\ ~digit => Follow(left, digit, right) = left \o right
<1>1. CASE digit
  BY <1>1, JoinedLine DEF Follow
<1>2. CASE ~digit
  <2>1. left \in Seq(Utterance) /\ right \in Seq(Utterance) /\ Len(right) \in Nat /\ Len(right) >= 1
    BY LinesAre DEF Line
  <2>2. left \o right \in Seq(Utterance) /\ Len(left \o right) = Len(left) + Len(right)
    BY <2>1
  <2>3. left \o right # <<>>
    <3> DEFINE s == left \o right
    <3>1. Len(s) # 0
      BY <2>1, <2>2
    <3> HIDE DEF s
    <3>2. s # <<>>
      BY <3>1
    <3> QED BY <3>2 DEF s
  <2> QED BY <1>2, <2>2, <2>3 DEF Follow, Line
<1> QED BY <1>1, <1>2

\* said is the function that Said defines, up to n slots.
Says(said, z, lead, n) ==
    said = [i \in 0..n |->
        IF i = 0 THEN <<Spoken(0)>>
        ELSE Join(Join(said[i - 1], <<Spoken(z.slots[i].words)>>), lead[z.slots[i].variable].line)]

\* There is such a function.
LEMMA SaysExists == ASSUME NEW z, NEW lead, NEW n \in Nat PROVE \E said : Says(said, z, lead, n)
<1> DEFINE T == {m \in Nat : \E said : Says(said, z, lead, m)}
<1>1. 0 \in T
  <2> DEFINE c == [i \in 0..0 |-> <<Spoken(0)>>]
  <2>1. Says(c, z, lead, 0)
    BY DEF Says
  <2> QED BY <2>1
<1>2. ASSUME NEW m \in Nat, m \in T PROVE m + 1 \in T
  <2>1. PICK c : Says(c, z, lead, m)
    BY <1>2
  <2> DEFINE G(b, i) == Join(Join(b, <<Spoken(z.slots[i].words)>>), lead[z.slots[i].variable].line)
             next == G(c[m], m + 1)
             d == [i \in 0..(m + 1) |-> IF i = m + 1 THEN next ELSE c[i]]
  <2>2. \A i \in 0..m : c[i] = IF i = 0 THEN <<Spoken(0)>> ELSE G(c[i - 1], i)
    BY <2>1 DEF Says
  <2> HIDE DEF G
  <2>3. ASSUME NEW i \in 0..(m + 1) PROVE d[i] = IF i = 0 THEN <<Spoken(0)>> ELSE G(d[i - 1], i)
    <3>1. CASE i = m + 1
      BY <3>1
    <3>2. CASE i # m + 1
      <4>1. i \in 0..m /\ (i = 0 \/ i - 1 \in 0..m) /\ i - 1 # m + 1
        BY <3>2
      <4>2. d[i] = c[i] /\ (i # 0 => d[i - 1] = c[i - 1])
        BY <4>1, <3>2
      <4> HIDE DEF d, next
      <4> QED BY <2>2, <4>1, <4>2
    <3> QED BY <3>1, <3>2
  <2>4. d = [i \in 0..(m + 1) |-> IF i = 0 THEN <<Spoken(0)>> ELSE G(d[i - 1], i)]
    BY <2>3
  <2> HIDE DEF d
  <2>5. Says(d, z, lead, m + 1)
    BY <2>4 DEF Says, G
  <2> QED BY <2>5
<1> QED BY <1>1, <1>2, AllNat

\* What is said of a stretch: its slots one after the other, each a line.
LEMMA SaidIs ==
    ASSUME NEW z \in Unspoken, NEW lead, Valued(z, lead)
    PROVE  /\ Said(z, lead) \in Line
           /\ \E said :
                 /\ said[0] = <<Spoken(0)>>
                 /\ \A i \in 1..Len(z.slots) :
                       said[i] = Join(Join(said[i - 1], <<Spoken(z.slots[i].words)>>),
                                      lead[z.slots[i].variable].line)
                 /\ \A i \in 0..Len(z.slots) : said[i] \in Line
                 /\ Said(z, lead) = Join(said[Len(z.slots)], <<[words |-> z.words, special |-> z.special]>>)
<1> DEFINE n == Len(z.slots)
           f == CHOOSE said : Says(said, z, lead, n)
           W(i) == z.slots[i].words
           V(i) == lead[z.slots[i].variable].line
           last == [words |-> z.words, special |-> z.special]
<1>1. /\ z.slots \in Seq(Slot) /\ n \in Nat /\ last \in Utterance
      /\ \A i \in 1..n : z.slots[i] \in Slot
  BY DEF Unspoken, Utterance
<1>2. Says(f, z, lead, n)
  <2> HIDE DEF n
  <2> QED BY <1>1, SaysExists
<1>3. Said(z, lead) = Join(f[n], <<last>>)
  BY DEF Said, Says
<1>4. \A i \in 1..n : <<Spoken(W(i))>> \in Line /\ V(i) \in Line
  <2> SUFFICES ASSUME NEW i \in 1..n PROVE <<Spoken(W(i))>> \in Line /\ V(i) \in Line
    OBVIOUS
  <2>1. W(i) \in Nat
    BY <1>1 DEF Slot
  <2>2. V(i) \in Line
    BY DEF Valued, Value
  <2> QED BY <2>1, <2>2, SpokenIs, OneSentence
<1> HIDE DEF f, n, last
<1>5. ASSUME NEW i \in 0..n
      PROVE  f[i] = IF i = 0 THEN <<Spoken(0)>> ELSE Join(Join(f[i - 1], <<Spoken(W(i))>>), V(i))
  BY <1>2 DEF Says
<1> HIDE DEF W, V
<1>6. f[0] = <<Spoken(0)>> /\ \A i \in 1..n : f[i] = Join(Join(f[i - 1], <<Spoken(W(i))>>), V(i))
  <2>1. 0 \in 0..n /\ \A i \in 1..n : i \in 0..n /\ i # 0
    BY <1>1
  <2> QED BY <1>5, <2>1, Zenon
<1> DEFINE T == {i \in 0..n : f[i] \in Line}
<1>7. 0 \in T
  <2>1. 0 \in 0..n /\ <<Spoken(0)>> \in Line
    BY <1>1, SpokenLine
  <2> QED BY <1>6, <2>1
<1>8. ASSUME NEW i \in 0..(n - 1), i \in T PROVE i + 1 \in T
  <2> DEFINE k == i + 1
  <2>1. k \in 1..n /\ k \in 0..n /\ k - 1 = i /\ f[i] \in Line
    BY <1>1, <1>8
  <2> HIDE DEF k
  <2>2. f[k] = Join(Join(f[i], <<Spoken(W(k))>>), V(k))
    BY <1>6, <2>1
  <2> DEFINE j == Join(f[i], <<Spoken(W(k))>>)
  <2>3. j \in Line /\ V(k) \in Line
    BY <1>4, <2>1, JoinedLine
  <2>4. f[k] = Join(j, V(k))
    BY <2>2
  <2> HIDE DEF j
  <2>5. f[k] \in Line
    BY <2>3, <2>4, JoinedLine
  <2>6. k \in T
    BY <2>1, <2>5
  <2> QED BY <2>6 DEF k
<1>9. 0..n \subseteq T
  <2> HIDE DEF T
  <2> QED BY <1>1, <1>7, <1>8, UpTo
<1>10. Said(z, lead) \in Line
  <2>1. f[n] \in Line /\ <<last>> \in Line
    BY <1>1, <1>9, OneSentence
  <2> QED BY <1>3, <2>1, JoinedLine
<1> QED BY <1>3, <1>6, <1>9, <1>10 DEF n, W, V, last

\* A digit is at the end or not.
LEMMA DigitIs ==
    ASSUME NEW z \in Unspoken, NEW lead, Valued(z, lead)
    PROVE  /\ EndsInDigit(z, lead) \in BOOLEAN
           /\ (z.words # 0 \/ Len(z.slots) = 0) => EndsInDigit(z, lead) = z.number
<1>1. z.slots \in Seq(Slot) /\ z.number \in BOOLEAN /\ Len(z.slots) \in Nat
  BY DEF Unspoken
<1>2. ASSUME z.slots # <<>> PROVE Len(z.slots) # 0 /\ lead[Last(z.slots).variable].number \in BOOLEAN
  <2>1. Len(z.slots) \in 1..Len(z.slots)
    BY <1>1, <1>2, EmptySeq
  <2> QED BY <2>1 DEF Valued, Value, Last
<1> QED BY <1>1, <1>2 DEF EndsInDigit

\* line is the function that Sub defines, up to n stretches.
Lays(line, text, lead, n) ==
    line = [i \in 1..n |->
        IF i = 1 THEN Said(text[1], lead)
        ELSE Follow(line[i - 1], EndsInDigit(text[i - 1], lead), Said(text[i], lead))]

\* There is such a function.
LEMMA LaysExists == ASSUME NEW text, NEW lead, NEW n \in Nat PROVE \E line : Lays(line, text, lead, n)
<1> DEFINE T == {m \in Nat : \E line : Lays(line, text, lead, m)}
           first == Said(text[1], lead)
           G(b, i) == Follow(b, EndsInDigit(text[i - 1], lead), Said(text[i], lead))
<1>1. 0 \in T
  <2> DEFINE c == [i \in 1..0 |-> first]
  <2>1. Lays(c, text, lead, 0)
    BY DEF Lays
  <2> QED BY <2>1
<1>2. ASSUME NEW m \in Nat, m \in T PROVE m + 1 \in T
  <2>1. PICK c : Lays(c, text, lead, m)
    BY <1>2
  <2> DEFINE next == IF m + 1 = 1 THEN first ELSE G(c[m], m + 1)
             d == [i \in 1..(m + 1) |-> IF i = m + 1 THEN next ELSE c[i]]
  <2>2. \A i \in 1..m : c[i] = IF i = 1 THEN first ELSE G(c[i - 1], i)
    BY <2>1 DEF Lays
  <2> HIDE DEF G, first
  <2>3. ASSUME NEW i \in 1..(m + 1) PROVE d[i] = IF i = 1 THEN first ELSE G(d[i - 1], i)
    <3>1. CASE i = m + 1
      <4>1. i = 1 \/ (i # 1 /\ m \in 1..(m + 1) /\ m # m + 1)
        BY <3>1
      <4> QED BY <3>1, <4>1
    <3>2. CASE i # m + 1
      <4>1. i \in 1..m /\ (i = 1 \/ i - 1 \in 1..m) /\ i - 1 # m + 1
        BY <3>2
      <4>2. d[i] = c[i] /\ (i # 1 => d[i - 1] = c[i - 1])
        BY <4>1, <3>2
      <4> HIDE DEF d, next
      <4> QED BY <2>2, <4>1, <4>2
    <3> QED BY <3>1, <3>2
  <2>4. d = [i \in 1..(m + 1) |-> IF i = 1 THEN first ELSE G(d[i - 1], i)]
    BY <2>3
  <2> HIDE DEF d
  <2>5. Lays(d, text, lead, m + 1)
    BY <2>4 DEF Lays, G, first
  <2> QED BY <2>5
<1> QED BY <1>1, <1>2, AllNat

\* A text whose variables have values is a line, of its stretches in turn.
LEMMA SubIs ==
    ASSUME NEW text \in Text, NEW lead, \A i \in DOMAIN text : Valued(text[i], lead)
    PROVE  /\ Sub(text, lead) \in Line
           /\ \E line :
                 /\ line[1] = Said(text[1], lead)
                 /\ \A i \in 2..Len(text) :
                       line[i] = Follow(line[i - 1], EndsInDigit(text[i - 1], lead), Said(text[i], lead))
                 /\ Sub(text, lead) = line[Len(text)]
<1> DEFINE n == Len(text)
           f == CHOOSE line : Lays(line, text, lead, n)
           S(i) == Said(text[i], lead)
           D(i) == EndsInDigit(text[i], lead)
<1>1. text \in Seq(Unspoken) /\ text # <<>>
  BY DEF Text, Unspoken
<1>2. DOMAIN text = 1..n /\ n \in Nat /\ n # 0
  BY <1>1, EmptySeq, LenProperties
<1>3. \A i \in 1..n : S(i) \in Line /\ D(i) \in BOOLEAN
  <2> SUFFICES ASSUME NEW i \in 1..n PROVE S(i) \in Line /\ D(i) \in BOOLEAN
    OBVIOUS
  <2>1. text[i] \in Unspoken /\ Valued(text[i], lead)
    BY <1>1, <1>2, ElementOfSeq
  <2> QED BY <2>1, SaidIs, DigitIs
<1>4. Lays(f, text, lead, n)
  <2> HIDE DEF n
  <2> QED BY <1>2, LaysExists
<1>5. Sub(text, lead) = f[n]
  BY DEF Sub, Lays
<1> HIDE DEF f
<1>6. \A i \in 1..n : f[i] = IF i = 1 THEN S(1) ELSE Follow(f[i - 1], D(i - 1), S(i))
  BY <1>4 DEF Lays
<1> HIDE DEF S, D, n
<1>7. /\ f[1] = S(1)
      /\ \A i \in 2..n : f[i] = Follow(f[i - 1], D(i - 1), S(i))
  <2>1. 1 \in 1..n /\ \A i \in 2..n : i \in 1..n /\ i # 1
    BY <1>2
  <2> QED BY <1>6, <2>1
<1> DEFINE m == n - 1
           T == {i \in 0..m : f[i + 1] \in Line}
<1>8. 0 \in T
  <2>1. 1 \in 1..n /\ 0 + 1 = 1 /\ 0 \in 0..m
    BY <1>2
  <2> QED BY <1>3, <1>7, <2>1
<1>9. ASSUME NEW i \in 0..(m - 1), i \in T PROVE i + 1 \in T
  <2> DEFINE k == i + 2
  <2>1. k \in 2..n /\ k \in 1..n /\ k - 1 = i + 1 /\ i + 1 \in 1..n /\ i + 1 \in 0..m /\ (i + 1) + 1 = k
    BY <1>2
  <2> HIDE DEF k
  <2>2. f[k] = Follow(f[i + 1], D(i + 1), S(k)) /\ f[i + 1] \in Line
    BY <1>7, <1>9, <2>1
  <2>3. f[k] \in Line
    BY <1>3, <2>1, <2>2, FollowLine
  <2> QED BY <2>1, <2>3
<1>10. f[n] \in Line
  <2>1. m \in Nat /\ m \in 0..m /\ m + 1 = n
    BY <1>2
  <2> HIDE DEF m
  <2>2. 0..m \subseteq T
    <3> HIDE DEF T
    <3> QED BY <1>8, <1>9, <2>1, UpTo
  <2> QED BY <2>1, <2>2
<1> QED BY <1>5, <1>7, <1>10 DEF n, S, D

\* So is a text of which the variables are left as they stand.
LEMMA LiteralIs ==
    ASSUME NEW text \in Text
    PROVE  /\ \A i \in DOMAIN text : Valued(text[i], Braces(text))
           /\ Literal(text) \in Line /\ LiteralDigit(text) \in BOOLEAN
<1>1. text \in Seq(Unspoken) /\ text # <<>>
  BY DEF Text, Unspoken
<1>2. DOMAIN text = 1..Len(text) /\ Len(text) \in Nat /\ Len(text) # 0 /\ Len(text) \in 1..Len(text)
  BY <1>1, EmptySeq, LenProperties
<1> DEFINE lead == Braces(text)
           brace == [line |-> <<Spoken(1)>>, number |-> FALSE]
<1>3. brace \in Value
  <2>1. Spoken(1) \in Utterance /\ Spoken(1).words = 1
    BY SpokenIs
  <2>2. brace.line \in Line /\ Head(brace.line).words = 1 /\ Last(brace.line).words = 1
    BY <2>1, OneSentence
  <2>3. brace \in [line : Line, number : BOOLEAN]
    BY <2>2
  <2> HIDE DEF brace
  <2> QED BY <2>2, <2>3 DEF Value
<1>4. \A i \in DOMAIN text : Valued(text[i], lead)
  <2> SUFFICES ASSUME NEW i \in DOMAIN text, NEW j \in 1..Len(text[i].slots)
               PROVE  lead[text[i].slots[j].variable] \in Value
    BY DEF Valued
  <2>1. text[i].slots \in Seq(Slot)
    <3>1. text[i] \in Unspoken
      BY <1>1, <1>2, ElementOfSeq
    <3> QED BY <3>1 DEF Unspoken
  <2>2. text[i].slots[j] \in Range(text[i].slots)
    BY <2>1 DEF Range
  <2>3. text[i].slots[j].variable \in Named(text)
    BY <2>2 DEF Named
  <2> HIDE DEF brace
  <2> QED BY <1>3, <2>3 DEF Braces, brace
<1> HIDE DEF lead
<1>5. Literal(text) \in Line
  BY <1>4, SubIs DEF Literal, lead
<1>6. LiteralDigit(text) \in BOOLEAN
  <2>1. Last(text) \in Unspoken /\ Valued(Last(text), lead)
    BY <1>1, <1>2, <1>4, ElementOfSeq DEF Last
  <2> QED BY <2>1, DigitIs DEF LiteralDigit, lead
<1> QED BY <1>4, <1>5, <1>6 DEF lead

\* All of a concatenation are of a kind exactly when all of its parts are.
LEMMA ConcatOf ==
    ASSUME NEW S, NEW T, T \subseteq S, NEW a \in Seq(S), NEW b \in Seq(S)
    PROVE  a \o b \in Seq(S) /\ (a \o b \in Seq(T) <=> a \in Seq(T) /\ b \in Seq(T))
<1> DEFINE s == a \o b
<1>1. /\ s \in Seq(S) /\ Len(a) \in Nat /\ Len(b) \in Nat /\ Len(s) = Len(a) + Len(b)
      /\ \A i \in 1..Len(s) : s[i] = IF i <= Len(a) THEN a[i] ELSE b[i - Len(a)]
  BY ConcatProperties
<1> HIDE DEF s
<1>2. \A q \in Seq(S) : q \in Seq(T) <=> \A i \in 1..Len(q) : q[i] \in T
  OBVIOUS
<1>3. ASSUME s \in Seq(T) PROVE a \in Seq(T) /\ b \in Seq(T)
  <2>1. ASSUME NEW i \in 1..Len(a) PROVE a[i] \in T
    <3>1. i \in 1..Len(s) /\ i <= Len(a)
      BY <1>1
    <3> QED BY <1>1, <1>2, <1>3, <3>1
  <2>2. ASSUME NEW i \in 1..Len(b) PROVE b[i] \in T
    <3> DEFINE k == Len(a) + i
    <3>1. k \in 1..Len(s) /\ ~(k <= Len(a)) /\ k - Len(a) = i
      BY <1>1
    <3> HIDE DEF k
    <3> QED BY <1>1, <1>2, <1>3, <3>1
  <2> QED BY <1>2, <2>1, <2>2
<1>4. ASSUME a \in Seq(T), b \in Seq(T) PROVE s \in Seq(T)
  <2>1. ASSUME NEW i \in 1..Len(s) PROVE s[i] \in T
    <3>1. CASE i <= Len(a)
      <4>1. i \in 1..Len(a)
        BY <1>1, <3>1
      <4> QED BY <1>1, <1>2, <1>4, <3>1, <4>1
    <3>2. CASE ~(i <= Len(a))
      <4>1. i - Len(a) \in 1..Len(b)
        BY <1>1, <3>2
      <4> QED BY <1>1, <1>2, <1>4, <3>2, <4>1
    <3> QED BY <3>1, <3>2
  <2> QED BY <1>1, <1>2, <2>1
<1> QED BY <1>1, <1>3, <1>4 DEF s

(* Sentences that may be spoken, and lines of them.                         *)
Short == {z \in Utterance : z.words <= MaxWords /\ ~z.special}
Fine == {line \in Line : Fits(line, 0, 0)}

\* A line by itself fits when its sentences are short.
LEMMA FineLine == ASSUME NEW line \in Line PROVE line \in Fine <=> line \in Seq(Short)
<1>1. /\ line \in Seq(Utterance) /\ DOMAIN line = 1..Len(line)
      /\ \A i \in 1..Len(line) : line[i] \in Utterance /\ line[i].words \in Nat
  BY LinesAre DEF Line, Utterance
<1>2. Fits(line, 0, 0) <=> \A i \in 1..Len(line) : line[i].words <= MaxWords /\ ~line[i].special
  <2>1. \A i \in 1..Len(line) :
           line[i].words + (IF i = 1 THEN 0 ELSE 0) + (IF i = Len(line) THEN 0 ELSE 0) = line[i].words
    BY <1>1
  <2> QED BY <1>1, <2>1 DEF Fits
<1>3. line \in Seq(Short) <=> \A i \in 1..Len(line) : line[i] \in Short
  BY <1>1 DEF Short
<1> QED BY <1>1, <1>2, <1>3 DEF Fine, Short

\* The check finds no error exactly when every line is fine.
LEMMA ViolatesIs ==
    ASSUME NEW lines \in Seq(Line)
    PROVE  Violates(lines) <=> lines \notin Seq(Fine)
<1>1. /\ DOMAIN lines = 1..Len(lines)
      /\ \A l \in 1..Len(lines) : lines[l] \in Line
  OBVIOUS
<1>2. lines \in Seq(Fine) <=> \A l \in 1..Len(lines) : lines[l] \in Fine
  BY DEF Fine
<1>3. ASSUME NEW line \in Line
      PROVE  (TooLong(line) \/ \E i \in DOMAIN line : line[i].special) <=> line \notin Fine
  <2>1. line \in Fine <=> \A i \in DOMAIN line : line[i] \in Short
    <3>1. line \in Seq(Utterance) /\ DOMAIN line = 1..Len(line)
      BY LinesAre DEF Line
    <3>2. line \in Seq(Short) <=> \A i \in 1..Len(line) : line[i] \in Short
      BY <3>1 DEF Short
    <3> QED BY <3>1, <3>2, FineLine
  <2>2. \A i \in DOMAIN line : line[i] \in Utterance /\ line[i].words \in Nat
    BY LinesAre DEF Utterance
  <2>3. \A i \in DOMAIN line : line[i] \in Short <=> ~(line[i].words > MaxWords) /\ ~line[i].special
    BY <2>2 DEF Short, MaxWords
  <2> QED BY <2>1, <2>3 DEF TooLong
<1> QED BY <1>1, <1>2, <1>3 DEF Violates

-----------------------------------------------------------------------------
(* One lemma for each kind of line: it is fine exactly when its texts fit.  *)

\* You are {name}, a friendly junior operations assistant.
LEMMA PersonaLineFine ==
    ASSUME NEW name \in Line
    PROVE  LET line == Join(Join(<<Spoken(2)>>, ClosedBy(name)), <<Spoken(5), Spoken(0)>>)
           IN  line \in Line /\ (line \in Fine <=> Fits(name, 2, 5))
<1> DEFINE closed == ClosedBy(name)
           left == Join(<<Spoken(2)>>, closed)
           line == Join(left, <<Spoken(5), Spoken(0)>>)
<1>1. /\ closed \in Line /\ Len(closed) = Len(name)
      /\ \A i \in 1..(Len(name) - 1) : closed[i] = name[i]
      /\ closed[Len(name)] = Marked(name[Len(name)])
  BY ClosedLine
<1> HIDE DEF closed
<1>2. \A i \in 1..Len(name) :
         /\ closed[i].special <=> name[i].special
         /\ closed[i].words = name[i].words \/ (name[i].words = 0 /\ closed[i].words = 1)
  <2> SUFFICES ASSUME NEW i \in 1..Len(name)
               PROVE  /\ closed[i].special <=> name[i].special
                      /\ closed[i].words = name[i].words \/ (name[i].words = 0 /\ closed[i].words = 1)
    OBVIOUS
  <2>1. i \in 1..(Len(name) - 1) \/ i = Len(name)
    BY LinesAre
  <2>2. name[i] \in Utterance
    BY LinesAre
  <2>3. /\ Marked(name[i]).special = name[i].special
        /\ Marked(name[i]).words = IF name[i].words = 0 THEN 1 ELSE name[i].words
    BY <2>2, MarkedIs
  <2> QED BY <1>1, <2>1, <2>3
<1>3. 2 + 5 < MaxWords
  BY DEF MaxWords
<1>4. Fits(closed, 2, 5) <=> Fits(name, 2, 5)
  BY <1>1, <1>2, <1>3, MarksFit
<1>5. left \in Line /\ (Fits(left, 0, 5) <=> Fits(closed, 2, 5))
  BY <1>1, LeadFits
<1> HIDE DEF left
<1>6. line \in Line /\ (Fits(line, 0, 0) <=> Fits(left, 0, 5))
  <2>1. 0 \in Nat /\ 5 \in Nat /\ 0 \in 0..1
    OBVIOUS
  <2> QED BY <1>5, <2>1, TrailFits, Zenon
<1> HIDE DEF line
<1>7. line \in Line /\ (line \in Fine <=> Fits(name, 2, 5))
  BY <1>4, <1>5, <1>6 DEF Fine
<1> QED BY <1>7 DEF line, left, closed

\* Words before a line are in its first sentence.
LEMMA LedLine ==
    ASSUME NEW line \in Line, NEW n \in Nat
    PROVE  LET led == Join(<<Spoken(n)>>, line)
           IN  /\ led \in Line /\ Len(led) = Len(line)
               /\ led[1].words = n + line[1].words /\ (led[1].special <=> line[1].special)
               /\ \A i \in 2..Len(line) : led[i] = line[i]
BY SpokenJoined

\* They leave less room before it, and may share its last sentence.
LEMMA LedFits ==
    ASSUME NEW line \in Line, NEW n \in Nat, NEW before \in Nat
    PROVE  LET led == Join(<<Spoken(n)>>, line)
           IN  /\ Fits(led, before, 0) <=> Fits(line, n + before, 0)
               /\ Last(led).words = Last(line).words + (IF Len(line) = 1 THEN n ELSE 0)
<1> DEFINE led == Join(<<Spoken(n)>>, line)
           m == Len(line)
<1>1. /\ led \in Line /\ Len(led) = m
      /\ led[1].words = n + line[1].words /\ (led[1].special <=> line[1].special)
      /\ \A i \in 2..m : led[i] = line[i]
  BY LedLine
<1>2. /\ DOMAIN led = 1..m /\ DOMAIN line = 1..m /\ m \in Nat /\ m >= 1 /\ Len(line) = m
      /\ \A i \in 1..m : line[i].words \in Nat /\ led[i].words \in Nat
  <2>1. \A z \in Utterance : z.words \in Nat
    BY DEF Utterance
  <2> HIDE DEF led
  <2> QED BY <1>1, <2>1, LinesAre
<1> HIDE DEF led, m
<1>3. ASSUME NEW i \in 1..m
      PROVE  /\ led[i].words + (IF i = 1 THEN before ELSE 0) + (IF i = m THEN 0 ELSE 0)
                    = line[i].words + (IF i = 1 THEN n + before ELSE 0) + (IF i = m THEN 0 ELSE 0)
             /\ led[i].special <=> line[i].special
  <2>1. CASE i = 1
    BY <1>1, <1>2, <2>1
  <2>2. CASE i # 1
    <3>1. led[i] = line[i]
      BY <1>1, <1>2, <2>2
    <3> QED BY <1>2, <2>2, <3>1
  <2> QED BY <2>1, <2>2
<1>4. Fits(led, before, 0) <=> Fits(line, n + before, 0)
  BY <1>1, <1>2, <1>3 DEF Fits
<1>5. Last(led).words = Last(line).words + (IF m = 1 THEN n ELSE 0)
  <2>1. Last(led) = led[m] /\ Last(line) = line[m]
    BY <1>1, <1>2 DEF Last
  <2>2. CASE m = 1
    BY <1>1, <1>2, <2>1, <2>2
  <2>3. CASE m # 1
    <3>1. led[m] = line[m]
      BY <1>1, <1>2, <2>3
    <3>2. line[m].words \in Nat
      BY <1>2
    <3> QED BY <2>1, <2>3, <3>1, <3>2
  <2> QED BY <2>2, <2>3
<1> QED BY <1>4, <1>5 DEF led, m

\* Two lines that are joined: the first fits, and so does the second after
\* the last sentence of the first.
LEMMA JoinFine ==
    ASSUME NEW left \in Line, NEW right \in Line
    PROVE  Join(left, right) \in Fine <=> Fits(left, 0, 0) /\ Fits(right, Last(left).words, 0)
<1> DEFINE h == Head(right).words
           w == Last(left).words
           n == Len(right)
<1>1. /\ Head(right) = right[1] /\ h \in Nat /\ w \in Nat
      /\ 1 \in 1..n /\ DOMAIN right = 1..n
  BY LinesAre DEF Utterance, Last
<1>2. Join(left, right) \in Line
  BY JoinedLine
<1>3. Fits(Join(left, right), 0, 0) <=> Fits(left, 0, h) /\ Fits(right, w, 0)
  <2>1. Fits(Join(left, right), 0, 0) <=>
           /\ Fits(left, 0, Head(right).words + (IF Len(right) = 1 THEN 0 ELSE 0))
           /\ Fits(right, Last(left).words + (IF Len(left) = 1 THEN 0 ELSE 0), 0)
    BY JoinFits
  <2>2. h + (IF Len(right) = 1 THEN 0 ELSE 0) = h /\ w + (IF Len(left) = 1 THEN 0 ELSE 0) = w
    BY <1>1
  <2> QED BY <2>1, <2>2
<1>4. Fits(left, 0, h) <=> Fits(left, 0, 0) /\ w + h <= MaxWords
  <2>1. Fits(left, 0, h) <=>
           /\ Fits(left, 0, 0)
           /\ Last(left).words + (IF Len(left) = 1 THEN 0 ELSE 0) + h <= MaxWords
    <3>1. 0 \in Nat /\ h \in Nat
      BY <1>1
    <3> QED BY <3>1, TrailRoom
  <2>2. w + (IF Len(left) = 1 THEN 0 ELSE 0) + h = w + h
    BY <1>1
  <2> QED BY <2>1, <2>2
<1>5. Fits(right, w, 0) => w + h <= MaxWords
  <2> SUFFICES ASSUME Fits(right, w, 0) PROVE w + h <= MaxWords
    OBVIOUS
  <2>1. h + w + (IF 1 = n THEN 0 ELSE 0) <= MaxWords
    BY <1>1 DEF Fits
  <2> QED BY <1>1, <2>1 DEF MaxWords
<1> HIDE DEF h, w
<1> QED BY <1>2, <1>3, <1>4, <1>5 DEF Fine, w

\* Two lines, one after the other, are fine when both are.
LEMMA ConcatFine ==
    ASSUME NEW left \in Line, NEW right \in Line, left \o right \in Line
    PROVE  left \o right \in Fine <=> left \in Fine /\ right \in Fine
<1>1. left \in Seq(Utterance) /\ right \in Seq(Utterance) /\ Short \subseteq Utterance
  BY DEF Line, Short
<1>2. left \o right \in Seq(Short) <=> left \in Seq(Short) /\ right \in Seq(Short)
  BY <1>1, ConcatOf
<1>3. /\ left \in Fine <=> left \in Seq(Short)
      /\ right \in Fine <=> right \in Seq(Short)
  BY FineLine
<1> DEFINE s == left \o right
<1>4. s \in Line
  OBVIOUS
<1> HIDE DEF s
<1>5. s \in Fine <=> s \in Seq(Short)
  BY <1>4, FineLine
<1> QED BY <1>2, <1>3, <1>5 DEF s

\* Tone: {tone}. Pace: {pace}.
LEMMA ToneLineFine ==
    ASSUME NEW tone \in Line, NEW pace \in Line, NEW d \in BOOLEAN, NEW e \in BOOLEAN
    PROVE  LET line == Follow(Follow(Join(<<Spoken(1)>>, tone), d, Join(<<Spoken(1)>>, pace)),
                              e, <<Spoken(0)>>)
           IN  line \in Line /\ (line \in Fine <=> ToneFits(tone, pace, d))
<1> DEFINE a == Join(<<Spoken(1)>>, tone)
           b == Join(<<Spoken(1)>>, pace)
           c == <<Spoken(0)>>
           two == Follow(a, d, b)
           line == Follow(two, e, c)
           k == Last(tone).words + (IF Len(tone) = 1 THEN 1 ELSE 0)
<1>1. /\ a \in Line /\ (a \in Fine <=> Fits(tone, 1, 0)) /\ Last(a).words = k
      /\ Fits(a, 0, 0) <=> Fits(tone, 1, 0)
  BY LeadFits, LedFits DEF Fine
<1>2. b \in Line /\ (b \in Fine <=> Fits(pace, 1, 0))
  BY LeadFits DEF Fine
<1>3. k \in Nat /\ (Fits(b, k, 0) <=> Fits(pace, 1 + k, 0))
  <2>1. k \in Nat
    <3>1. Last(tone).words \in Nat
      BY LinesAre DEF Last, Utterance
    <3> QED BY <3>1
  <2> HIDE DEF k
  <2> QED BY <2>1, LedFits
<1>4. c \in Line /\ Len(c) = 1 /\ DOMAIN c = {1} /\ c[1].words = 0 /\ ~c[1].special
  BY SpokenLine, SpokenIs
<1>5. ToneFits(tone, pace, d) <=> Fits(tone, 1, 0) /\ Fits(pace, 1 + (IF d THEN k ELSE 0), 0)
  BY DEF ToneFits
<1> HIDE DEF a, b, c, k
<1>6. two \in Line /\ (two \in Fine <=> ToneFits(tone, pace, d))
  <2>1. two \in Line /\ (d => two = Join(a, b)) /\ (~d => two = a \o b)
    BY <1>1, <1>2, FollowLine
  <2> HIDE DEF two
  <2>2. CASE d
    BY <1>1, <1>2, <1>3, <1>5, <2>1, <2>2, JoinFine
  <2>3. CASE ~d
    <3>1. 1 + 0 = 1
      OBVIOUS
    <3> QED BY <1>1, <1>2, <1>5, <2>1, <2>3, <3>1, ConcatFine
  <2> QED BY <2>2, <2>3
<1> HIDE DEF two
<1>7. \A w \in Nat : Fits(c, w, 0) <=> w <= MaxWords
  BY <1>4 DEF Fits, MaxWords
<1>8. two \in Fine => Last(two).words \in Nat /\ Last(two).words <= MaxWords
  <2> SUFFICES ASSUME two \in Fine PROVE Last(two).words \in Nat /\ Last(two).words <= MaxWords
    OBVIOUS
  <2>1. Fits(two, 0, 0)
    BY DEF Fine
  <2>2. Len(two) \in DOMAIN two /\ two[Len(two)].words \in Nat
    BY <1>6, LinesAre DEF Utterance
  <2>3. two[Len(two)].words + (IF Len(two) = 1 THEN 0 ELSE 0) + (IF Len(two) = Len(two) THEN 0 ELSE 0)
          <= MaxWords
    BY <2>1, <2>2 DEF Fits
  <2> QED BY <2>2, <2>3 DEF Last, MaxWords
<1>9. line \in Line /\ (line \in Fine <=> two \in Fine)
  <2>1. line \in Line /\ (e => line = Join(two, c)) /\ (~e => line = two \o c)
    BY <1>4, <1>6, FollowLine
  <2> HIDE DEF line
  <2>2. two \in Fine <=> Fits(two, 0, 0)
    BY <1>6 DEF Fine
  <2>3. CASE e
    BY <1>4, <1>6, <1>7, <1>8, <2>1, <2>2, <2>3, JoinFine
  <2>4. CASE ~e
    <3>1. c \in Fine
      BY <1>4, <1>7 DEF Fine, MaxWords
    <3> QED BY <1>4, <1>6, <2>1, <2>4, <3>1, ConcatFine
  <2> QED BY <2>3, <2>4
<1>10. line \in Line /\ (line \in Fine <=> ToneFits(tone, pace, d))
  BY <1>6, <1>9
<1> QED BY <1>10 DEF line, two, a, b, c

\* A line that is its prefix and one text.
LEMMA LedLineFine ==
    ASSUME NEW text \in Line, NEW n \in Nat
    PROVE  /\ Join(<<Spoken(n)>>, text) \in Line
           /\ Join(<<Spoken(n)>>, text) \in Fine <=> Fits(text, n, 0)
BY LeadFits DEF Fine

\* Step {n}: {text} (Wait for response.)
LEMMA StepLineFine ==
    ASSUME NEW text \in Line, NEW step, NEW lead, Sub(step.text, lead) = text,
           step.wait_for_ack \in BOOLEAN
    PROVE  /\ StepLine(step, lead) \in Line
           /\ StepLine(step, lead) \in Fine <=> Fits(text, 2, IF step.wait_for_ack THEN 3 ELSE 0)
<1> DEFINE left == Join(<<Spoken(2)>>, text)
           line == StepLine(step, lead)
<1>1. left \in Line /\ (Fits(left, 0, 0) <=> Fits(text, 2, 0)) /\ (Fits(left, 0, 3) <=> Fits(text, 2, 3))
  BY LeadFits
<1> HIDE DEF left
<1>2. CASE step.wait_for_ack
  <2>1. line = Join(left, <<Spoken(3), Spoken(1)>>)
    BY <1>2 DEF StepLine, left
  <2>2. line \in Line /\ (Fits(line, 0, 0) <=> Fits(left, 0, 3))
    <3> DEFINE trailed == Join(left, <<Spoken(3), Spoken(1)>>)
    <3>1. 0 \in Nat /\ 3 \in Nat /\ 1 \in 0..1
      OBVIOUS
    <3>2. trailed \in Line /\ (Fits(trailed, 0, 0) <=> Fits(left, 0, 3))
      BY <1>1, <3>1, TrailFits, Zenon
    <3> QED BY <2>1, <3>2
  <2> QED BY <1>1, <1>2, <2>2 DEF Fine
<1>3. CASE ~step.wait_for_ack
  <2>1. line = left
    BY <1>3 DEF StepLine, left
  <2> QED BY <1>1, <1>3, <2>1 DEF Fine
<1> QED BY <1>2, <1>3

(* A template that can be rendered for a lead, and the texts of a template. *)
Suits(t, lead) ==
    /\ t \in PromptTemplate /\ Used(t) \subseteq DOMAIN lead
    /\ \A v \in DOMAIN lead : lead[v] \in Value

TextsOf(t) ==
    {t.persona.name, t.objective, t.escape} \cup {t.flow[i].text : i \in DOMAIN t.flow}
    \cup UNION {{t.objections[i].trigger, t.objections[i].response} : i \in DOMAIN t.objections}

\* Every text of such a template is a line when the lead's values are put in.
LEMMA TextsAreLines ==
    ASSUME NEW t, NEW lead, Suits(t, lead), NEW text \in TextsOf(t), text \in Text
    PROVE  Sub(text, lead) \in Line
<1>1. \A v \in Named(text) : lead[v] \in Value
  <2>1. Named(text) \subseteq UNION {Named(u) : u \in TextsOf(t)}
    OBVIOUS
  <2>2. Named(text) \subseteq Used(t)
    BY <2>1 DEF Used, TextsOf
  <2> QED BY <2>2 DEF Suits
<1>2. ASSUME NEW i \in DOMAIN text PROVE Valued(text[i], lead)
  <2>1. text[i].slots \in Seq(Slot)
    <3>1. text \in Seq(Unspoken)
      BY DEF Text, Unspoken
    <3>2. text[i] \in Unspoken
      BY <3>1
    <3> QED BY <3>2 DEF Unspoken
  <2>2. \A j \in 1..Len(text[i].slots) : text[i].slots[j] \in Range(text[i].slots)
    BY <2>1 DEF Range
  <2>3. \A j \in 1..Len(text[i].slots) : text[i].slots[j].variable \in Named(text)
    BY <2>2 DEF Named
  <2> QED BY <1>1, <2>3 DEF Valued
<1> QED BY <1>2, SubIs

\* The texts of a template by their places.
LEMMA TemplateTexts ==
    ASSUME NEW t, NEW lead, Suits(t, lead)
    PROVE  /\ Sub(t.persona.name, lead) \in Line /\ Sub(t.objective, lead) \in Line
           /\ Sub(t.escape, lead) \in Line
           /\ Literal(t.persona.tone) \in Line /\ LiteralDigit(t.persona.tone) \in BOOLEAN
           /\ Literal(t.persona.pace) \in Line /\ LiteralDigit(t.persona.pace) \in BOOLEAN
           /\ \A i \in DOMAIN t.flow :
                 Sub(t.flow[i].text, lead) \in Line /\ t.flow[i].wait_for_ack \in BOOLEAN
           /\ \A i \in DOMAIN t.objections :
                 /\ Sub(t.objections[i].trigger, lead) \in Line
                 /\ Sub(t.objections[i].response, lead) \in Line
<1>1. /\ t.persona.name \in Text /\ t.persona.tone \in Text /\ t.persona.pace \in Text
      /\ t.objective \in Text /\ t.escape \in Text
      /\ t.flow \in Seq([step : Nat, text : Text, wait_for_ack : BOOLEAN])
      /\ t.objections \in Seq([trigger : Text, response : Text])
  <2>1. /\ t.persona \in [name : Text, tone : Text, pace : Text]
        /\ t.objective \in Text /\ t.escape \in Text
        /\ t.flow \in Seq([step : Nat, text : Text, wait_for_ack : BOOLEAN])
        /\ t.objections \in Seq([trigger : Text, response : Text])
    BY DEF Suits, PromptTemplate
  <2> QED BY <2>1
<1>2. \A i \in DOMAIN t.flow : t.flow[i] \in [step : Nat, text : Text, wait_for_ack : BOOLEAN]
  <2> DEFINE S == [step : Nat, text : Text, wait_for_ack : BOOLEAN]
  <2>1. t.flow \in Seq(S)
    BY <1>1
  <2> HIDE DEF S
  <2>2. \A i \in DOMAIN t.flow : t.flow[i] \in S
    BY <2>1
  <2> QED BY <2>2 DEF S
<1>3. \A i \in DOMAIN t.objections : t.objections[i] \in [trigger : Text, response : Text]
  <2> DEFINE S == [trigger : Text, response : Text]
  <2>1. t.objections \in Seq(S)
    BY <1>1
  <2> HIDE DEF S
  <2>2. \A i \in DOMAIN t.objections : t.objections[i] \in S
    BY <2>1
  <2> QED BY <2>2 DEF S
<1>4. \A i \in DOMAIN t.flow :
         t.flow[i].text \in Text /\ t.flow[i].wait_for_ack \in BOOLEAN /\ t.flow[i].text \in TextsOf(t)
  BY <1>2 DEF TextsOf
<1>5. ASSUME NEW i \in DOMAIN t.objections
      PROVE  /\ t.objections[i].trigger \in Text /\ t.objections[i].trigger \in TextsOf(t)
             /\ t.objections[i].response \in Text /\ t.objections[i].response \in TextsOf(t)
  <2>1. {t.objections[i].trigger, t.objections[i].response} \subseteq TextsOf(t)
    BY DEF TextsOf
  <2> QED BY <1>3, <2>1
<1>6. {t.persona.name, t.objective, t.escape} \subseteq TextsOf(t)
  BY DEF TextsOf
<1> QED BY <1>1, <1>4, <1>5, <1>6, TextsAreLines, LiteralIs

\* The texts fit their places.
FitTexts(t, lead) ==
    LET Fit(text, before, after) == Fits(Sub(text, lead), before, after)
    IN  /\ Fit(t.persona.name, 2, 5)
        /\ ToneFits(Literal(t.persona.tone), Literal(t.persona.pace), LiteralDigit(t.persona.tone))
        /\ Fit(t.objective, 1, 0) /\ Fit(t.escape, 6, 0)
        /\ \A i \in DOMAIN t.flow :
              Fit(t.flow[i].text, 2, IF t.flow[i].wait_for_ack THEN 3 ELSE 0)
        /\ \A i \in DOMAIN t.objections :
              ObjectionFits(Sub(t.objections[i].trigger, lead), Sub(t.objections[i].response, lead))

\* A template is rendered to lines, all fine exactly when its texts fit.
LEMMA LinesFine ==
    ASSUME NEW t, NEW lead, Suits(t, lead)
    PROVE  Lines(t, lead) \in Seq(Line) /\ (Lines(t, lead) \in Seq(Fine) <=> FitTexts(t, lead))
<1> DEFINE persona == PersonaLine(t, lead)
           tone == ToneLine(t)
           objective == Join(<<Spoken(1)>>, Sub(t.objective, lead))
           title == <<Spoken(2)>>
           escape == Join(<<Spoken(6)>>, Sub(t.escape, lead))
           head == <<persona, tone, objective, title>>
           steps == [i \in DOMAIN t.flow |-> StepLine(t.flow[i], lead)]
           titles == IF t.objections = <<>> THEN <<>> ELSE <<<<Spoken(2)>>>>
           objections == [i \in DOMAIN t.objections |-> ObjectionLine(t.objections[i], lead)]
           last == <<escape>>
           Ack(i) == IF t.flow[i].wait_for_ack THEN 3 ELSE 0
           StepsFit == \A i \in DOMAIN t.flow : Fits(Sub(t.flow[i].text, lead), 2, Ack(i))
           ObjectionsFit ==
               \A i \in DOMAIN t.objections :
                  ObjectionFits(Sub(t.objections[i].trigger, lead), Sub(t.objections[i].response, lead))
           TonesFit == ToneFits(Literal(t.persona.tone), Literal(t.persona.pace), LiteralDigit(t.persona.tone))
           HeadFits == /\ Fits(Sub(t.persona.name, lead), 2, 5)
                       /\ TonesFit
                       /\ Fits(Sub(t.objective, lead), 1, 0)
           LastFits == Fits(Sub(t.escape, lead), 6, 0)
<1>1. Fine \subseteq Line /\ t.flow \in Seq([step : Nat, text : Text, wait_for_ack : BOOLEAN])
      /\ t.objections \in Seq([trigger : Text, response : Text])
  BY DEF Fine, Suits, PromptTemplate
<1>2. /\ persona \in Line /\ (persona \in Fine <=> Fits(Sub(t.persona.name, lead), 2, 5))
      /\ tone \in Line
      /\ tone \in Fine <=> TonesFit
      /\ objective \in Line /\ (objective \in Fine <=> Fits(Sub(t.objective, lead), 1, 0))
      /\ escape \in Line /\ (escape \in Fine <=> LastFits)
  <2>1. persona \in Line /\ (persona \in Fine <=> Fits(Sub(t.persona.name, lead), 2, 5))
    BY TemplateTexts, PersonaLineFine DEF PersonaLine
  <2>2. /\ tone \in Line
        /\ tone \in Fine <=> TonesFit
    BY TemplateTexts, ToneLineFine DEF ToneLine
  <2>3. /\ objective \in Line /\ (objective \in Fine <=> Fits(Sub(t.objective, lead), 1, 0))
        /\ escape \in Line /\ (escape \in Fine <=> LastFits)
    BY TemplateTexts, LedLineFine
  <2> QED BY <2>1, <2>2, <2>3
<1>3. title \in Line /\ title \in Fine
  BY DEF Line, Fine, Fits, Spoken, Utterance, MaxWords
<1> HIDE DEF persona, tone, objective, title, escape
<1>4. head \in Seq(Line) /\ (head \in Seq(Fine) <=> HeadFits)
  <2> HIDE DEF Fine
  <2>1. head \in Seq(Line)
    BY <1>2, <1>3
  <2>2. head \in Seq(Fine) <=> persona \in Fine /\ tone \in Fine /\ objective \in Fine
    BY <1>3
  <2> QED BY <1>2, <2>1, <2>2
<1>5. steps \in Seq(Line) /\ (steps \in Seq(Fine) <=> StepsFit)
  <2>1. ASSUME NEW i \in DOMAIN t.flow
        PROVE  /\ StepLine(t.flow[i], lead) \in Line
               /\ StepLine(t.flow[i], lead) \in Fine <=> Fits(Sub(t.flow[i].text, lead), 2, Ack(i))
    BY TemplateTexts, StepLineFine
  <2> DEFINE s(i) == StepLine(t.flow[i], lead)
             F(i) == Fits(Sub(t.flow[i].text, lead), 2, Ack(i))
             r == [i \in 1..Len(t.flow) |-> s(i)]
  <2>2. DOMAIN t.flow = 1..Len(t.flow) /\ Len(t.flow) \in Nat
    BY <1>1
  <2>3. \A i \in 1..Len(t.flow) : s(i) \in Line /\ (s(i) \in Fine <=> F(i))
    BY <2>1, <2>2
  <2>4. steps = r /\ (StepsFit <=> \A i \in 1..Len(t.flow) : F(i))
    BY <2>2
  <2> HIDE DEF s, F, steps, StepsFit
  <2>5. r \in Seq(Line) /\ Len(r) = Len(t.flow)
    BY <2>2, <2>3
  <2>6. r \in Seq(Fine) <=> \A i \in 1..Len(t.flow) : F(i)
    <3>1. r \in Seq(Fine) <=> \A i \in 1..Len(t.flow) : r[i] \in Fine
      <4> HIDE DEF r
      <4> QED BY <2>2, <2>5
    <3> QED BY <2>3, <3>1
  <2> QED BY <2>4, <2>5, <2>6
<1>6. titles \in Seq(Line) /\ titles \in Seq(Fine)
  BY <1>3 DEF title
<1>7. objections \in Seq(Line) /\ (objections \in Seq(Fine) <=> ObjectionsFit)
  <2>1. ASSUME NEW i \in DOMAIN t.objections
        PROVE  /\ ObjectionLine(t.objections[i], lead) \in Line
               /\ ObjectionLine(t.objections[i], lead) \in Fine <=>
                     ObjectionFits(Sub(t.objections[i].trigger, lead), Sub(t.objections[i].response, lead))
    <3>1. /\ Sub(t.objections[i].trigger, lead) \in Line
          /\ Sub(t.objections[i].response, lead) \in Line
      BY TemplateTexts
    <3> QED BY <3>1, ObjectionLineFits DEF ObjectionLine, Fine
  <2> DEFINE s(i) == ObjectionLine(t.objections[i], lead)
             F(i) == ObjectionFits(Sub(t.objections[i].trigger, lead), Sub(t.objections[i].response, lead))
             r == [i \in 1..Len(t.objections) |-> s(i)]
  <2>2. DOMAIN t.objections = 1..Len(t.objections) /\ Len(t.objections) \in Nat
    BY <1>1
  <2>3. \A i \in 1..Len(t.objections) : s(i) \in Line /\ (s(i) \in Fine <=> F(i))
    BY <2>1, <2>2
  <2>4. objections = r /\ (ObjectionsFit <=> \A i \in 1..Len(t.objections) : F(i))
    BY <2>2
  <2> HIDE DEF s, F, objections, ObjectionsFit
  <2>5. r \in Seq(Line) /\ Len(r) = Len(t.objections)
    BY <2>2, <2>3
  <2>6. r \in Seq(Fine) <=> \A i \in 1..Len(t.objections) : F(i)
    <3>1. r \in Seq(Fine) <=> \A i \in 1..Len(t.objections) : r[i] \in Fine
      <4> HIDE DEF r
      <4> QED BY <2>2, <2>5
    <3> QED BY <2>3, <3>1
  <2> QED BY <2>4, <2>5, <2>6
<1>8. last \in Seq(Line) /\ (last \in Seq(Fine) <=> LastFits)
  BY <1>2
<1>9. Lines(t, lead) = head \o steps \o titles \o objections \o last
  BY DEF Lines, persona, tone, objective, title, escape
<1>10. FitTexts(t, lead) <=> HeadFits /\ StepsFit /\ ObjectionsFit /\ LastFits
  BY DEF FitTexts
<1> HIDE DEF head, steps, titles, objections, last, HeadFits, StepsFit, ObjectionsFit, LastFits
<1> DEFINE two == head \o steps
           three == two \o titles
           four == three \o objections
           five == four \o last
<1>11. two \in Seq(Line) /\ (two \in Seq(Fine) <=> HeadFits /\ StepsFit)
  BY <1>1, <1>4, <1>5, ConcatOf
<1> HIDE DEF two
<1>12. three \in Seq(Line) /\ (three \in Seq(Fine) <=> HeadFits /\ StepsFit)
  BY <1>1, <1>6, <1>11, ConcatOf
<1> HIDE DEF three
<1>13. four \in Seq(Line) /\ (four \in Seq(Fine) <=> HeadFits /\ StepsFit /\ ObjectionsFit)
  BY <1>1, <1>7, <1>12, ConcatOf
<1> HIDE DEF four
<1>14. five \in Seq(Line) /\ (five \in Seq(Fine) <=> HeadFits /\ StepsFit /\ ObjectionsFit /\ LastFits)
  BY <1>1, <1>8, <1>13, ConcatOf
<1> QED BY <1>9, <1>10, <1>14 DEF two, three, four, five

\* to_jsonb keeps what is asked of a template, and from_jsonb after it.
LEMMA StoredIsTheSame ==
    ASSUME NEW data, NEW lead
    PROVE  /\ Used(ToJsonb(data)) = Used(data)
           /\ FitTexts(ToJsonb(data), lead) <=> FitTexts(data, lead)
<1> DEFINE t == ToJsonb(data)
<1>1. /\ t.persona.name = data.persona.name /\ t.persona.tone = data.persona.tone
      /\ t.persona.pace = data.persona.pace
      /\ t.objective = data.objective /\ t.escape = data.escape
      /\ DOMAIN t.flow = DOMAIN data.flow /\ DOMAIN t.objections = DOMAIN data.objections
      /\ \A i \in DOMAIN data.flow :
            t.flow[i].text = data.flow[i].text /\ t.flow[i].wait_for_ack = data.flow[i].wait_for_ack
      /\ \A i \in DOMAIN data.objections :
            /\ t.objections[i].trigger = data.objections[i].trigger
            /\ t.objections[i].response = data.objections[i].response
  BY DEF ToJsonb
<1> HIDE DEF t
<1>2. TextsOf(t) = TextsOf(data)
  <2>1. {t.flow[i].text : i \in DOMAIN t.flow} = {data.flow[i].text : i \in DOMAIN data.flow}
    BY <1>1
  <2>2. UNION {{t.objections[i].trigger, t.objections[i].response} : i \in DOMAIN t.objections}
          = UNION {{data.objections[i].trigger, data.objections[i].response} : i \in DOMAIN data.objections}
    BY <1>1
  <2> QED BY <1>1, <2>1, <2>2 DEF TextsOf
<1>3. Used(t) = Used(data)
  BY <1>2 DEF Used, TextsOf
<1>4. FitTexts(t, lead) <=> FitTexts(data, lead)
  BY <1>1 DEF FitTexts
<1> QED BY <1>3, <1>4 DEF t

\* What render does with a stored template.
LEMMA RenderIs ==
    ASSUME NEW data, NEW lead, NEW strict \in BOOLEAN,
           HasFields(data) => ToJsonb(data) \in PromptTemplate,
           \A v \in DOMAIN lead : lead[v] \in Value
    PROVE  Render(data, lead, strict).kind =
              IF ~(HasFields(data) /\ Used(data) \subseteq DOMAIN lead) THEN "KeyError"
              ELSE IF strict => FitTexts(data, lead) THEN "text" ELSE "ValueError"
<1> DEFINE t == ToJsonb(data)
           whole == HasFields(data) /\ Used(data) \subseteq DOMAIN lead
           r == Render(data, lead, strict)
<1>1. Used(t) = Used(data) /\ (FitTexts(t, lead) <=> FitTexts(data, lead))
  BY StoredIsTheSame
<1>2. ASSUME HasFields(data), Used(t) \subseteq DOMAIN lead
      PROVE  Violates(Lines(t, lead)) <=> ~FitTexts(data, lead)
  <2>1. Suits(t, lead)
    BY <1>2 DEF Suits
  <2> HIDE DEF t
  <2>2. Lines(t, lead) \in Seq(Line) /\ (Lines(t, lead) \in Seq(Fine) <=> FitTexts(t, lead))
    BY <2>1, LinesFine
  <2>3. Violates(Lines(t, lead)) <=> Lines(t, lead) \notin Seq(Fine)
    BY <2>2, ViolatesIs
  <2> QED BY <1>1, <2>2, <2>3
<1>3. r = IF ~HasFields(data) THEN [kind |-> "KeyError", lines |-> <<>>]
          ELSE IF ~(Used(t) \subseteq DOMAIN lead) THEN [kind |-> "KeyError", lines |-> <<>>]
          ELSE IF strict /\ Violates(Lines(t, lead)) THEN [kind |-> "ValueError", lines |-> <<>>]
          ELSE [kind |-> "text", lines |-> Lines(t, lead)]
  BY DEF Render, FromJsonb
<1> HIDE DEF t, r
<1>4. CASE ~HasFields(data)
  BY <1>3, <1>4 DEF r
<1>5. CASE HasFields(data) /\ ~(Used(t) \subseteq DOMAIN lead)
  BY <1>1, <1>3, <1>5 DEF r
<1>6. CASE HasFields(data) /\ Used(t) \subseteq DOMAIN lead /\ ~(strict /\ Violates(Lines(t, lead)))
  BY <1>1, <1>2, <1>3, <1>6 DEF r
<1>7. CASE HasFields(data) /\ Used(t) \subseteq DOMAIN lead /\ strict /\ Violates(Lines(t, lead))
  BY <1>1, <1>2, <1>3, <1>7 DEF r
<1> QED BY <1>4, <1>5, <1>6, <1>7

\* A stored template is a template that has all fields.
LEMMA StoredIsTemplate ==
    ASSUME NEW t \in PromptTemplate
    PROVE  HasFields(ToJsonb(t)) /\ ToJsonb(t) \in PromptTemplate
<1> DEFINE S == [step : Nat, text : Text, wait_for_ack : BOOLEAN]
           O == [trigger : Text, response : Text]
           persona == [name |-> t.persona.name, tone |-> t.persona.tone, pace |-> t.persona.pace]
           flow == [i \in DOMAIN t.flow |->
                      [step |-> t.flow[i].step, text |-> t.flow[i].text,
                       wait_for_ack |-> t.flow[i].wait_for_ack]]
           objections == [i \in DOMAIN t.objections |->
                            [trigger |-> t.objections[i].trigger, response |-> t.objections[i].response]]
<1>1. /\ t.persona \in [name : Text, tone : Text, pace : Text]
      /\ t.objective \in Text /\ t.escape \in Text /\ t.flow \in Seq(S) /\ t.objections \in Seq(O)
  BY DEF PromptTemplate
<1>2. persona \in [name : Text, tone : Text, pace : Text]
  BY <1>1
<1>3. flow \in Seq(S)
  <2> HIDE DEF S
  <2>1. DOMAIN t.flow = 1..Len(t.flow) /\ Len(t.flow) \in Nat /\ \A i \in 1..Len(t.flow) : t.flow[i] \in S
    BY <1>1
  <2>2. \A s \in S : [step |-> s.step, text |-> s.text, wait_for_ack |-> s.wait_for_ack] \in S
    BY DEF S
  <2> DEFINE f(i) == [step |-> t.flow[i].step, text |-> t.flow[i].text,
                      wait_for_ack |-> t.flow[i].wait_for_ack]
             n == Len(t.flow)
  <2>3. \A i \in 1..n : f(i) \in S
    BY <2>1, <2>2
  <2>4. flow = [i \in 1..n |-> f(i)] /\ n \in Nat
    BY <2>1
  <2> HIDE DEF f, n, flow
  <2> QED BY <2>3, <2>4
<1>4. objections \in Seq(O)
  <2> HIDE DEF O
  <2>1. /\ DOMAIN t.objections = 1..Len(t.objections) /\ Len(t.objections) \in Nat
        /\ \A i \in 1..Len(t.objections) : t.objections[i] \in O
    BY <1>1
  <2>2. \A o \in O : [trigger |-> o.trigger, response |-> o.response] \in O
    BY DEF O
  <2> DEFINE f(i) == [trigger |-> t.objections[i].trigger, response |-> t.objections[i].response]
             n == Len(t.objections)
  <2>3. \A i \in 1..n : f(i) \in O
    BY <2>1, <2>2
  <2>4. objections = [i \in 1..n |-> f(i)] /\ n \in Nat
    BY <2>1
  <2> HIDE DEF f, n, objections
  <2> QED BY <2>3, <2>4
<1>5. ToJsonb(t) = [persona |-> persona, objective |-> t.objective, flow |-> flow,
                    objections |-> objections, escape |-> t.escape]
  BY DEF ToJsonb
<1>6. HasFields(ToJsonb(t))
  <2>1. /\ \A i \in DOMAIN flow : DOMAIN flow[i] = StepFields
        /\ \A i \in DOMAIN objections : DOMAIN objections[i] = ObjectionFields
    BY DEF StepFields, ObjectionFields
  <2>2. DOMAIN persona = PersonaFields
    BY DEF PersonaFields
  <2> HIDE DEF persona, flow, objections
  <2>3. DOMAIN ToJsonb(t) = Fields
    BY <1>5 DEF Fields
  <2> QED BY <1>5, <2>1, <2>2, <2>3 DEF HasFields
<1> HIDE DEF persona, flow, objections
<1>7. ToJsonb(t) \in PromptTemplate
  BY <1>1, <1>2, <1>3, <1>4, <1>5 DEF PromptTemplate
<1> QED BY <1>6, <1>7

-----------------------------------------------------------------------------
(* Lines of sentences of at most n words.                                   *)
Within(n) == {line \in Line : \A i \in 1..Len(line) : line[i].words <= n /\ ~line[i].special}

\* More words are allowed by a greater number, and fit where there is room.
LEMMA WithinFits ==
    ASSUME NEW n \in Nat, NEW line \in Within(n)
    PROVE  /\ \A m \in Nat : n <= m => line \in Within(m)
           /\ \A before, after \in Nat : n + before + after <= MaxWords => Fits(line, before, after)
<1>1. /\ line \in Line /\ DOMAIN line = 1..Len(line)
      /\ \A i \in 1..Len(line) : line[i].words \in Nat /\ line[i].words <= n /\ ~line[i].special
  <2>1. \A z \in Utterance : z.words \in Nat
    BY DEF Utterance
  <2>2. line \in Line /\ \A i \in 1..Len(line) : line[i].words <= n /\ ~line[i].special
    BY DEF Within
  <2> QED BY <2>1, <2>2, LinesAre
<1>2. ASSUME NEW m \in Nat, n <= m PROVE line \in Within(m)
  BY <1>1, <1>2 DEF Within
<1>3. ASSUME NEW before \in Nat, NEW after \in Nat, n + before + after <= MaxWords
      PROVE  Fits(line, before, after)
  <2> SUFFICES ASSUME NEW i \in 1..Len(line)
               PROVE  line[i].words + (IF i = 1 THEN before ELSE 0)
                         + (IF i = Len(line) THEN after ELSE 0) <= MaxWords
    BY <1>1 DEF Fits
  <2> DEFINE k == line[i].words
             x == IF i = 1 THEN before ELSE 0
             y == IF i = Len(line) THEN after ELSE 0
  <2>1. k \in Nat /\ k <= n
    BY <1>1
  <2>2. x \in Nat /\ y \in Nat /\ x <= before /\ y <= after
    OBVIOUS
  <2> HIDE DEF k, x, y
  <2>3. k + x + y <= MaxWords
    BY <1>3, <2>1, <2>2 DEF MaxWords
  <2> QED BY <2>3 DEF k, x, y
<1> QED BY <1>2, <1>3

\* One sentence of n words.
LEMMA WithinSpoken == ASSUME NEW n \in Nat PROVE <<Spoken(n)>> \in Within(n)
<1> DEFINE s == <<Spoken(n)>>
<1>1. s \in Line /\ Len(s) = 1 /\ s[1].words = n /\ ~s[1].special
  BY SpokenIs, OneSentence
<1> HIDE DEF s
<1>2. s \in Within(n)
  BY <1>1 DEF Within
<1> QED BY <1>2 DEF s

\* What two lines have when they are joined.
LEMMA WithinJoin ==
    ASSUME NEW a \in Nat, NEW b \in Nat, NEW left \in Within(a), NEW right \in Within(b)
    PROVE  Join(left, right) \in Within(a + b)
<1> DEFINE j == Join(left, right)
           m == Len(left)
           n == Len(right)
<1>1. left \in Line /\ right \in Line
  BY DEF Within
<1>2. /\ m \in Nat /\ m >= 1 /\ n \in Nat /\ n >= 1 /\ Head(right) = right[1]
      /\ \A i \in 1..m : left[i].words \in Nat /\ left[i].words <= a /\ ~left[i].special
      /\ \A i \in 1..n : right[i].words \in Nat /\ right[i].words <= b /\ ~right[i].special
  <2>1. \A z \in Utterance : z.words \in Nat
    BY DEF Utterance
  <2>2. \A i \in 1..m : left[i].words <= a /\ ~left[i].special
    BY DEF Within
  <2>3. \A i \in 1..n : right[i].words <= b /\ ~right[i].special
    BY DEF Within
  <2> QED BY <1>1, <2>1, <2>2, <2>3, LinesAre
<1>3. /\ j \in Line /\ Len(j) = m + n - 1
      /\ \A i \in 1..(m - 1) : j[i] = left[i]
      /\ j[m] = Met(left, right)
      /\ \A i \in 2..n : j[m + i - 1] = right[i]
  BY <1>1, JoinedLine
<1>4. Met(left, right).words = left[m].words + right[1].words
      /\ (Met(left, right).special <=> left[m].special \/ right[1].special)
  BY <1>2 DEF Met, Last
<1> HIDE DEF j, m, n
<1>5. ASSUME NEW k \in 1..(m + n - 1) PROVE j[k].words <= a + b /\ ~j[k].special
  <2>1. CASE k < m
    <3>1. k \in 1..(m - 1) /\ k \in 1..m
      BY <1>2, <2>1
    <3> QED BY <1>2, <1>3, <3>1
  <2>2. CASE k = m
    <3>1. m \in 1..m /\ 1 \in 1..n
      BY <1>2
    <3> QED BY <1>2, <1>3, <1>4, <2>2, <3>1
  <2>3. CASE k > m
    <3> DEFINE i == k - m + 1
    <3>1. i \in 2..n /\ i \in 1..n /\ m + i - 1 = k
      BY <1>2, <2>3
    <3> HIDE DEF i
    <3>2. j[k] = right[i]
      BY <1>3, <3>1
    <3>3. right[i].words \in Nat /\ right[i].words <= b /\ ~right[i].special
      BY <1>2, <3>1
    <3> QED BY <3>2, <3>3
  <2> QED BY <1>2, <2>1, <2>2, <2>3
<1>6. j \in Within(a + b)
  BY <1>3, <1>5 DEF Within
<1> QED BY <1>6 DEF j

\* What two lines have one after the other, and where they fit.
LEMMA ConcatFits ==
    ASSUME NEW left \in Line, NEW right \in Line
    PROVE  /\ left \o right \in Line
           /\ \A n \in Nat : left \in Within(n) /\ right \in Within(n) => left \o right \in Within(n)
           /\ \A before, after \in Nat :
                 Fits(left, before, 0) /\ Fits(right, 0, after) => Fits(left \o right, before, after)
<1> DEFINE s == left \o right
           l == Len(left)
           r == Len(right)
<1>1. s \in Line
  <2>1. Follow(left, FALSE, right) \in Line /\ Follow(left, FALSE, right) = s
    BY FollowLine
  <2> QED BY <2>1
<1>2. /\ l \in Nat /\ l >= 1 /\ r \in Nat /\ r >= 1 /\ DOMAIN left = 1..l /\ DOMAIN right = 1..r
      /\ Len(left) = l /\ Len(right) = r
      /\ \A i \in 1..l : left[i].words \in Nat
      /\ \A i \in 1..r : right[i].words \in Nat
  <2>1. \A z \in Utterance : z.words \in Nat
    BY DEF Utterance
  <2> QED BY <2>1, LinesAre
<1>3. /\ Len(s) = l + r /\ DOMAIN s = 1..(l + r)
      /\ \A i \in 1..(l + r) : s[i] = IF i <= l THEN left[i] ELSE right[i - l]
  <2>1. left \in Seq(Utterance) /\ right \in Seq(Utterance)
    BY DEF Line
  <2>2. /\ Len(s) = l + r
        /\ \A i \in 1..(Len(left) + Len(right)) : s[i] = IF i <= Len(left) THEN left[i] ELSE right[i - Len(left)]
    BY <2>1, ConcatProperties
  <2>3. DOMAIN s = 1..Len(s)
    BY <1>1, LinesAre
  <2> QED BY <2>2, <2>3
<1> HIDE DEF s, l, r
<1>4. ASSUME NEW n \in Nat, left \in Within(n), right \in Within(n) PROVE s \in Within(n)
  <2>1. \A i \in 1..l : left[i].words <= n /\ ~left[i].special
    BY <1>2, <1>4 DEF Within
  <2>2. \A i \in 1..r : right[i].words <= n /\ ~right[i].special
    BY <1>2, <1>4 DEF Within
  <2>3. ASSUME NEW i \in 1..(l + r) PROVE s[i].words <= n /\ ~s[i].special
    <3>1. CASE i <= l
      <4>1. i \in 1..l /\ s[i] = left[i]
        BY <1>2, <1>3, <3>1
      <4> QED BY <2>1, <4>1
    <3>2. CASE ~(i <= l)
      <4>1. i - l \in 1..r /\ s[i] = right[i - l]
        BY <1>2, <1>3, <3>2
      <4> QED BY <2>2, <4>1
    <3> QED BY <3>1, <3>2
  <2> QED BY <1>1, <1>3, <2>3 DEF Within
<1>5. ASSUME NEW before \in Nat, NEW after \in Nat, Fits(left, before, 0), Fits(right, 0, after)
      PROVE  Fits(s, before, after)
  <2> SUFFICES ASSUME NEW i \in 1..(l + r)
               PROVE  /\ s[i].words + (IF i = 1 THEN before ELSE 0) + (IF i = l + r THEN after ELSE 0)
                            <= MaxWords
                      /\ ~s[i].special
    BY <1>3 DEF Fits
  <2>1. CASE i <= l
    <3>1. i \in 1..l /\ s[i] = left[i] /\ i # l + r
      BY <1>2, <1>3, <2>1
    <3>2. /\ left[i].words + (IF i = 1 THEN before ELSE 0) + (IF i = l THEN 0 ELSE 0) <= MaxWords
          /\ ~left[i].special
      BY <1>2, <1>5, <3>1 DEF Fits
    <3>3. left[i].words \in Nat
      BY <1>2, <3>1
    <3> QED BY <3>1, <3>2, <3>3 DEF MaxWords
  <2>2. CASE ~(i <= l)
    <3> DEFINE k == i - l
    <3>1. k \in 1..r /\ s[i] = right[k] /\ i # 1 /\ (i = l + r <=> k = r)
      BY <1>2, <1>3, <2>2
    <3> HIDE DEF k
    <3>2. /\ right[k].words + (IF k = 1 THEN 0 ELSE 0) + (IF k = r THEN after ELSE 0) <= MaxWords
          /\ ~right[k].special
      BY <1>2, <1>5, <3>1 DEF Fits
    <3>3. right[k].words \in Nat
      BY <1>2, <3>1
    <3> QED BY <3>1, <3>2, <3>3 DEF MaxWords
  <2> QED BY <2>1, <2>2
<1> QED BY <1>1, <1>4, <1>5 DEF s

\* What two lines have when a digit may be between them.
LEMMA WithinFollow ==
    ASSUME NEW a \in Nat, NEW b \in Nat, NEW left \in Within(a), NEW right \in Within(b), NEW d \in BOOLEAN
    PROVE  /\ Follow(left, d, right) \in Within(a + b)
           /\ ~d => \A n \in Nat : a <= n /\ b <= n => Follow(left, d, right) \in Within(n)
<1>1. left \in Line /\ right \in Line
  BY DEF Within
<1>2. ASSUME ~d, NEW n \in Nat, a <= n, b <= n PROVE Follow(left, d, right) \in Within(n)
  <2>1. left \in Within(n) /\ right \in Within(n)
    BY <1>2, WithinFits
  <2>2. left \o right \in Within(n)
    BY <1>1, <2>1, ConcatFits
  <2> QED BY <1>2, <2>2 DEF Follow
<1>3. CASE d
  <2>1. Join(left, right) \in Within(a + b)
    BY WithinJoin
  <2> QED BY <1>3, <2>1 DEF Follow
<1>4. CASE ~d
  <2>1. a + b \in Nat /\ a <= a + b /\ b <= a + b
    OBVIOUS
  <2> QED BY <1>2, <1>4, <2>1
<1> QED BY <1>2, <1>3, <1>4

-----------------------------------------------------------------------------
(* The words that a variable may be, and stretches of which no sentence has *)
(* more than n words for any lead.                                          *)
Most(v) == IF v = "first_name" THEN 2 ELSE 3

AtMost(z, n) ==
    /\ z \in Unspoken /\ n \in Nat /\ \A i \in 1..Len(z.slots) : z.slots[i].variable \in LeadNames
    /\ \A lead \in LeadVars : Valued(z, lead) /\ Said(z, lead) \in Within(n)

\* A name of at most n words is a value.
LEMMA NamesAre ==
    ASSUME NEW n \in Nat, NEW line \in Names(n), NEW v \in [line : {line}, number : BOOLEAN]
    PROVE  line \in Within(n) /\ v \in Value /\ v.line = line
<1>1. PICK k \in 1..n : line \in [1..k -> {Spoken(w) : w \in 1..n}]
  BY DEF Names
<1>2. ASSUME NEW i \in 1..k
      PROVE  line[i] \in Utterance /\ line[i].words \in 1..n /\ ~line[i].special
  <2>1. PICK w \in 1..n : line[i] = Spoken(w)
    BY <1>1
  <2>2. w \in Nat
    OBVIOUS
  <2>3. Spoken(w) \in Utterance /\ Spoken(w).words = w /\ Spoken(w).special = FALSE
    BY <2>2, SpokenIs
  <2> QED BY <2>1, <2>3
<1>3. line \in Seq(Utterance) /\ Len(line) = k /\ k \in Nat /\ k >= 1
  BY <1>1, <1>2
<1>4. line \in Line
  <2>1. line # <<>>
    BY <1>3
  <2> QED BY <1>3, <2>1 DEF Line
<1>5. line \in Within(n)
  BY <1>2, <1>3, <1>4 DEF Within
<1>6. Head(line).words > 0 /\ Last(line).words > 0
  <2>1. 1 \in 1..k /\ k \in 1..k
    BY <1>3
  <2>2. Head(line) = line[1] /\ Last(line) = line[k]
    BY <1>3, <1>4, LinesAre DEF Last
  <2>3. line[1].words > 0 /\ line[k].words > 0
    BY <1>2, <2>1
  <2> QED BY <2>2, <2>3
<1>7. v.line = line /\ v.number \in BOOLEAN /\ v = [line |-> v.line, number |-> v.number]
  OBVIOUS
<1>8. v \in [line : Line, number : BOOLEAN]
  BY <1>4, <1>7
<1> QED BY <1>5, <1>6, <1>7, <1>8 DEF Value

\* The values of a lead.
LEMMA LeadValues ==
    ASSUME NEW lead \in LeadVars
    PROVE  /\ DOMAIN lead = LeadNames
           /\ \A v \in LeadNames : lead[v] \in Value /\ lead[v].line \in Within(Most(v))
           /\ lead["agent_name"].number => lead["agent_name"].line \in Within(1)
<1>1. /\ lead \in [LeadNames -> [line : Names(3), number : BOOLEAN]]
      /\ lead["first_name"].line \in Names(2)
      /\ lead["agent_name"].number => lead["agent_name"].line = <<Spoken(1)>>
  BY DEF LeadVars
<1>2. \A v \in LeadNames :
         lead[v].line \in Names(3) /\ lead[v] \in [line : {lead[v].line}, number : BOOLEAN]
  BY <1>1
<1>3. \A v \in LeadNames : lead[v] \in Value /\ lead[v].line \in Within(3)
  BY <1>2, NamesAre
<1>4. lead["first_name"].line \in Within(2)
  <2>1. "first_name" \in LeadNames
    BY DEF LeadNames
  <2> QED BY <1>1, <1>2, <2>1, NamesAre
<1>5. lead["agent_name"].number => lead["agent_name"].line \in Within(1)
  <2>1. <<Spoken(1)>> \in Within(1)
    BY WithinSpoken
  <2> QED BY <1>1, <2>1
<1> QED BY <1>1, <1>3, <1>4, <1>5 DEF Most

\* A lead there is.
LEMMA SomeLead == LeadVars # {}
<1> DEFINE name == <<Spoken(1)>>
           lead == [v \in LeadNames |-> [line |-> name, number |-> FALSE]]
<1>1. ASSUME NEW n \in 2..3 PROVE name \in Names(n)
  <2>1. name \in [1..1 -> {Spoken(w) : w \in 1..n}] /\ 1 \in 1..n
    <3>1. 1 \in 1..n
      OBVIOUS
    <3>2. Spoken(1) \in {Spoken(w) : w \in 1..n}
      BY <3>1
    <3> QED BY <3>1, <3>2
  <2>2. Words(name) <= n
    <3> DEFINE f == CHOOSE sum : sum = [i \in 0..1 |-> IF i = 0 THEN 0 ELSE sum[i - 1] + name[i].words]
               d == [i \in 0..1 |-> i]
    <3>1. name[1].words = 1 /\ Len(name) = 1
      BY DEF Spoken
    <3>2. d = [i \in 0..1 |-> IF i = 0 THEN 0 ELSE d[i - 1] + name[i].words]
      <4>1. ASSUME NEW i \in 0..1 PROVE i = IF i = 0 THEN 0 ELSE d[i - 1] + name[i].words
        <5>1. i = 0 \/ i = 1
          OBVIOUS
        <5>2. 0 \in 0..1 /\ 1 - 1 = 0
          OBVIOUS
        <5>3. d[0] = 0
          BY <5>2
        <5> HIDE DEF d, name
        <5> QED BY <3>1, <5>1, <5>2, <5>3
      <4> HIDE DEF name
      <4> QED BY <4>1
    <3> HIDE DEF d
    <3>3. f = [i \in 0..1 |-> IF i = 0 THEN 0 ELSE f[i - 1] + name[i].words]
      BY <3>2
    <3>4. Words(name) = f[1]
      <4>1. Words(name) = f[Len(name)]
        BY <3>1 DEF Words
      <4> QED BY <3>1, <4>1
    <3> HIDE DEF f, name
    <3>5. f[1] = f[1 - 1] + name[1].words /\ f[0] = 0
      BY <3>3
    <3>6. f[1] = 1
      BY <3>1, <3>5
    <3> QED BY <3>4, <3>6
  <2> QED BY <2>1, <2>2 DEF Names
<1> HIDE DEF name
<1>2. name \in Names(2) /\ name \in Names(3)
  BY <1>1
<1>3. lead \in LeadVars
  BY <1>2 DEF LeadVars, LeadNames
<1> QED BY <1>3

\* One more slot of a stretch.
LEMMA SlotWithin ==
    ASSUME NEW n \in Nat, NEW line \in Within(n), NEW u \in Nat, NEW a \in LeadNames, NEW lead \in LeadVars
    PROVE  Join(Join(line, <<Spoken(u)>>), lead[a].line) \in Within(n + u + Most(a))
<1>1. <<Spoken(u)>> \in Within(u) /\ lead[a].line \in Within(Most(a)) /\ Most(a) \in Nat
  BY WithinSpoken, LeadValues DEF Most
<1> DEFINE j == Join(line, <<Spoken(u)>>)
<1>2. j \in Within(n + u) /\ n + u \in Nat
  BY <1>1, WithinJoin
<1> HIDE DEF j
<1>3. Join(j, lead[a].line) \in Within((n + u) + Most(a))
  BY <1>1, <1>2, WithinJoin
<1> QED BY <1>3 DEF j

\* Stretches without variables, with one and with two.
LEMMA SentenceAtMost ==
    ASSUME NEW w \in Nat
    PROVE  /\ AtMost(Sentence(<<>>, w), w)
           /\ \A a \in LeadNames, u \in Nat :
                 AtMost(Sentence(<<After(u, a)>>, w), u + Most(a) + w)
           /\ \A a, b \in LeadNames, u, v \in Nat :
                 AtMost(Sentence(<<After(u, a), After(v, b)>>, w), u + Most(a) + v + Most(b) + w)
<1>1. ASSUME NEW s \in Seq([words : Nat, variable : LeadNames]), NEW lead \in LeadVars
      PROVE  /\ Sentence(s, w) \in Unspoken /\ Valued(Sentence(s, w), lead)
             /\ Sentence(s, w).words = w /\ Sentence(s, w).slots = s /\ Sentence(s, w).special = FALSE
             /\ \A i \in 1..Len(s) : s[i].variable \in LeadNames /\ s[i].words \in Nat
  <2> DEFINE S == [words : Nat, variable : LeadNames]
  <2>1. S \subseteq Slot
    BY TextsAssumption DEF Slot
  <2>2. s \in Seq(S)
    OBVIOUS
  <2>3. \A z \in S : z.variable \in LeadNames /\ z.words \in Nat
    OBVIOUS
  <2> HIDE DEF S
  <2>4. s \in Seq(Slot) /\ \A i \in 1..Len(s) : s[i] \in S
    BY <2>1, <2>2
  <2>5. \A i \in 1..Len(s) : s[i].variable \in LeadNames /\ s[i].words \in Nat
    BY <2>3, <2>4
  <2>6. Sentence(s, w) \in Unspoken
    BY <2>4 DEF Sentence, Unspoken
  <2>7. Sentence(s, w).words = w /\ Sentence(s, w).slots = s /\ Sentence(s, w).special = FALSE
    BY DEF Sentence
  <2>8. Valued(Sentence(s, w), lead)
    BY <2>5, <2>7, LeadValues DEF Valued
  <2> QED BY <2>5, <2>6, <2>7, <2>8
<1>2. <<Spoken(0)>> \in Within(0) /\ \A v \in LeadNames : Most(v) \in Nat
  BY WithinSpoken DEF Most
<1>3. ASSUME NEW z \in Unspoken, NEW lead, Valued(z, lead), z.words = w, z.special = FALSE,
             NEW n \in Nat, NEW line \in Within(n),
             Said(z, lead) = Join(line, <<[words |-> z.words, special |-> z.special]>>)
      PROVE  Said(z, lead) \in Within(n + w)
  <2>1. [words |-> z.words, special |-> z.special] = Spoken(w)
    BY <1>3 DEF Spoken
  <2>2. <<Spoken(w)>> \in Within(w)
    BY WithinSpoken
  <2> QED BY <1>3, <2>1, <2>2, WithinJoin
<1>4. AtMost(Sentence(<<>>, w), w)
  <2> DEFINE s == <<>>
             z == Sentence(s, w)
  <2>1. s \in Seq([words : Nat, variable : LeadNames]) /\ Len(s) = 0
    OBVIOUS
  <2> HIDE DEF s
  <2>2. ASSUME NEW lead \in LeadVars
        PROVE  z \in Unspoken /\ z.slots = s /\ Valued(z, lead) /\ Said(z, lead) \in Within(w)
    <3>1. z \in Unspoken /\ Valued(z, lead) /\ z.words = w /\ z.slots = s /\ z.special = FALSE
      BY <1>1, <2>1
    <3> HIDE DEF z
    <3>2. PICK said :
            /\ said[0] = <<Spoken(0)>>
            /\ Said(z, lead) = Join(said[Len(z.slots)], <<[words |-> z.words, special |-> z.special]>>)
      BY <3>1, SaidIs
    <3>3. said[Len(z.slots)] \in Within(0)
      BY <1>2, <2>1, <3>1, <3>2
    <3>4. Said(z, lead) \in Within(0 + w)
      BY <1>3, <3>1, <3>2, <3>3
    <3> QED BY <3>1, <3>4
  <2> HIDE DEF z
  <2>3. AtMost(z, w)
    BY <2>1, <2>2, SomeLead DEF AtMost
  <2> QED BY <2>3 DEF z, s
<1>5. ASSUME NEW a \in LeadNames, NEW u \in Nat
      PROVE  AtMost(Sentence(<<After(u, a)>>, w), u + Most(a) + w)
  <2> DEFINE s == <<After(u, a)>>
             z == Sentence(s, w)
  <2>1. /\ s \in Seq([words : Nat, variable : LeadNames]) /\ Len(s) = 1
        /\ s[1].words = u /\ s[1].variable = a
    BY DEF After
  <2> HIDE DEF s
  <2>2. ASSUME NEW lead \in LeadVars
        PROVE  z \in Unspoken /\ z.slots = s /\ Valued(z, lead) /\ Said(z, lead) \in Within(u + Most(a) + w)
    <3>1. z \in Unspoken /\ Valued(z, lead) /\ z.words = w /\ z.slots = s /\ z.special = FALSE
      BY <1>1, <2>1
    <3> HIDE DEF z
    <3>2. PICK said :
            /\ said[0] = <<Spoken(0)>>
            /\ \A i \in 1..Len(z.slots) :
                  said[i] = Join(Join(said[i - 1], <<Spoken(z.slots[i].words)>>),
                                 lead[z.slots[i].variable].line)
            /\ Said(z, lead) = Join(said[Len(z.slots)], <<[words |-> z.words, special |-> z.special]>>)
      BY <3>1, SaidIs
    <3>3. said[1] \in Within(0 + u + Most(a))
      <4>0. Len(z.slots) = Len(s)
        BY <3>1
      <4>1. 1 \in 1..Len(z.slots) /\ 1 - 1 = 0
        BY <2>1, <4>0
      <4>2. said[1] = Join(Join(said[0], <<Spoken(u)>>), lead[a].line)
        BY <2>1, <3>1, <3>2, <4>1
      <4> QED BY <1>2, <3>2, <4>2, SlotWithin
    <3>4. Said(z, lead) \in Within(0 + u + Most(a) + w)
      <4> DEFINE n == 0 + u + Most(a)
      <4>0. Len(z.slots) = 1
        BY <2>1, <3>1
      <4>1. n \in Nat /\ said[1] \in Within(n) /\ said[Len(z.slots)] = said[1]
        BY <1>2, <3>3, <4>0
      <4> HIDE DEF n
      <4>2. Said(z, lead) \in Within(n + w)
        BY <1>3, <3>1, <3>2, <4>1
      <4> QED BY <4>2 DEF n
    <3>5. 0 + u + Most(a) + w = u + Most(a) + w
      BY <1>2
    <3> QED BY <3>1, <3>4, <3>5
  <2> HIDE DEF z
  <2>3. AtMost(z, u + Most(a) + w)
    BY <1>1, <1>2, <2>1, <2>2, SomeLead DEF AtMost
  <2> QED BY <2>3 DEF z, s
<1>6. ASSUME NEW a \in LeadNames, NEW b \in LeadNames, NEW u \in Nat, NEW v \in Nat
      PROVE  AtMost(Sentence(<<After(u, a), After(v, b)>>, w), u + Most(a) + v + Most(b) + w)
  <2> DEFINE s == <<After(u, a), After(v, b)>>
             z == Sentence(s, w)
  <2>1. /\ s \in Seq([words : Nat, variable : LeadNames]) /\ Len(s) = 2
        /\ s[1].words = u /\ s[1].variable = a /\ s[2].words = v /\ s[2].variable = b
    BY DEF After
  <2> HIDE DEF s
  <2>2. ASSUME NEW lead \in LeadVars
        PROVE  /\ z \in Unspoken /\ z.slots = s /\ Valued(z, lead)
               /\ Said(z, lead) \in Within(u + Most(a) + v + Most(b) + w)
    <3>1. z \in Unspoken /\ Valued(z, lead) /\ z.words = w /\ z.slots = s /\ z.special = FALSE
      BY <1>1, <2>1
    <3> HIDE DEF z
    <3>2. PICK said :
            /\ said[0] = <<Spoken(0)>>
            /\ \A i \in 1..Len(z.slots) :
                  said[i] = Join(Join(said[i - 1], <<Spoken(z.slots[i].words)>>),
                                 lead[z.slots[i].variable].line)
            /\ Said(z, lead) = Join(said[Len(z.slots)], <<[words |-> z.words, special |-> z.special]>>)
      BY <3>1, SaidIs
    <3>3. said[1] \in Within(0 + u + Most(a))
      <4>0. Len(z.slots) = Len(s)
        BY <3>1
      <4>1. 1 \in 1..Len(z.slots) /\ 1 - 1 = 0
        BY <2>1, <4>0
      <4>2. said[1] = Join(Join(said[0], <<Spoken(u)>>), lead[a].line)
        BY <2>1, <3>1, <3>2, <4>1
      <4> QED BY <1>2, <3>2, <4>2, SlotWithin
    <3> DEFINE n == 0 + u + Most(a)
               m == n + v + Most(b)
    <3>4. n \in Nat /\ m \in Nat /\ said[1] \in Within(n)
      BY <1>2, <3>3
    <3>5. m + w = u + Most(a) + v + Most(b) + w
      BY <1>2
    <3> HIDE DEF n
    <3>6. said[2] \in Within(m)
      <4>0. Len(z.slots) = Len(s)
        BY <3>1
      <4>1. 2 \in 1..Len(z.slots) /\ 2 - 1 = 1
        BY <2>1, <4>0
      <4>2. said[2] = Join(Join(said[1], <<Spoken(v)>>), lead[b].line)
        BY <2>1, <3>1, <3>2, <4>1
      <4> QED BY <3>4, <4>2, SlotWithin
    <3> HIDE DEF m
    <3>7. Said(z, lead) \in Within(m + w)
      <4>1. said[Len(z.slots)] = said[2]
        BY <2>1, <3>1
      <4> QED BY <1>3, <3>1, <3>2, <3>4, <3>6, <4>1
    <3> QED BY <3>1, <3>5, <3>7
  <2> HIDE DEF z
  <2>3. AtMost(z, u + Most(a) + v + Most(b) + w)
    <3>1. z \in Unspoken /\ z.slots = s
      BY <2>2, SomeLead
    <3>2. ASSUME NEW i \in 1..Len(z.slots) PROVE z.slots[i].variable \in LeadNames
      <4>0. Len(z.slots) = Len(s)
        BY <3>1
      <4>1. i = 1 \/ i = 2
        BY <2>1, <4>0
      <4>2. s[1].variable \in LeadNames /\ s[2].variable \in LeadNames
        BY <2>1
      <4> QED BY <3>1, <4>1, <4>2
    <3>3. u + Most(a) + v + Most(b) + w \in Nat
      BY <1>2
    <3> QED BY <2>2, <3>1, <3>2, <3>3 DEF AtMost
  <2> QED BY <2>3 DEF z, s
<1> QED BY <1>4, <1>5, <1>6

\* A stretch of w words, without variables, is one sentence for every lead.
LEMMA PlainSaid ==
    ASSUME NEW w \in Nat, NEW lead
    PROVE  /\ Sentence(<<>>, w) \in Unspoken /\ Valued(Sentence(<<>>, w), lead)
           /\ Said(Sentence(<<>>, w), lead) = <<Spoken(w)>>
           /\ EndsInDigit(Sentence(<<>>, w), lead) = FALSE
<1> DEFINE z == Sentence(<<>>, w)
           last == [words |-> z.words, special |-> z.special]
           zero == <<Spoken(0)>>
           j == Join(zero, <<last>>)
<1>1. /\ z \in Unspoken /\ Valued(z, lead) /\ z.words = w /\ z.slots = <<>> /\ Len(z.slots) = 0
      /\ z.special = FALSE /\ z.number = FALSE
  BY DEF Sentence, Unspoken, Valued
<1>2. last = Spoken(w)
  BY <1>1 DEF Spoken
<1> HIDE DEF z
<1>3. Said(z, lead) = j
  <2>1. PICK said :
          /\ said[0] = <<Spoken(0)>>
          /\ \A i \in 1..Len(z.slots) :
                said[i] = Join(Join(said[i - 1], <<Spoken(z.slots[i].words)>>),
                               lead[z.slots[i].variable].line)
          /\ \A i \in 0..Len(z.slots) : said[i] \in Line
          /\ Said(z, lead) = Join(said[Len(z.slots)], <<[words |-> z.words, special |-> z.special]>>)
    BY <1>1, SaidIs, Zenon
  <2> QED BY <1>1, <2>1
<1>4. EndsInDigit(z, lead) = FALSE
  BY <1>1, DigitIs
<1>5. zero \in Line /\ <<last>> \in Line /\ Len(zero) = 1 /\ Len(<<last>>) = 1
      /\ Last(zero) = Spoken(0) /\ Head(<<last>>) = Spoken(w)
  BY <1>2, SpokenIs, OneSentence
<1>6. Met(zero, <<last>>) = Spoken(w)
  <2>1. Spoken(0).words = 0 /\ Spoken(0).special = FALSE /\ Spoken(w).words = w /\ Spoken(w).special = FALSE
    BY SpokenIs
  <2>2. Last(zero).words + Head(<<last>>).words = w
    BY <1>5, <2>1
  <2>3. (Last(zero).special \/ Head(<<last>>).special) = FALSE
    BY <1>5, <2>1
  <2> HIDE DEF zero, last
  <2> QED BY <2>2, <2>3 DEF Met, Spoken
<1>7. j \in Line /\ Len(j) = 1 /\ j[1] = Spoken(w)
  <2> HIDE DEF last
  <2>1. j \in Line /\ Len(j) = Len(<<last>>) /\ j[1] = Met(zero, <<last>>)
    BY <1>5, SpokenJoined
  <2> QED BY <1>5, <1>6, <2>1
<1> HIDE DEF j
<1>8. j = <<Spoken(w)>>
  <2> DEFINE r == <<Spoken(w)>>
  <2>1. r \in Seq(Utterance) /\ Len(r) = 1 /\ r[1] = Spoken(w)
    BY SpokenLine DEF Line
  <2> HIDE DEF r
  <2>2. j \in Seq(Utterance) /\ Len(j) = 1
    BY <1>7 DEF Line
  <2>3. j = r
    BY <1>7, <2>1, <2>2, SeqEqual
  <2> QED BY <2>3 DEF r
<1> QED BY <1>1, <1>3, <1>4, <1>8 DEF z

-----------------------------------------------------------------------------
(* Texts of one stretch to four.                                            *)
OfLead(z, lead) == z \in Unspoken /\ Valued(z, lead)

\* A text is a sequence of stretches.
LEMMA TextIs == ASSUME NEW text \in Seq(Unspoken), Len(text) # 0 PROVE text \in Text
<1>1. text # <<>>
  OBVIOUS
<1> QED BY <1>1 DEF Text, Unspoken

LEMMA SubOne ==
    ASSUME NEW a, NEW lead, OfLead(a, lead)
    PROVE  <<a>> \in Text /\ Sub(<<a>>, lead) = Said(a, lead)
<1> DEFINE text == <<a>>
<1>1. a \in Unspoken /\ Valued(a, lead)
  BY DEF OfLead
<1>2. text \in Seq(Unspoken) /\ Len(text) = 1 /\ DOMAIN text = 1..1 /\ text[1] = a
  BY <1>1
<1> HIDE DEF text
<1>3. text \in Text
  <2>1. Len(text) # 0
    BY <1>2
  <2> QED BY <1>2, <2>1, TextIs
<1>4. \A i \in DOMAIN text : Valued(text[i], lead)
  BY <1>1, <1>2
<1>5. Sub(text, lead) = Said(a, lead)
  BY <1>2, <1>3, <1>4, SubIs
<1> QED BY <1>3, <1>5 DEF text

LEMMA SubTwo ==
    ASSUME NEW a, NEW b, NEW lead, OfLead(a, lead), OfLead(b, lead)
    PROVE  /\ <<a, b>> \in Text
           /\ Sub(<<a, b>>, lead) = Follow(Said(a, lead), EndsInDigit(a, lead), Said(b, lead))
<1> DEFINE text == <<a, b>>
<1>1. a \in Unspoken /\ Valued(a, lead) /\ b \in Unspoken /\ Valued(b, lead)
  BY DEF OfLead
<1>2. text \in Seq(Unspoken) /\ Len(text) = 2 /\ DOMAIN text = 1..2 /\ text[1] = a /\ text[2] = b
  BY <1>1
<1> HIDE DEF text
<1>3. text \in Text
  <2>1. Len(text) # 0
    BY <1>2
  <2> QED BY <1>2, <2>1, TextIs
<1>4. \A i \in 1..2 : i = 1 \/ i = 2
  OBVIOUS
<1>5. \A i \in DOMAIN text : Valued(text[i], lead)
  BY <1>1, <1>2, <1>4
<1>6. PICK line :
        /\ line[1] = Said(text[1], lead)
        /\ \A i \in 2..Len(text) :
              line[i] = Follow(line[i - 1], EndsInDigit(text[i - 1], lead), Said(text[i], lead))
        /\ Sub(text, lead) = line[Len(text)]
  BY <1>3, <1>5, SubIs
<1>7. 2 \in 2..2 /\ 2 - 1 = 1
  OBVIOUS
<1>8. line[2] = Follow(line[1], EndsInDigit(text[1], lead), Said(text[2], lead))
  BY <1>2, <1>6, <1>7
<1> QED BY <1>2, <1>3, <1>6, <1>8 DEF text

LEMMA SubThree ==
    ASSUME NEW a, NEW b, NEW c, NEW lead, OfLead(a, lead), OfLead(b, lead), OfLead(c, lead)
    PROVE  /\ <<a, b, c>> \in Text
           /\ Sub(<<a, b, c>>, lead) =
                 Follow(Follow(Said(a, lead), EndsInDigit(a, lead), Said(b, lead)),
                        EndsInDigit(b, lead), Said(c, lead))
<1> DEFINE text == <<a, b, c>>
<1>1. /\ a \in Unspoken /\ Valued(a, lead) /\ b \in Unspoken /\ Valued(b, lead)
      /\ c \in Unspoken /\ Valued(c, lead)
  BY DEF OfLead
<1>2. /\ text \in Seq(Unspoken) /\ Len(text) = 3 /\ DOMAIN text = 1..3
      /\ text[1] = a /\ text[2] = b /\ text[3] = c
  BY <1>1
<1> HIDE DEF text
<1>3. text \in Text
  <2>1. Len(text) # 0
    BY <1>2
  <2> QED BY <1>2, <2>1, TextIs
<1>4. \A i \in 1..3 : i = 1 \/ i = 2 \/ i = 3
  OBVIOUS
<1>5. \A i \in DOMAIN text : Valued(text[i], lead)
  BY <1>1, <1>2, <1>4
<1>6. PICK line :
        /\ line[1] = Said(text[1], lead)
        /\ \A i \in 2..Len(text) :
              line[i] = Follow(line[i - 1], EndsInDigit(text[i - 1], lead), Said(text[i], lead))
        /\ Sub(text, lead) = line[Len(text)]
  BY <1>3, <1>5, SubIs
<1>7. 2 \in 2..3 /\ 2 - 1 = 1 /\ 3 \in 2..3 /\ 3 - 1 = 2
  OBVIOUS
<1>8. /\ line[2] = Follow(line[1], EndsInDigit(text[1], lead), Said(text[2], lead))
      /\ line[3] = Follow(line[2], EndsInDigit(text[2], lead), Said(text[3], lead))
  BY <1>2, <1>6, <1>7
<1> QED BY <1>2, <1>3, <1>6, <1>8 DEF text

LEMMA SubFour ==
    ASSUME NEW a, NEW b, NEW c, NEW d, NEW lead,
           OfLead(a, lead), OfLead(b, lead), OfLead(c, lead), OfLead(d, lead)
    PROVE  /\ <<a, b, c, d>> \in Text
           /\ Sub(<<a, b, c, d>>, lead) =
                 Follow(Follow(Follow(Said(a, lead), EndsInDigit(a, lead), Said(b, lead)),
                               EndsInDigit(b, lead), Said(c, lead)),
                        EndsInDigit(c, lead), Said(d, lead))
<1> DEFINE text == <<a, b, c, d>>
<1>1. /\ a \in Unspoken /\ Valued(a, lead) /\ b \in Unspoken /\ Valued(b, lead)
      /\ c \in Unspoken /\ Valued(c, lead) /\ d \in Unspoken /\ Valued(d, lead)
  BY DEF OfLead
<1>2. /\ text \in Seq(Unspoken) /\ Len(text) = 4 /\ DOMAIN text = 1..4
      /\ text[1] = a /\ text[2] = b /\ text[3] = c /\ text[4] = d
  BY <1>1
<1> HIDE DEF text
<1>3. text \in Text
  <2>1. Len(text) # 0
    BY <1>2
  <2> QED BY <1>2, <2>1, TextIs
<1>4. \A i \in 1..4 : i = 1 \/ i = 2 \/ i = 3 \/ i = 4
  OBVIOUS
<1>5. \A i \in DOMAIN text : Valued(text[i], lead)
  BY <1>1, <1>2, <1>4
<1>6. PICK line :
        /\ line[1] = Said(text[1], lead)
        /\ \A i \in 2..Len(text) :
              line[i] = Follow(line[i - 1], EndsInDigit(text[i - 1], lead), Said(text[i], lead))
        /\ Sub(text, lead) = line[Len(text)]
  BY <1>3, <1>5, SubIs
<1>7. 2 \in 2..4 /\ 2 - 1 = 1 /\ 3 \in 2..4 /\ 3 - 1 = 2 /\ 4 \in 2..4 /\ 4 - 1 = 3
  OBVIOUS
<1>8. /\ line[2] = Follow(line[1], EndsInDigit(text[1], lead), Said(text[2], lead))
      /\ line[3] = Follow(line[2], EndsInDigit(text[2], lead), Said(text[3], lead))
      /\ line[4] = Follow(line[3], EndsInDigit(text[3], lead), Said(text[4], lead))
  BY <1>2, <1>6, <1>7
<1> QED BY <1>2, <1>3, <1>6, <1>8 DEF text

\* A text of a template of the repository that fits its place for every lead.
Suitable(text, before, after) ==
    /\ text \in Text /\ Named(text) \subseteq LeadNames
    /\ \A lead \in LeadVars : Fits(Sub(text, lead), before, after)

\* The names in a text are those in its stretches.
LEMMA NamesOfLeads ==
    ASSUME NEW text \in Seq(Unspoken),
           \A i \in DOMAIN text : \A j \in 1..Len(text[i].slots) : text[i].slots[j].variable \in LeadNames
    PROVE  Named(text) \subseteq LeadNames
<1> SUFFICES ASSUME NEW i \in DOMAIN text, NEW slot \in Range(text[i].slots)
             PROVE  slot.variable \in LeadNames
  BY DEF Named
<1>1. text[i].slots \in Seq(Slot)
  <2>1. text[i] \in Unspoken
    OBVIOUS
  <2> QED BY <2>1 DEF Unspoken
<1>2. PICK j \in 1..Len(text[i].slots) : slot = text[i].slots[j]
  BY <1>1 DEF Range
<1> QED BY <1>2

\* A stretch is one for every lead.
LEMMA AtMostIs ==
    ASSUME NEW a, NEW p, AtMost(a, p), NEW lead \in LeadVars
    PROVE  OfLead(a, lead) /\ p \in Nat /\ Said(a, lead) \in Within(p) /\ EndsInDigit(a, lead) \in BOOLEAN
<1>1. a \in Unspoken /\ p \in Nat /\ Valued(a, lead) /\ Said(a, lead) \in Within(p)
  BY DEF AtMost
<1>2. EndsInDigit(a, lead) \in BOOLEAN
  BY <1>1, DigitIs
<1> QED BY <1>1, <1>2 DEF OfLead

\* A text of one sentence, without a terminator and with one: the values in
\* it may end in a digit, and then the terminator splits nothing.
LEMMA SuitsOne ==
    ASSUME NEW a, NEW p, AtMost(a, p), NEW before \in Nat, NEW after \in Nat, p + before + after <= MaxWords
    PROVE  Suitable(<<a>>, before, after) /\ Suitable(<<a, End>>, before, after)
<1>1. a \in Unspoken /\ p \in Nat /\ \A j \in 1..Len(a.slots) : a.slots[j].variable \in LeadNames
  BY DEF AtMost
<1>2. AtMost(End, 0)
  BY SentenceAtMost DEF End
<1>3. End \in Unspoken /\ \A j \in 1..Len(End.slots) : End.slots[j].variable \in LeadNames
  BY <1>2 DEF AtMost
<1> HIDE DEF End
<1>4. ASSUME NEW lead \in LeadVars
      PROVE  /\ <<a>> \in Text /\ Fits(Sub(<<a>>, lead), before, after)
             /\ <<a, End>> \in Text /\ Fits(Sub(<<a, End>>, lead), before, after)
  <2> DEFINE s == Said(a, lead)
             e == Said(End, lead)
             d == EndsInDigit(a, lead)
  <2>1. OfLead(a, lead) /\ s \in Within(p) /\ d \in BOOLEAN /\ OfLead(End, lead) /\ e \in Within(0)
    BY <1>2, AtMostIs
  <2>2. /\ <<a>> \in Text /\ Sub(<<a>>, lead) = s
        /\ <<a, End>> \in Text /\ Sub(<<a, End>>, lead) = Follow(s, d, e)
    BY <2>1, SubOne, SubTwo
  <2> HIDE DEF s, e, d
  <2>3. Follow(s, d, e) \in Within(p + 0) /\ p + 0 = p
    BY <1>1, <2>1, WithinFollow
  <2>4. Fits(s, before, after) /\ Fits(Follow(s, d, e), before, after)
    <3> DEFINE f == Follow(s, d, e)
    <3>1. f \in Within(p)
      BY <2>3
    <3> HIDE DEF f
    <3>2. Fits(s, before, after) /\ Fits(f, before, after)
      BY <1>1, <2>1, <3>1, WithinFits
    <3> QED BY <3>2 DEF f
  <2> QED BY <2>2, <2>4
<1>5. Named(<<a>>) \subseteq LeadNames
  <2> DEFINE t == <<a>>
  <2>1. t \in Seq(Unspoken) /\ DOMAIN t = 1..1 /\ t[1] = a
    BY <1>1
  <2> HIDE DEF t
  <2>2. \A i \in DOMAIN t : t[i] = a
    BY <2>1
  <2>3. Named(t) \subseteq LeadNames
    BY <1>1, <2>1, <2>2, NamesOfLeads
  <2> QED BY <2>3 DEF t
<1>6. Named(<<a, End>>) \subseteq LeadNames
  <2> DEFINE t == <<a, End>>
  <2>1. t \in Seq(Unspoken) /\ DOMAIN t = 1..2 /\ t[1] = a /\ t[2] = End
    BY <1>1, <1>3
  <2>2. \A i \in 1..2 : i = 1 \/ i = 2
    OBVIOUS
  <2> HIDE DEF t
  <2>3. \A i \in DOMAIN t : t[i] = a \/ t[i] = End
    BY <2>1, <2>2
  <2>4. \A i \in DOMAIN t : \A j \in 1..Len(t[i].slots) : t[i].slots[j].variable \in LeadNames
    BY <1>1, <1>3, <2>3
  <2>5. Named(t) \subseteq LeadNames
    BY <2>1, <2>4, NamesOfLeads
  <2> QED BY <2>5 DEF t
<1> QED BY <1>4, <1>5, <1>6, SomeLead DEF Suitable

\* Texts of plain words, of one sentence and of two.
LEMMA PlainSuits ==
    ASSUME NEW before \in Nat, NEW after \in 0..5, NEW w \in Nat, w + before <= MaxWords
    PROVE  /\ Suitable(Plain(w), before, after)
           /\ \A u \in Nat : u <= MaxWords => Suitable(Plain2(w, u), before, after)
<1> DEFINE s(n) == Sentence(<<>>, n)
           one == <<Spoken(w)>>
           end == <<Spoken(0)>>
<1>1. after \in Nat /\ one \in Line /\ end \in Line /\ one \in Within(w) /\ end \in Within(0)
  BY SpokenLine, WithinSpoken
<1>2. Fits(one, before, 0) /\ Fits(end, 0, after)
  <2>1. w + before + 0 <= MaxWords /\ 0 + 0 + after <= MaxWords
    BY DEF MaxWords
  <2> HIDE DEF one, end
  <2> QED BY <1>1, <2>1, WithinFits
<1>3. \A n \in Nat : \A lead :
         /\ OfLead(s(n), lead) /\ Said(s(n), lead) = <<Spoken(n)>> /\ EndsInDigit(s(n), lead) = FALSE
         /\ s(n) \in Unspoken /\ Len(s(n).slots) = 0
  <2> SUFFICES ASSUME NEW n \in Nat, NEW lead
               PROVE  /\ OfLead(s(n), lead) /\ Said(s(n), lead) = <<Spoken(n)>>
                      /\ EndsInDigit(s(n), lead) = FALSE
                      /\ s(n) \in Unspoken /\ Len(s(n).slots) = 0
    OBVIOUS
  <2>1. Len(s(n).slots) = 0
    BY DEF Sentence
  <2> QED BY <2>1, PlainSaid DEF OfLead
<1>4. Plain(w) = <<s(w), s(0)>> /\ \A u : Plain2(w, u) = <<s(w), s(u), s(0)>>
  BY DEF Plain, Plain2, End
<1> HIDE DEF s
<1>5. Suitable(Plain(w), before, after)
  <2> DEFINE text == <<s(w), s(0)>>
  <2>1. text \in Text /\ \A lead : Sub(text, lead) = Follow(one, FALSE, end)
    <3>1. /\ \A lead : OfLead(s(w), lead) /\ OfLead(s(0), lead) /\ EndsInDigit(s(w), lead) = FALSE
          /\ \A lead : Said(s(w), lead) = one /\ Said(s(0), lead) = end
      BY <1>3
    <3> HIDE DEF one, end, text
    <3>2. \A lead : <<s(w), s(0)>> \in Text /\ Sub(<<s(w), s(0)>>, lead) = Follow(one, FALSE, end)
      <4> TAKE lead
      <4>1. /\ <<s(w), s(0)>> \in Text
            /\ Sub(<<s(w), s(0)>>, lead)
                 = Follow(Said(s(w), lead), EndsInDigit(s(w), lead), Said(s(0), lead))
        BY <3>1, SubTwo
      <4> QED BY <3>1, <4>1
    <3> QED BY <3>2 DEF text
  <2>2. Follow(one, FALSE, end) = one \o end
    BY DEF Follow
  <2>3. text \in Seq(Unspoken) /\ \A i \in DOMAIN text : Len(text[i].slots) = 0
    <3>1. text \in Seq(Unspoken) /\ DOMAIN text = 1..2 /\ text[1] = s(w) /\ text[2] = s(0)
      BY <1>3
    <3>2. \A i \in 1..2 : i = 1 \/ i = 2
      OBVIOUS
    <3> HIDE DEF text
    <3>3. \A i \in DOMAIN text : text[i] = s(w) \/ text[i] = s(0)
      BY <3>1, <3>2
    <3> QED BY <1>3, <3>1, <3>3
  <2> HIDE DEF text, one, end
  <2>4. Named(text) \subseteq LeadNames
    BY <2>3, NamesOfLeads
  <2>5. Fits(one \o end, before, after)
    BY <1>1, <1>2, ConcatFits
  <2>6. Suitable(text, before, after)
    BY <2>1, <2>2, <2>4, <2>5 DEF Suitable
  <2> QED BY <1>4, <2>6 DEF text
<1>6. ASSUME NEW u \in Nat, u <= MaxWords PROVE Suitable(Plain2(w, u), before, after)
  <2> DEFINE text == <<s(w), s(u), s(0)>>
             two == <<Spoken(u)>>
  <2>1. text \in Text /\ \A lead : Sub(text, lead) = Follow(Follow(one, FALSE, two), FALSE, end)
    <3>1. /\ \A lead : OfLead(s(w), lead) /\ OfLead(s(u), lead) /\ OfLead(s(0), lead)
          /\ \A lead : EndsInDigit(s(w), lead) = FALSE /\ EndsInDigit(s(u), lead) = FALSE
          /\ \A lead : Said(s(w), lead) = one /\ Said(s(u), lead) = two /\ Said(s(0), lead) = end
      BY <1>3
    <3> HIDE DEF one, two, end, text
    <3>2. \A lead : /\ <<s(w), s(u), s(0)>> \in Text
                    /\ Sub(<<s(w), s(u), s(0)>>, lead) = Follow(Follow(one, FALSE, two), FALSE, end)
      <4> TAKE lead
      <4>1. /\ <<s(w), s(u), s(0)>> \in Text
            /\ Sub(<<s(w), s(u), s(0)>>, lead)
                 = Follow(Follow(Said(s(w), lead), EndsInDigit(s(w), lead), Said(s(u), lead)),
                          EndsInDigit(s(u), lead), Said(s(0), lead))
        BY <3>1, SubThree
      <4> QED BY <3>1, <4>1
    <3> QED BY <3>2 DEF text
  <2>2. Follow(Follow(one, FALSE, two), FALSE, end) = (one \o two) \o end
    BY DEF Follow
  <2>3. text \in Seq(Unspoken) /\ \A i \in DOMAIN text : Len(text[i].slots) = 0
    <3>1. /\ text \in Seq(Unspoken) /\ DOMAIN text = 1..3
          /\ text[1] = s(w) /\ text[2] = s(u) /\ text[3] = s(0)
      BY <1>3
    <3>2. \A i \in 1..3 : i = 1 \/ i = 2 \/ i = 3
      OBVIOUS
    <3> HIDE DEF text
    <3>3. \A i \in DOMAIN text : text[i] = s(w) \/ text[i] = s(u) \/ text[i] = s(0)
      BY <3>1, <3>2
    <3> QED BY <1>3, <3>1, <3>3
  <2>4. two \in Line /\ two \in Within(u) /\ u + 0 + 0 <= MaxWords
    BY <1>6, SpokenLine, WithinSpoken DEF MaxWords
  <2> HIDE DEF text, one, two, end
  <2>5. Named(text) \subseteq LeadNames
    BY <2>3, NamesOfLeads
  <2>6. Fits(two, 0, 0)
    BY <2>4, WithinFits
  <2> DEFINE both == one \o two
  <2>7. both \in Line /\ Fits(both, before, 0)
    BY <1>1, <1>2, <2>4, <2>6, ConcatFits
  <2> HIDE DEF both
  <2>8. Fits(both \o end, before, after)
    BY <1>1, <1>2, <2>7, ConcatFits
  <2>9. Suitable(text, before, after)
    BY <2>1, <2>2, <2>5, <2>8 DEF Suitable, both
  <2> QED BY <1>4, <2>9 DEF text
<1> QED BY <1>5, <1>6

\* A phrase.
LEMMA PhraseSuits ==
    ASSUME NEW before \in Nat, NEW after \in Nat, NEW w \in Nat, w + before + after <= MaxWords
    PROVE  Suitable(Phrase(w), before, after)
<1>1. AtMost(Sentence(<<>>, w), w)
  BY SentenceAtMost
<1> QED BY <1>1, SuitsOne DEF Phrase

\* Steps that end in a sentence with a variable after two without.
LEMMA Plain2UsingSuits ==
    ASSUME NEW w \in 0..10, NEW u \in 0..10, NEW z, NEW p \in 0..10, AtMost(z, p)
    PROVE  Suitable(<<Sentence(<<>>, w), Sentence(<<>>, u), z, End>>, 2, 0)
<1> DEFINE a == Sentence(<<>>, w)
           b == Sentence(<<>>, u)
           text == <<a, b, z, End>>
<1>1. w \in Nat /\ u \in Nat /\ p \in Nat /\ w <= 10 /\ u <= 10 /\ p <= 10 /\ 10 \in Nat
  OBVIOUS
<1>2. AtMost(a, w) /\ AtMost(b, u) /\ AtMost(End, 0)
  BY <1>1, SentenceAtMost DEF End
<1>3. \A lead : EndsInDigit(a, lead) = FALSE /\ EndsInDigit(b, lead) = FALSE
  BY <1>1, PlainSaid
<1> HIDE DEF a, b, End
<1>4. ASSUME NEW lead \in LeadVars PROVE text \in Text /\ Fits(Sub(text, lead), 2, 0)
  <2> DEFINE l == Said(a, lead)
             m == Said(b, lead)
             n == Said(z, lead)
             e == Said(End, lead)
             d == EndsInDigit(z, lead)
  <2>1. /\ OfLead(a, lead) /\ OfLead(b, lead) /\ OfLead(z, lead) /\ OfLead(End, lead)
        /\ l \in Within(w) /\ m \in Within(u) /\ n \in Within(p) /\ e \in Within(0) /\ d \in BOOLEAN
    BY <1>2, AtMostIs
  <2>2. text \in Text /\ Sub(text, lead) = Follow(Follow(Follow(l, FALSE, m), FALSE, n), d, e)
    <3>1. /\ text \in Text
          /\ Sub(text, lead) = Follow(Follow(Follow(l, EndsInDigit(a, lead), m), EndsInDigit(b, lead), n), d, e)
      BY <2>1, SubFour
    <3>2. EndsInDigit(a, lead) = FALSE /\ EndsInDigit(b, lead) = FALSE
      BY <1>3
    <3> HIDE DEF l, m, n, d, e, text
    <3> QED BY <3>1, <3>2
  <2> DEFINE two == Follow(l, FALSE, m)
             three == Follow(two, FALSE, n)
             four == Follow(three, d, e)
  <2> HIDE DEF l, m, n, e, d, text
  <2>3. two \in Within(10)
    BY <1>1, <2>1, WithinFollow
  <2> HIDE DEF two
  <2>4. three \in Within(10)
    <3>1. 10 <= 10
      OBVIOUS
    <3> QED BY <1>1, <2>1, <2>3, <3>1, WithinFollow
  <2> HIDE DEF three
  <2>5. four \in Within(10 + 0)
    BY <1>1, <2>1, <2>4, WithinFollow
  <2>6. 10 + 0 = 10 /\ 10 + 2 + 0 <= MaxWords
    BY DEF MaxWords
  <2> HIDE DEF four
  <2>7. Fits(four, 2, 0)
    BY <1>1, <2>5, <2>6, WithinFits
  <2> QED BY <2>2, <2>7 DEF two, three, four
<1>5. Named(text) \subseteq LeadNames
  <2>1. /\ a \in Unspoken /\ b \in Unspoken /\ z \in Unspoken /\ End \in Unspoken
        /\ \A j \in 1..Len(a.slots) : a.slots[j].variable \in LeadNames
        /\ \A j \in 1..Len(b.slots) : b.slots[j].variable \in LeadNames
        /\ \A j \in 1..Len(z.slots) : z.slots[j].variable \in LeadNames
        /\ \A j \in 1..Len(End.slots) : End.slots[j].variable \in LeadNames
    BY <1>2 DEF AtMost
  <2>2. /\ text \in Seq(Unspoken) /\ DOMAIN text = 1..4
        /\ text[1] = a /\ text[2] = b /\ text[3] = z /\ text[4] = End
    BY <2>1
  <2>3. \A i \in 1..4 : i = 1 \/ i = 2 \/ i = 3 \/ i = 4
    OBVIOUS
  <2> HIDE DEF text
  <2>4. \A i \in DOMAIN text : text[i] = a \/ text[i] = b \/ text[i] = z \/ text[i] = End
    BY <2>2, <2>3
  <2>5. \A i \in DOMAIN text : \A j \in 1..Len(text[i].slots) : text[i].slots[j].variable \in LeadNames
    BY <2>1, <2>4
  <2> QED BY <2>2, <2>5, NamesOfLeads
<1>6. Suitable(text, 2, 0)
  <2> HIDE DEF text
  <2> QED BY <1>4, <1>5, SomeLead DEF Suitable
<1> QED BY <1>6 DEF text, a, b

\* The words of a stretch with one variable, of a value of k words.
LEMMA OneSlot ==
    ASSUME NEW u \in Nat, NEW a \in LeadNames, NEW w \in Nat, NEW lead \in LeadVars,
           NEW k \in Nat, lead[a].line \in Within(k)
    PROVE  LET z == Sentence(<<After(u, a)>>, w)
           IN  /\ Said(z, lead) \in Within(u + k + w)
               /\ w = 0 => EndsInDigit(z, lead) = lead[a].number
<1> DEFINE s == <<After(u, a)>>
           z == Sentence(s, w)
           last == [words |-> z.words, special |-> z.special]
<1>1. s \in Seq(Slot) /\ Len(s) = 1 /\ s[1].words = u /\ s[1].variable = a /\ Last(s) = s[1] /\ s # <<>>
  <2>1. a \in Variables
    BY TextsAssumption
  <2>2. After(u, a) \in Slot
    BY <2>1 DEF After, Slot
  <2> QED BY <2>2 DEF After, Last
<1> HIDE DEF s
<1>2. z \in Unspoken /\ z.slots = s /\ z.words = w /\ last = Spoken(w)
  BY <1>1 DEF Sentence, Unspoken, Spoken
<1>3. Valued(z, lead)
  <2>1. lead[a] \in Value
    BY LeadValues
  <2>2. Len(z.slots) = Len(s)
    BY <1>2
  <2>3. \A i \in 1..Len(z.slots) : i = 1
    BY <1>1, <2>2
  <2>4. \A i \in 1..Len(z.slots) : z.slots[i].variable = a
    BY <1>1, <1>2, <2>3
  <2> QED BY <2>1, <2>4 DEF Valued
<1> HIDE DEF z
<1>4. PICK said :
        /\ said[0] = <<Spoken(0)>>
        /\ \A i \in 1..Len(z.slots) :
              said[i] = Join(Join(said[i - 1], <<Spoken(z.slots[i].words)>>),
                             lead[z.slots[i].variable].line)
        /\ \A i \in 0..Len(z.slots) : said[i] \in Line
        /\ Said(z, lead) = Join(said[Len(z.slots)], <<[words |-> z.words, special |-> z.special]>>)
  BY <1>2, <1>3, SaidIs, Zenon
<1> HIDE DEF last
<1>5. said[1] = Join(Join(said[0], <<Spoken(u)>>), lead[a].line)
  <2>1. 1 \in 1..Len(z.slots) /\ 1 - 1 = 0
    BY <1>1, <1>2
  <2> QED BY <1>1, <1>2, <1>4, <2>1
<1>6. said[0] \in Within(0) /\ <<Spoken(u)>> \in Within(u) /\ <<last>> \in Within(w)
  BY <1>2, <1>4, WithinSpoken
<1> DEFINE j == Join(said[0], <<Spoken(u)>>)
<1>7. j \in Within(0 + u) /\ 0 + u = u
  <2>1. 0 \in Nat /\ 0 + u = u
    OBVIOUS
  <2>2. j \in Within(0 + u)
    BY <1>6, <2>1, WithinJoin
  <2> QED BY <2>1, <2>2
<1>8. said[1] = Join(j, lead[a].line)
  BY <1>5
<1> HIDE DEF j
<1>9. said[1] \in Within(u + k) /\ u + k \in Nat
  BY <1>7, <1>8, WithinJoin
<1>10. Said(z, lead) \in Within(u + k + w)
  <2>1. Said(z, lead) = Join(said[1], <<last>>)
    <3>1. Len(z.slots) = 1
      BY <1>1, <1>2
    <3> QED BY <1>4, <3>1 DEF last
  <2> DEFINE n == u + k
  <2>2. n \in Nat /\ said[1] \in Within(n)
    BY <1>9
  <2> HIDE DEF n
  <2>3. Said(z, lead) \in Within(n + w)
    BY <1>6, <2>1, <2>2, WithinJoin
  <2> QED BY <2>3 DEF n
<1>11. ASSUME w = 0 PROVE EndsInDigit(z, lead) = lead[a].number
  BY <1>1, <1>2, <1>11 DEF EndsInDigit
<1> QED BY <1>10, <1>11 DEF z, s

\* The recruiter's second step: an agent of one word may end in a digit, and
\* then its two sentences are one.
LEMMA AgentSuits ==
    Suitable(<<Sentence(<<After(2, "agent_name")>>, 0), Sentence(<<>>, 7), End>>, 2, 0)
<1> DEFINE a == Sentence(<<After(2, "agent_name")>>, 0)
           b == Sentence(<<>>, 7)
           text == <<a, b, End>>
<1>1. "agent_name" \in LeadNames /\ Most("agent_name") = 3 /\ 2 \in Nat /\ 0 \in Nat /\ 7 \in Nat
  BY DEF LeadNames, Most
<1>2. AtMost(a, 5) /\ AtMost(b, 7) /\ AtMost(End, 0)
  <2>1. AtMost(a, 2 + Most("agent_name") + 0) /\ AtMost(b, 7) /\ AtMost(End, 0)
    BY <1>1, SentenceAtMost DEF End
  <2>2. 2 + Most("agent_name") + 0 = 5
    BY <1>1
  <2> QED BY <2>1, <2>2
<1>3. \A lead : EndsInDigit(b, lead) = FALSE
  BY <1>1, PlainSaid
<1>4. ASSUME NEW lead \in LeadVars, EndsInDigit(a, lead) PROVE Said(a, lead) \in Within(3)
  <2>1. lead["agent_name"].line \in Within(3)
    BY <1>1, LeadValues
  <2>2. EndsInDigit(a, lead) = lead["agent_name"].number
    BY <1>1, <2>1, OneSlot
  <2>3. lead["agent_name"].line \in Within(1) /\ 1 \in Nat
    BY <1>4, <2>2, LeadValues
  <2>4. Said(a, lead) \in Within(2 + 1 + 0)
    BY <1>1, <2>3, OneSlot
  <2>5. 2 + 1 + 0 = 3
    OBVIOUS
  <2> QED BY <2>4, <2>5
<1> HIDE DEF a, b, End
<1>5. ASSUME NEW lead \in LeadVars PROVE text \in Text /\ Fits(Sub(text, lead), 2, 0)
  <2> DEFINE l == Said(a, lead)
             m == Said(b, lead)
             e == Said(End, lead)
             d == EndsInDigit(a, lead)
  <2>1. /\ OfLead(a, lead) /\ OfLead(b, lead) /\ OfLead(End, lead)
        /\ l \in Within(5) /\ m \in Within(7) /\ e \in Within(0) /\ d \in BOOLEAN
    BY <1>2, AtMostIs
  <2>2. text \in Text /\ Sub(text, lead) = Follow(Follow(l, d, m), FALSE, e)
    <3>1. /\ text \in Text
          /\ Sub(text, lead) = Follow(Follow(l, d, m), EndsInDigit(b, lead), e)
      BY <2>1, SubThree
    <3>2. EndsInDigit(b, lead) = FALSE
      BY <1>3
    <3> HIDE DEF l, m, d, e, text
    <3> QED BY <3>1, <3>2
  <2>3. d => l \in Within(3)
    BY <1>4
  <2> DEFINE two == Follow(l, d, m)
             three == Follow(two, FALSE, e)
  <2> HIDE DEF l, m, e, d, text
  <2>4. /\ 3 \in Nat /\ 5 \in Nat /\ 10 \in Nat /\ 3 + 7 = 10 /\ 5 <= 10 /\ 7 <= 10 /\ 10 + 0 = 10
        /\ 10 + 2 + 0 <= MaxWords
    BY DEF MaxWords
  <2>5. two \in Within(10)
    <3>1. CASE d
      BY <1>1, <2>1, <2>3, <2>4, <3>1, WithinFollow
    <3>2. CASE ~d
      BY <1>1, <2>1, <2>4, <3>2, WithinFollow
    <3> QED BY <3>1, <3>2
  <2> HIDE DEF two
  <2>6. three \in Within(10 + 0)
    BY <1>1, <2>1, <2>4, <2>5, WithinFollow
  <2> HIDE DEF three
  <2>7. Fits(three, 2, 0)
    BY <1>1, <2>4, <2>6, WithinFits
  <2> QED BY <2>2, <2>7 DEF two, three
<1>6. Named(text) \subseteq LeadNames
  <2>1. /\ a \in Unspoken /\ b \in Unspoken /\ End \in Unspoken
        /\ \A j \in 1..Len(a.slots) : a.slots[j].variable \in LeadNames
        /\ \A j \in 1..Len(b.slots) : b.slots[j].variable \in LeadNames
        /\ \A j \in 1..Len(End.slots) : End.slots[j].variable \in LeadNames
    BY <1>2 DEF AtMost
  <2>2. /\ text \in Seq(Unspoken) /\ DOMAIN text = 1..3
        /\ text[1] = a /\ text[2] = b /\ text[3] = End
    BY <2>1
  <2>3. \A i \in 1..3 : i = 1 \/ i = 2 \/ i = 3
    OBVIOUS
  <2> HIDE DEF text
  <2>4. \A i \in DOMAIN text : text[i] = a \/ text[i] = b \/ text[i] = End
    BY <2>2, <2>3
  <2>5. \A i \in DOMAIN text : \A j \in 1..Len(text[i].slots) : text[i].slots[j].variable \in LeadNames
    BY <2>1, <2>4
  <2> QED BY <2>2, <2>5, NamesOfLeads
<1>7. Suitable(text, 2, 0)
  <2> HIDE DEF text
  <2> QED BY <1>5, <1>6, SomeLead DEF Suitable
<1> QED BY <1>7 DEF text, a, b

\* Steps and objections of which the texts are suitable.
SuitableSteps ==
    {s \in [step : Nat, text : Text, wait_for_ack : BOOLEAN] :
        Suitable(s.text, 2, IF s.wait_for_ack THEN 3 ELSE 0)}

SuitableObjections ==
    {o \in [trigger : Text, response : Text] :
        \E p \in 1..8 : o.trigger = Phrase(p) /\ Suitable(o.response, p + 4, 0)}

\* A step of a suitable text.
LEMMA StepSuits ==
    ASSUME NEW n \in Nat, NEW text, NEW wait \in BOOLEAN, Suitable(text, 2, IF wait THEN 3 ELSE 0)
    PROVE  Step(n, text, wait) \in SuitableSteps
BY DEF Step, SuitableSteps, Suitable

\* A trigger of p words, and what is said after it.
LEMMA ObjectionSuits ==
    ASSUME NEW p \in 1..8, NEW w \in Nat, NEW u \in Nat, w + (p + 4) <= MaxWords, u <= MaxWords
    PROVE  Objection(Phrase(p), Plain2(w, u)) \in SuitableObjections
<1>1. p + 4 \in Nat /\ p \in Nat /\ p + 0 + 0 <= MaxWords
  BY DEF MaxWords
<1>2. Suitable(Plain2(w, u), p + 4, 0)
  <2>1. 0 \in 0..5
    OBVIOUS
  <2> QED BY <1>1, <2>1, PlainSuits
<1>3. Suitable(Phrase(p), 0, 0)
  BY <1>1, PhraseSuits
<1> QED BY <1>2, <1>3 DEF Objection, SuitableObjections, Suitable

\* The sentence of a phrase.
LEMMA PhraseLine ==
    ASSUME NEW p \in Nat
    PROVE  LET line == <<Spoken(p)>>
           IN  /\ \A lead : Sub(Phrase(p), lead) = line
               /\ Literal(Phrase(p)) = line /\ LiteralDigit(Phrase(p)) = FALSE
               /\ Len(line) = 1 /\ Last(line).words = p
               /\ \A before \in Nat : p + before <= MaxWords => Fits(line, before, 0)
<1> DEFINE z == Sentence(<<>>, p)
           line == <<Spoken(p)>>
<1>1. Phrase(p) = <<z>> /\ Last(Phrase(p)) = z
  BY DEF Phrase, Last
<1>2. \A lead : Sub(Phrase(p), lead) = line /\ EndsInDigit(z, lead) = FALSE
  <2> SUFFICES ASSUME NEW lead PROVE Sub(Phrase(p), lead) = line /\ EndsInDigit(z, lead) = FALSE
    OBVIOUS
  <2>1. OfLead(z, lead) /\ Said(z, lead) = line /\ EndsInDigit(z, lead) = FALSE
    BY PlainSaid DEF OfLead
  <2> QED BY <1>1, <2>1, SubOne
<1>3. Len(line) = 1 /\ Last(line).words = p
  BY DEF Last, Spoken
<1>4. line \in Within(p)
  BY WithinSpoken
<1> HIDE DEF z, line
<1>5. ASSUME NEW before \in Nat, p + before <= MaxWords PROVE Fits(line, before, 0)
  <2>1. p + before + 0 <= MaxWords
    BY <1>5 DEF MaxWords
  <2> QED BY <1>4, <2>1, WithinFits
<1>6. Literal(Phrase(p)) = line /\ LiteralDigit(Phrase(p)) = FALSE
  BY <1>1, <1>2 DEF Literal, LiteralDigit
<1> QED BY <1>2, <1>3, <1>5, <1>6 DEF line

\* A template of suitable texts is accepted for every lead.
LEMMA TemplateSuits ==
    ASSUME NEW objective, Suitable(objective, 1, 0), NEW flow \in Seq(SuitableSteps),
           NEW objections \in Seq(SuitableObjections)
    PROVE  LET t == Template(objective, flow, objections)
           IN  /\ t \in PromptTemplate /\ Used(t) \subseteq LeadNames
               /\ \A lead \in LeadVars : FitTexts(t, lead)
<1> DEFINE t == Template(objective, flow, objections)
           name == <<Sentence(<<After(0, "agent_name")>>, 0)>>
           escape == Plain2(2, 9)
           S == [step : Nat, text : Text, wait_for_ack : BOOLEAN]
           O == [trigger : Text, response : Text]
<1>1. /\ t.persona = [name |-> name, tone |-> Phrase(3), pace |-> Phrase(1)]
      /\ t.objective = objective /\ t.flow = flow /\ t.objections = objections /\ t.escape = escape
      /\ t = [persona |-> [name |-> name, tone |-> Phrase(3), pace |-> Phrase(1)], objective |-> objective,
              flow |-> flow, objections |-> objections, escape |-> escape]
  BY DEF Template
<1>2. Suitable(name, 2, 5)
  <2>1. "agent_name" \in LeadNames /\ Most("agent_name") = 3
    BY DEF LeadNames, Most
  <2>2. AtMost(Sentence(<<After(0, "agent_name")>>, 0), 0 + Most("agent_name") + 0)
    BY <2>1, SentenceAtMost
  <2>3. AtMost(Sentence(<<After(0, "agent_name")>>, 0), 3)
    <3>1. 0 + Most("agent_name") + 0 = 3
      BY <2>1
    <3> QED BY <2>2, <3>1
  <2>4. 3 + 2 + 5 <= MaxWords
    BY DEF MaxWords
  <2> QED BY <2>3, <2>4, SuitsOne
<1>3. Suitable(escape, 6, 0) /\ Suitable(Phrase(3), 1, 0) /\ Suitable(Phrase(1), 1, 0)
  <2>1. 2 + 6 <= MaxWords /\ 9 <= MaxWords /\ 3 + 1 + 0 <= MaxWords /\ 1 + 1 + 0 <= MaxWords
    BY DEF MaxWords
  <2>2. 0 \in 0..5
    OBVIOUS
  <2> QED BY <2>1, <2>2, PlainSuits, PhraseSuits
<1>4. ASSUME NEW i \in DOMAIN flow
      PROVE  flow[i] \in S /\ Suitable(flow[i].text, 2, IF flow[i].wait_for_ack THEN 3 ELSE 0)
  <2>1. flow[i] \in SuitableSteps
    OBVIOUS
  <2> QED BY <2>1 DEF SuitableSteps
<1>5. ASSUME NEW i \in DOMAIN objections
      PROVE  /\ objections[i] \in O
             /\ \E p \in 1..8 : objections[i].trigger = Phrase(p) /\ Suitable(objections[i].response, p + 4, 0)
  <2>1. objections[i] \in SuitableObjections
    OBVIOUS
  <2> QED BY <2>1 DEF SuitableObjections
<1> HIDE DEF name, escape, t
<1>6. t \in PromptTemplate
  <2>1. flow \in Seq(S) /\ objections \in Seq(O)
    <3>1. SuitableSteps \subseteq S /\ SuitableObjections \subseteq O
      BY DEF SuitableSteps, SuitableObjections
    <3> HIDE DEF S, O
    <3> QED BY <3>1
  <2>2. name \in Text /\ escape \in Text /\ objective \in Text /\ Phrase(3) \in Text /\ Phrase(1) \in Text
    BY <1>2, <1>3 DEF Suitable
  <2> QED BY <1>1, <2>1, <2>2 DEF PromptTemplate
<1>7. Used(t) \subseteq LeadNames
  <2>1. \A text \in TextsOf(t) : Named(text) \subseteq LeadNames
    <3> SUFFICES ASSUME NEW text \in TextsOf(t) PROVE Named(text) \subseteq LeadNames
      OBVIOUS
    <3>1. CASE text \in {name, objective, escape}
      BY <1>2, <1>3, <3>1 DEF Suitable
    <3>2. CASE \E i \in DOMAIN flow : text = flow[i].text
      BY <1>4, <3>2 DEF Suitable
    <3>3. CASE \E i \in DOMAIN objections : text \in {objections[i].trigger, objections[i].response}
      <4>1. PICK i \in DOMAIN objections : text = objections[i].trigger \/ text = objections[i].response
        BY <3>3
      <4>2. PICK p \in 1..8 : objections[i].trigger = Phrase(p) /\ Suitable(objections[i].response, p + 4, 0)
        BY <1>5
      <4>3. Suitable(Phrase(p), 0, 0)
        <5>1. p \in Nat /\ p + 0 + 0 <= MaxWords
          BY DEF MaxWords
        <5> QED BY <5>1, PhraseSuits
      <4> QED BY <4>1, <4>2, <4>3 DEF Suitable
    <3> QED BY <1>1, <3>1, <3>2, <3>3 DEF TextsOf
  <2> QED BY <2>1 DEF Used, TextsOf
<1>8. ASSUME NEW lead \in LeadVars PROVE FitTexts(t, lead)
  <2>1. /\ Fits(Sub(name, lead), 2, 5) /\ Fits(Sub(objective, lead), 1, 0) /\ Fits(Sub(escape, lead), 6, 0)
    BY <1>2, <1>3 DEF Suitable
  <2>2. ToneFits(Literal(Phrase(3)), Literal(Phrase(1)), LiteralDigit(Phrase(3)))
    <3>1. 3 + 1 <= MaxWords /\ 1 + 1 <= MaxWords
      BY DEF MaxWords
    <3>2. /\ Fits(Literal(Phrase(3)), 1, 0) /\ Fits(Literal(Phrase(1)), 1, 0)
          /\ LiteralDigit(Phrase(3)) = FALSE
      BY <3>1, PhraseLine
    <3>3. 1 + 0 = 1
      OBVIOUS
    <3> QED BY <3>2, <3>3 DEF ToneFits
  <2>3. \A i \in DOMAIN flow : Fits(Sub(flow[i].text, lead), 2, IF flow[i].wait_for_ack THEN 3 ELSE 0)
    BY <1>4 DEF Suitable
  <2>4. ASSUME NEW i \in DOMAIN objections
        PROVE  ObjectionFits(Sub(objections[i].trigger, lead), Sub(objections[i].response, lead))
    <3>1. PICK p \in 1..8 : objections[i].trigger = Phrase(p) /\ Suitable(objections[i].response, p + 4, 0)
      BY <1>5
    <3> DEFINE line == <<Spoken(p)>>
               response == Sub(objections[i].response, lead)
    <3>2. Sub(objections[i].trigger, lead) = line /\ Fits(line, 4, 0)
      <4>1. p \in Nat /\ p + 4 <= MaxWords
        BY DEF MaxWords
      <4> QED BY <3>1, <4>1, PhraseLine
    <3>3. Fits(response, p + 4, 0)
      BY <3>1 DEF Suitable
    <3>4. Len(line) = 1 /\ Last(line).words = p /\ p # 0
      BY DEF Last, Spoken
    <3> HIDE DEF line, response
    <3>5. ObjectionFits(line, response)
      BY <3>2, <3>3, <3>4 DEF ObjectionFits
    <3> QED BY <3>2, <3>5 DEF response
  <2> QED BY <1>1, <2>1, <2>2, <2>3, <2>4 DEF FitTexts
<1> QED BY <1>6, <1>7, <1>8 DEF t

\* The steps of the templates: ten words are left of a sentence.
LEMMA StepForms ==
    ASSUME NEW n \in Nat
    PROVE  /\ \A wait \in BOOLEAN, w \in 0..10, u \in 0..10 :
                 /\ Step(n, Plain(w), wait) \in SuitableSteps
                 /\ Step(n, Plain2(w, u), wait) \in SuitableSteps
           /\ \A u \in 0..5 : Step(n, Using(<<After(u, "first_name")>>, 0), TRUE) \in SuitableSteps
           /\ Step(n, Using(<<After(2, "agent_name"), After(2, "product_name")>>, 0), FALSE)
                  \in SuitableSteps
           /\ Step(n, <<Sentence(<<After(2, "agent_name")>>, 0), Sentence(<<>>, 7), End>>, FALSE)
                  \in SuitableSteps
           /\ \A w \in 0..10, u \in 0..10 :
                 /\ Step(n, Plain2Using(w, u, <<After(2, "first_name")>>, 0), FALSE) \in SuitableSteps
                 /\ Step(n, Plain2Using(w, u, <<>>, 2), FALSE) \in SuitableSteps
<1>1. /\ Most("first_name") = 2 /\ Most("agent_name") = 3 /\ Most("product_name") = 3
      /\ "first_name" \in LeadNames /\ "agent_name" \in LeadNames /\ "product_name" \in LeadNames
  BY DEF Most, LeadNames
<1>2. /\ \A text : Suitable(text, 2, 3) => Step(n, text, TRUE) \in SuitableSteps
      /\ \A text : Suitable(text, 2, 0) => Step(n, text, FALSE) \in SuitableSteps
  BY StepSuits
<1>3. ASSUME NEW wait \in BOOLEAN, NEW w \in 0..10, NEW u \in 0..10
      PROVE  Step(n, Plain(w), wait) \in SuitableSteps /\ Step(n, Plain2(w, u), wait) \in SuitableSteps
  <2>1. w \in Nat /\ u \in Nat /\ w + 2 <= MaxWords /\ u <= MaxWords /\ 3 \in 0..5 /\ 0 \in 0..5 /\ 2 \in Nat
    BY DEF MaxWords
  <2>2. \A after \in 0..5 : Suitable(Plain(w), 2, after) /\ Suitable(Plain2(w, u), 2, after)
    BY <2>1, PlainSuits
  <2> QED BY <1>2, <2>1, <2>2
<1>4. ASSUME NEW u \in 0..5 PROVE Step(n, Using(<<After(u, "first_name")>>, 0), TRUE) \in SuitableSteps
  <2>1. AtMost(Sentence(<<After(u, "first_name")>>, 0), u + Most("first_name") + 0)
    BY <1>1, SentenceAtMost
  <2>2. (u + Most("first_name") + 0) + 2 + 3 <= MaxWords
    BY <1>1 DEF MaxWords
  <2>3. Suitable(Using(<<After(u, "first_name")>>, 0), 2, 3)
    BY <2>1, <2>2, SuitsOne DEF Using
  <2> QED BY <1>2, <2>3
<1>5. Step(n, Using(<<After(2, "agent_name"), After(2, "product_name")>>, 0), FALSE) \in SuitableSteps
  <2>1. AtMost(Sentence(<<After(2, "agent_name"), After(2, "product_name")>>, 0),
               2 + Most("agent_name") + 2 + Most("product_name") + 0)
    BY <1>1, SentenceAtMost
  <2>2. (2 + Most("agent_name") + 2 + Most("product_name") + 0) + 2 + 0 <= MaxWords
    BY <1>1 DEF MaxWords
  <2>3. Suitable(Using(<<After(2, "agent_name"), After(2, "product_name")>>, 0), 2, 0)
    BY <2>1, <2>2, SuitsOne DEF Using
  <2> QED BY <1>2, <2>3
<1>6. Step(n, <<Sentence(<<After(2, "agent_name")>>, 0), Sentence(<<>>, 7), End>>, FALSE) \in SuitableSteps
  BY <1>2, AgentSuits
<1>7. ASSUME NEW w \in 0..10, NEW u \in 0..10
      PROVE  /\ Step(n, Plain2Using(w, u, <<After(2, "first_name")>>, 0), FALSE) \in SuitableSteps
             /\ Step(n, Plain2Using(w, u, <<>>, 2), FALSE) \in SuitableSteps
  <2>1. AtMost(Sentence(<<After(2, "first_name")>>, 0), 2 + Most("first_name") + 0) /\ AtMost(Sentence(<<>>, 2), 2)
    BY <1>1, SentenceAtMost
  <2>2. 2 + Most("first_name") + 0 \in 0..10 /\ 2 \in 0..10
    BY <1>1
  <2>3. /\ Suitable(Plain2Using(w, u, <<After(2, "first_name")>>, 0), 2, 0)
        /\ Suitable(Plain2Using(w, u, <<>>, 2), 2, 0)
    BY <2>1, <2>2, Plain2UsingSuits DEF Plain2Using
  <2> QED BY <1>2, <2>3
<1> QED BY <1>3, <1>4, <1>5, <1>6, <1>7

\* The objectives of the templates.
LEMMA ObjectivesSuit ==
    /\ Suitable(Using(<<After(3, "product_name")>>, 5), 1, 0)
    /\ Suitable(Using(<<After(1, "first_name"), After(1, "product_name")>>, 4), 1, 0)
<1>1. /\ "first_name" \in LeadNames /\ "product_name" \in LeadNames
      /\ Most("first_name") = 2 /\ Most("product_name") = 3
  BY DEF Most, LeadNames
<1>2. /\ AtMost(Sentence(<<After(3, "product_name")>>, 5), 3 + Most("product_name") + 5)
      /\ AtMost(Sentence(<<After(1, "first_name"), After(1, "product_name")>>, 4),
                1 + Most("first_name") + 1 + Most("product_name") + 4)
  BY <1>1, SentenceAtMost
<1>3. /\ (3 + Most("product_name") + 5) + 1 + 0 <= MaxWords
      /\ (1 + Most("first_name") + 1 + Most("product_name") + 4) + 1 + 0 <= MaxWords
  BY <1>1 DEF MaxWords
<1> QED BY <1>2, <1>3, SuitsOne DEF Using

\* The templates of the repository can be stored, and their texts fit.
LEMMA TemplatesSuit ==
    ASSUME NEW t \in Templates
    PROVE  /\ t \in PromptTemplate /\ Used(t) \subseteq LeadNames
           /\ \A lead \in LeadVars : FitTexts(t, lead)
<1>1. ASSUME NEW p \in 1..3, NEW w \in 2..5, NEW u \in 0..9
      PROVE  Objection(Phrase(p), Plain2(w, u)) \in SuitableObjections
  <2>1. p \in 1..8 /\ w \in Nat /\ u \in Nat /\ w + (p + 4) <= MaxWords /\ u <= MaxWords
    BY DEF MaxWords
  <2> QED BY <2>1, ObjectionSuits
<1>5. /\ 1 \in Nat /\ 2 \in Nat /\ 3 \in Nat /\ 4 \in Nat /\ 5 \in Nat /\ 6 \in Nat
      /\ TRUE \in BOOLEAN /\ FALSE \in BOOLEAN
      /\ 5 \in 0..5 /\ 3 \in 0..5
      /\ 1 \in 0..10 /\ 2 \in 0..10 /\ 5 \in 0..10 /\ 6 \in 0..10 /\ 7 \in 0..10
      /\ 8 \in 0..10 /\ 9 \in 0..10 /\ 10 \in 0..10
  OBVIOUS
<1>2. CASE t = RealEstate
  <2> DEFINE s1 == Step(1, Using(<<After(5, "first_name")>>, 0), TRUE)
             s2 == Step(2, Using(<<After(2, "agent_name"), After(2, "product_name")>>, 0), FALSE)
             s3 == Step(3, Plain(10), TRUE)
             s4 == Step(4, Plain(10), TRUE)
             s5 == Step(5, Plain(9), TRUE)
             s6 == Step(6, Plain2Using(2, 5, <<After(2, "first_name")>>, 0), FALSE)
             flow == <<s1, s2, s3, s4, s5, s6>>
             o1 == Objection(Phrase(1), Plain2(2, 9))
             o2 == Objection(Phrase(2), Plain2(3, 4))
             o3 == Objection(Phrase(3), Plain2(2, 7))
             objections == <<o1, o2, o3>>
  <2>1. {s1, s2, s3, s4, s5, s6} \subseteq SuitableSteps
    <3>1. s1 \in SuitableSteps
      BY <1>5, StepForms, Zenon
    <3>2. s2 \in SuitableSteps
      BY <1>5, StepForms, Zenon
    <3>3. s3 \in SuitableSteps
      BY <1>5, StepForms, Zenon
    <3>4. s4 \in SuitableSteps
      BY <1>5, StepForms, Zenon
    <3>5. s5 \in SuitableSteps
      BY <1>5, StepForms, Zenon
    <3>6. s6 \in SuitableSteps
      BY <1>5, StepForms, Zenon
    <3> HIDE DEF s1, s2, s3, s4, s5, s6
    <3> QED BY <3>1, <3>2, <3>3, <3>4, <3>5, <3>6
  <2>2. {o1, o2, o3} \subseteq SuitableObjections
    BY <1>1
  <2>3. t = Template(Using(<<After(3, "product_name")>>, 5), flow, objections)
    BY <1>2 DEF RealEstate
  <2> HIDE DEF s1, s2, s3, s4, s5, s6, o1, o2, o3
  <2>4. flow \in Seq(SuitableSteps) /\ objections \in Seq(SuitableObjections)
    BY <2>1, <2>2
  <2> HIDE DEF flow, objections
  <2> QED BY <2>3, <2>4, ObjectivesSuit, TemplateSuits
<1>3. CASE t = Recruitment
  <2> DEFINE s1 == Step(1, Using(<<After(3, "first_name")>>, 0), TRUE)
             s2 == Step(2, <<Sentence(<<After(2, "agent_name")>>, 0), Sentence(<<>>, 7), End>>, FALSE)
             s3 == Step(3, Plain(8), TRUE)
             s4 == Step(4, Plain2(1, 8), TRUE)
             s5 == Step(5, Plain(9), TRUE)
             s6 == Step(6, Plain2Using(1, 6, <<After(2, "first_name")>>, 0), FALSE)
             flow == <<s1, s2, s3, s4, s5, s6>>
             o1 == Objection(Phrase(1), Plain2(4, 5))
             o2 == Objection(Phrase(2), Plain2(3, 5))
             o3 == Objection(Phrase(1), Plain2(5, 5))
             objections == <<o1, o2, o3>>
  <2>1. {s1, s2, s3, s4, s5, s6} \subseteq SuitableSteps
    <3>1. s1 \in SuitableSteps
      BY <1>5, StepForms, Zenon
    <3>2. s2 \in SuitableSteps
      BY <1>5, StepForms, Zenon
    <3>3. s3 \in SuitableSteps
      BY <1>5, StepForms, Zenon
    <3>4. s4 \in SuitableSteps
      BY <1>5, StepForms, Zenon
    <3>5. s5 \in SuitableSteps
      BY <1>5, StepForms, Zenon
    <3>6. s6 \in SuitableSteps
      BY <1>5, StepForms, Zenon
    <3> HIDE DEF s1, s2, s3, s4, s5, s6
    <3> QED BY <3>1, <3>2, <3>3, <3>4, <3>5, <3>6
  <2>2. {o1, o2, o3} \subseteq SuitableObjections
    BY <1>1
  <2>3. t = Template(Using(<<After(1, "first_name"), After(1, "product_name")>>, 4), flow, objections)
    BY <1>3 DEF Recruitment
  <2> HIDE DEF s1, s2, s3, s4, s5, s6, o1, o2, o3
  <2>4. flow \in Seq(SuitableSteps) /\ objections \in Seq(SuitableObjections)
    BY <2>1, <2>2
  <2> HIDE DEF flow, objections
  <2> QED BY <2>3, <2>4, ObjectivesSuit, TemplateSuits
<1>4. CASE t = FinancialServices
  <2> DEFINE s1 == Step(1, Using(<<After(5, "first_name")>>, 0), TRUE)
             s2 == Step(2, Using(<<After(2, "agent_name"), After(2, "product_name")>>, 0), FALSE)
             s3 == Step(3, Plain(9), TRUE)
             s4 == Step(4, Plain(9), FALSE)
             s5 == Step(5, Plain(9), TRUE)
             s6 == Step(6, Plain2Using(2, 7, <<>>, 2), FALSE)
             flow == <<s1, s2, s3, s4, s5, s6>>
             o1 == Objection(Phrase(1), Plain2(2, 8))
             o2 == Objection(Phrase(2), Plain2(2, 5))
             o3 == Objection(Phrase(3), Plain2(2, 8))
             objections == <<o1, o2, o3>>
  <2>1. {s1, s2, s3, s4, s5, s6} \subseteq SuitableSteps
    <3>1. s1 \in SuitableSteps
      BY <1>5, StepForms, Zenon
    <3>2. s2 \in SuitableSteps
      BY <1>5, StepForms, Zenon
    <3>3. s3 \in SuitableSteps
      BY <1>5, StepForms, Zenon
    <3>4. s4 \in SuitableSteps
      BY <1>5, StepForms, Zenon
    <3>5. s5 \in SuitableSteps
      BY <1>5, StepForms, Zenon
    <3>6. s6 \in SuitableSteps
      BY <1>5, StepForms, Zenon
    <3> HIDE DEF s1, s2, s3, s4, s5, s6
    <3> QED BY <3>1, <3>2, <3>3, <3>4, <3>5, <3>6
  <2>2. {o1, o2, o3} \subseteq SuitableObjections
    BY <1>1
  <2>3. t = Template(Using(<<After(1, "first_name"), After(1, "product_name")>>, 4), flow, objections)
    BY <1>4 DEF FinancialServices
  <2> HIDE DEF s1, s2, s3, s4, s5, s6, o1, o2, o3
  <2>4. flow \in Seq(SuitableSteps) /\ objections \in Seq(SuitableObjections)
    BY <2>1, <2>2
  <2> HIDE DEF flow, objections
  <2> QED BY <2>3, <2>4, ObjectivesSuit, TemplateSuits
<1> QED BY <1>2, <1>3, <1>4 DEF Templates

\* A query of a prompt has what RenderIs asks for.
LEMMA PromptQueryIs ==
    ASSUME NEW q \in PromptQueries
    PROVE  /\ HasFields(q.data) => ToJsonb(q.data) \in PromptTemplate
           /\ \A v \in DOMAIN q.vars : q.vars[v] \in Value
           /\ Strict(q) \in BOOLEAN
           /\ q.kind = "repository" =>
                 /\ HasFields(q.data) /\ Used(q.data) \subseteq DOMAIN q.vars
                 /\ FitTexts(q.data, q.vars)
<1>1. CASE q \in TemplateQueries
  <2>1. q.kind = "template" /\ q.strict \in BOOLEAN
    BY <1>1, TextsAssumption
  <2> QED BY <1>1, <2>1, TextsAssumption DEF Strict
<1>2. CASE q \in RepositoryQueries
  <2>1. q.kind = "repository" /\ q.vars \in LeadVars /\ \E t \in Templates : q.data = ToJsonb(t)
    BY <1>2 DEF RepositoryQueries
  <2>2. PICK t \in Templates : q.data = ToJsonb(t)
    BY <2>1
  <2>3. /\ t \in PromptTemplate /\ Used(t) \subseteq LeadNames
        /\ \A lead \in LeadVars : FitTexts(t, lead)
    BY TemplatesSuit
  <2>4. HasFields(q.data) /\ q.data \in PromptTemplate
    BY <2>2, <2>3, StoredIsTemplate
  <2>5. Used(q.data) = Used(t) /\ FitTexts(q.data, q.vars)
    BY <2>1, <2>2, <2>3, StoredIsTheSame
  <2>6. DOMAIN q.vars = LeadNames /\ \A v \in LeadNames : q.vars[v] \in Value
    BY <2>1, LeadValues
  <2>7. ToJsonb(q.data) \in PromptTemplate
    BY <2>4, StoredIsTemplate
  <2>8. Strict(q) \in BOOLEAN
    BY <2>1 DEF Strict
  <2> QED BY <2>1, <2>3, <2>4, <2>5, <2>6, <2>7, <2>8
<1> QED BY <1>1, <1>2 DEF PromptQueries

\* A prompt with a field or a variable missing is a KeyError, and one that is
\* strict is refused exactly when a text of it is too long for its place or
\* has a special character, whatever the template and the lead, for the texts
\* and values ConversationPrompts covers.
THEOREM StrictRendersExactly == Spec => []StrictRenderExactly
<1>1. TextInv => StrictRenderExactly
  <2> SUFFICES ASSUME TextInv, query \in PromptQueries, answer # NoAnswer PROVE StrictRenderExactly
    BY DEF StrictRenderExactly
  <2>1. answer = Render(query.data, query.vars, Strict(query))
    BY QueryKinds DEF TextInv, PromptQueries
  <2>2. answer.kind =
           IF ~(HasFields(query.data) /\ Used(query.data) \subseteq DOMAIN query.vars) THEN "KeyError"
           ELSE IF Strict(query) => FitTexts(query.data, query.vars) THEN "text" ELSE "ValueError"
    BY <2>1, PromptQueryIs, RenderIs
  <2> QED BY <2>2 DEF StrictRenderExactly, FitTexts
<1> QED BY <1>1, TextInvHolds, PTL

\* The templates of the repository are rendered, and pass the check, for every
\* agent and product of up to three words and first name of up to two, with
\* terminators anywhere and a digit at the end or not; but an agent of several
\* words that ends in a digit makes a sentence of the recruiter's too long.
THEOREM RepositoryTemplatesAreValid == Spec => []RepositoryTemplatesValid
<1>1. TextInv => RepositoryTemplatesValid
  <2> SUFFICES ASSUME TextInv, query.kind = "repository", answer # NoAnswer PROVE answer.kind = "text"
    BY DEF RepositoryTemplatesValid
  <2>1. query \in PromptQueries /\ answer = Render(query.data, query.vars, Strict(query))
    BY QueryKinds DEF TextInv, PromptQueries
  <2>2. HasFields(query.data) /\ Used(query.data) \subseteq DOMAIN query.vars /\ FitTexts(query.data, query.vars)
    BY <2>1, PromptQueryIs
  <2>3. answer.kind =
           IF ~(HasFields(query.data) /\ Used(query.data) \subseteq DOMAIN query.vars) THEN "KeyError"
           ELSE IF Strict(query) => FitTexts(query.data, query.vars) THEN "text" ELSE "ValueError"
    BY <2>1, PromptQueryIs, RenderIs
  <2> QED BY <2>2, <2>3
<1> QED BY <1>1, TextInvHolds, PTL
=============================================================================
