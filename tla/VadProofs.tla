----------------------------- MODULE VadProofs -----------------------------
(***************************************************************************)
(* Theorems about VadPipeline, for all durations, sizes and bounds.         *)
(***************************************************************************)
EXTENDS VadPipeline, TLAPS

(***************************************************************************)
(* Sessions that grow by a frame.                                           *)
(***************************************************************************)
Ordered(h) == \A i, j \in 1..Len(h) : i <= j => h[i].at <= h[j].at

LEMMA AppendedFrames ==
    ASSUME NEW h \in Seq(HeardFrame), NEW f \in HeardFrame
    PROVE  /\ Append(h, f) \in Seq(HeardFrame)
           /\ Len(h) \in Nat
           /\ Len(Append(h, f)) = Len(h) + 1
           /\ Append(h, f)[Len(h) + 1] = f
           /\ \A x \in 1..Len(h) : Append(h, f)[x] = h[x] /\ h[x] \in HeardFrame
OBVIOUS

LEMMA OldSpeechLasts ==
    ASSUME NEW h \in Seq(HeardFrame), NEW f \in HeardFrame, NEW j \in 1..Len(h)
    PROVE  SpeechLasts(Append(h, f), j) <=> SpeechLasts(h, j)
<1>1. \A x \in 1..j : Append(h, f)[x] = h[x]
  BY AppendedFrames
<1> QED
  BY <1>1, AppendedFrames DEF SpeechLasts

\* A frame can only end speech by closing a silence.
LEMMA OldEndedAfter ==
    ASSUME NEW h \in Seq(HeardFrame), NEW f \in HeardFrame, NEW j \in 1..Len(h)
    PROVE  EndedAfter(Append(h, f), j) <=>
              \/ EndedAfter(h, j)
              \/ \E k \in (j + 1)..Len(h) : SilenceLasts(Append(h, f), k, Len(h) + 1)
<1> DEFINE g == Append(h, f)
<1>1. \A x \in 1..Len(h) : g[x] = h[x]
  BY AppendedFrames
<1>2. \A m \in 1..Len(h) : \A k \in (j + 1)..m : SilenceLasts(g, k, m) <=> SilenceLasts(h, k, m)
  <2> TAKE m \in 1..Len(h)
  <2> TAKE k \in (j + 1)..m
  <2>1. \A x \in k..m : g[x] = h[x]
    BY <1>1, AppendedFrames
  <2> QED
    BY <2>1, AppendedFrames DEF SilenceLasts
<1>3. \A k \in (j + 1)..(Len(h) + 1) : SilenceLasts(g, k, Len(h) + 1) => k \in (j + 1)..Len(h)
  BY AppendedFrames DEF SilenceLasts
<1>4. 1..Len(g) = 1..Len(h) \cup {Len(h) + 1}
  BY AppendedFrames
<1>5. \A k \in (j + 1)..Len(h) : k \in (j + 1)..(Len(h) + 1)
  BY AppendedFrames
<1> HIDE DEF g
<1> QED
  BY <1>2, <1>3, <1>4, <1>5 DEF EndedAfter, g

LEMMA NothingAfterLast ==
    ASSUME NEW h \in Seq(HeardFrame), NEW f \in HeardFrame
    PROVE  ~ EndedAfter(Append(h, f), Len(h) + 1)
<1>1. Len(h) \in Nat /\ Len(Append(h, f)) = Len(h) + 1
  BY AppendedFrames
<1> QED
  BY <1>1 DEF EndedAfter

\* What a new frame does to Talking: it may confirm speech or close a silence.
LEMMA TalkingStep ==
    ASSUME NEW h \in Seq(HeardFrame), NEW f \in HeardFrame
    PROVE  Talking(Append(h, f)) <=>
              \/ SpeechLasts(Append(h, f), Len(h) + 1)
              \/ \E j \in 1..Len(h) :
                    /\ SpeechLasts(h, j) /\ ~ EndedAfter(h, j)
                    /\ \A k \in (j + 1)..Len(h) : ~ SilenceLasts(Append(h, f), k, Len(h) + 1)
<1>1. 1..Len(Append(h, f)) = 1..Len(h) \cup {Len(h) + 1}
  BY AppendedFrames
<1> QED
  BY <1>1, OldSpeechLasts, OldEndedAfter, NothingAfterLast DEF Talking

(***************************************************************************)
(* What the state says of the frames heard.                                 *)
(***************************************************************************)
IsSpeech(h, x) == h[x].level = "speech"

\* A quiet machine heard no speech last.
QuietSince(h) == Len(h) = 0 \/ ~ IsSpeech(h, Len(h))

\* Speech goes on since frame i, before which there was none, at time start.
OnsetAt(h, i, start) ==
    /\ h[i].at = start
    /\ \A x \in i..Len(h) : IsSpeech(h, x)
    /\ i = 1 \/ ~ IsSpeech(h, i - 1)

\* Frame s is the last speech, and no silence followed up to frame n.
SpeechAt(h, s, n) ==
    /\ IsSpeech(h, s)
    /\ \A x \in (s + 1)..n : h[x].level = "between"

\* Frame k is the first silence after the last speech, at time start.
SilenceAt(h, k, start) ==
    /\ h[k].at = start
    /\ h[k].level = "silence"
    /\ \A x \in k..Len(h) : ~ IsSpeech(h, x)
    /\ \E s \in 1..(k - 1) : SpeechAt(h, s, k - 1)

HeardOK ==
    /\ heard \in Seq(HeardFrame)
    /\ clock \in Nat
    /\ Ordered(heard)
    /\ \A i \in 1..Len(heard) : heard[i].at <= clock

StateOK ==
    /\ vad = "quiet" => QuietSince(heard)
    /\ vad = "starting" => \E i \in 1..Len(heard) : OnsetAt(heard, i, onsetStart)
    /\ vad = "speaking" => \E s \in 1..Len(heard) : SpeechAt(heard, s, Len(heard))
    /\ vad = "stopping" => \E k \in 1..Len(heard) : SilenceAt(heard, k, offsetStart)

HeardInv == MachineTypeOK /\ HeardOK /\ StateOK /\ TurnsAsHeard

\* The machine hears a frame now.
Hears(level) == heard' = Append(heard, [level |-> level, at |-> clock])

LEMMA FrameHeard ==
    ASSUME HeardInv, NEW level \in Levels, Hears(level)
    PROVE  /\ heard' \in Seq(HeardFrame)
           /\ Len(heard) \in Nat
           /\ Len(heard') = Len(heard) + 1
           /\ heard'[Len(heard) + 1].level = level
           /\ heard'[Len(heard) + 1].at = clock
           /\ \A x \in 1..Len(heard) : /\ heard'[x] = heard[x]
                                       /\ heard[x] \in HeardFrame
                                       /\ heard[x].at <= clock
<1>1. [level |-> level, at |-> clock] \in HeardFrame
  BY DEF HeardInv, HeardOK, HeardFrame
<1> QED
  BY <1>1, AppendedFrames DEF HeardInv, HeardOK, Hears

LEMMA HearingIsOrdered ==
    ASSUME HeardInv, NEW level \in Levels, Hears(level), UNCHANGED clock
    PROVE  HeardOK'
<1>1. Ordered(heard')
  <2> SUFFICES ASSUME NEW i \in 1..Len(heard'), NEW j \in 1..Len(heard'), i <= j
               PROVE  heard'[i].at <= heard'[j].at
    BY DEF Ordered
  <2>1. CASE j \in 1..Len(heard)
    BY <2>1, FrameHeard DEF HeardInv, HeardOK, Ordered
  <2>2. CASE j = Len(heard) + 1 /\ i \in 1..Len(heard)
    BY <2>2, FrameHeard
  <2>3. CASE j = Len(heard) + 1 /\ i = j
    BY <2>3, FrameHeard DEF HeardInv, HeardOK
  <2> QED
    BY <2>1, <2>2, <2>3, FrameHeard
<1>2. \A i \in 1..Len(heard') : heard'[i].at <= clock
  BY FrameHeard DEF HeardInv, HeardOK
<1> QED
  BY <1>1, <1>2, FrameHeard DEF HeardInv, HeardOK

\* TalkingStep for the frame heard now.
LEMMA TalkingNow ==
    ASSUME HeardInv, NEW level \in Levels, Hears(level)
    PROVE  Talking(heard') <=>
              \/ SpeechLasts(heard', Len(heard) + 1)
              \/ \E j \in 1..Len(heard) :
                    /\ SpeechLasts(heard, j) /\ ~ EndedAfter(heard, j)
                    /\ \A k \in (j + 1)..Len(heard) : ~ SilenceLasts(heard', k, Len(heard) + 1)
<1>1. [level |-> level, at |-> clock] \in HeardFrame
  BY DEF HeardInv, HeardOK, HeardFrame
<1> QED
  BY <1>1, TalkingStep DEF HeardInv, HeardOK, Hears

\* A frame that neither confirms speech nor closes a silence leaves Talking as it is.
LEMMA TalkingStays ==
    ASSUME HeardInv, NEW level \in Levels, Hears(level),
           ~ SpeechLasts(heard', Len(heard) + 1) \/ Talking(heard),
           \A k \in 1..Len(heard) : ~ SilenceLasts(heard', k, Len(heard) + 1)
    PROVE  Talking(heard') <=> Talking(heard)
<1>1. Len(heard) \in Nat
  BY FrameHeard
<1>2. \A j \in 1..Len(heard) : \A k \in (j + 1)..Len(heard) : k \in 1..Len(heard)
  BY <1>1
<1> QED
  BY <1>2, TalkingNow DEF Talking

LEMMA SpeechClosesNothing ==
    ASSUME HeardInv, Hears("speech")
    PROVE  \A k \in 1..Len(heard) : ~ SilenceLasts(heard', k, Len(heard) + 1)
BY FrameHeard DEF SilenceLasts, Levels

LEMMA NoSpeechConfirmsNothing ==
    ASSUME HeardInv, NEW level \in Levels, level # "speech", Hears(level)
    PROVE  ~ SpeechLasts(heard', Len(heard) + 1)
BY FrameHeard DEF SpeechLasts

(***************************************************************************)
(* The branches of process.                                                 *)
(***************************************************************************)
LEMMA OnsetBeginsKeeps ==
    ASSUME HeardInv, NEW level \in Levels, NEW event, Hears(level),
           OnsetBegins(level, clock, event)
    PROVE  StateOK' /\ TurnsAsHeard'
<1> DEFINE n == Len(heard)
<1>1. vad = "quiet" /\ vad' = "starting" /\ level = "speech" /\ onsetStart' = clock
  BY DEF OnsetBegins, Moves
<1>2. n = 0 \/ ~ IsSpeech(heard, n)
  BY <1>1 DEF HeardInv, StateOK, QuietSince
<1>3. ~ SpeechLasts(heard', n + 1)
  BY <1>2, FrameHeard DEF SpeechLasts, IsSpeech
<1>4. Talking(heard') <=> Talking(heard)
  <2>1. Hears("speech")
    BY <1>1 DEF Hears
  <2> QED
    BY <1>3, <2>1, SpeechClosesNothing, TalkingStays
<1>5. TurnsAsHeard'
  BY <1>1, <1>4 DEF HeardInv, TurnsAsHeard
<1>6. OnsetAt(heard', n + 1, onsetStart') /\ n + 1 \in 1..Len(heard')
  BY <1>1, <1>2, FrameHeard DEF OnsetAt, IsSpeech
<1>7. StateOK'
  BY <1>1, <1>6 DEF StateOK
<1> QED
  BY <1>5, <1>7

LEMMA OnsetConfirmedKeeps ==
    ASSUME HeardInv, NEW level \in Levels, NEW event, Hears(level),
           OnsetConfirmed(level, clock, event)
    PROVE  StateOK' /\ TurnsAsHeard'
<1> DEFINE n == Len(heard)
<1>1. /\ vad = "starting" /\ vad' = "speaking" /\ level = "speech"
      /\ clock - onsetStart >= OnsetDuration
  BY DEF OnsetConfirmed, Moves
<1>2. PICK i \in 1..n : OnsetAt(heard, i, onsetStart)
  BY <1>1 DEF HeardInv, StateOK
<1>3. SpeechLasts(heard', n + 1)
  <2>1. \A x \in i..(n + 1) : heard'[x].level = "speech"
    BY <1>1, <1>2, FrameHeard DEF OnsetAt, IsSpeech
  <2>2. heard'[n + 1].at - heard'[i].at >= OnsetDuration
    BY <1>1, <1>2, FrameHeard DEF OnsetAt
  <2>3. i \in 1..((n + 1) - 1)
    BY FrameHeard
  <2> QED
    BY <2>1, <2>2, <2>3 DEF SpeechLasts
<1>4. TurnsAsHeard'
  BY <1>1, <1>3, TalkingNow DEF TurnsAsHeard
<1>5. SpeechAt(heard', n + 1, Len(heard')) /\ n + 1 \in 1..Len(heard')
  BY <1>1, FrameHeard DEF SpeechAt, IsSpeech
<1>6. StateOK'
  BY <1>1, <1>5 DEF StateOK
<1> QED
  BY <1>4, <1>6

LEMMA FalseStartKeeps ==
    ASSUME HeardInv, NEW level \in Levels, NEW event, Hears(level),
           FalseStart(level, event)
    PROVE  StateOK' /\ TurnsAsHeard'
<1> DEFINE n == Len(heard)
<1>1. vad = "starting" /\ vad' = "quiet" /\ level # "speech"
  BY DEF FalseStart, Moves
<1>2. ~ Talking(heard)
  BY <1>1 DEF HeardInv, TurnsAsHeard
<1>3. ~ Talking(heard')
  BY <1>1, <1>2, NoSpeechConfirmsNothing, TalkingNow DEF Talking
<1>4. StateOK'
  BY <1>1, FrameHeard DEF StateOK, QuietSince, IsSpeech
<1> QED
  BY <1>1, <1>3, <1>4 DEF TurnsAsHeard

\* While the machine is speaking, no silence has begun that a frame could close.
LEMMA SpeakingClosesNothing ==
    ASSUME HeardInv, vad = "speaking", NEW level \in Levels, Hears(level)
    PROVE  \A k \in 1..Len(heard) : ~ SilenceLasts(heard', k, Len(heard) + 1)
<1> DEFINE n == Len(heard)
<1>1. PICK s \in 1..n : SpeechAt(heard, s, n)
  BY DEF HeardInv, StateOK
<1> TAKE k \in 1..n
<1>2. CASE k <= s
  <2>1. s \in k..(n + 1) /\ heard'[s].level = "speech"
    BY <1>1, <1>2, FrameHeard DEF SpeechAt, IsSpeech
  <2> QED
    BY <2>1 DEF SilenceLasts
<1>3. CASE k > s
  <2>1. heard'[k].level = "between"
    BY <1>1, <1>3, FrameHeard DEF SpeechAt
  <2> QED
    BY <2>1 DEF SilenceLasts
<1> QED
  BY <1>2, <1>3, FrameHeard

LEMMA OffsetBeginsKeeps ==
    ASSUME HeardInv, NEW level \in Levels, NEW event, Hears(level),
           OffsetBegins(level, clock, event)
    PROVE  StateOK' /\ TurnsAsHeard'
<1> DEFINE n == Len(heard)
<1>1. vad = "speaking" /\ vad' = "stopping" /\ level = "silence" /\ offsetStart' = clock
  BY DEF OffsetBegins, Moves
<1>2. Talking(heard)
  BY <1>1 DEF HeardInv, TurnsAsHeard
<1>3. Talking(heard')
  BY <1>1, <1>2, SpeakingClosesNothing, TalkingStays
<1>4. PICK s \in 1..n : SpeechAt(heard, s, n)
  BY <1>1 DEF HeardInv, StateOK
<1>5. s \in 1..((n + 1) - 1) /\ SpeechAt(heard', s, (n + 1) - 1)
  BY <1>4, FrameHeard DEF SpeechAt, IsSpeech
<1>6. SilenceAt(heard', n + 1, offsetStart') /\ n + 1 \in 1..Len(heard')
  BY <1>1, <1>5, FrameHeard DEF SilenceAt, IsSpeech
<1>7. StateOK'
  BY <1>1, <1>6 DEF StateOK
<1> QED
  BY <1>1, <1>3, <1>7 DEF TurnsAsHeard

LEMMA SpeechResumesKeeps ==
    ASSUME HeardInv, NEW level \in Levels, NEW event, Hears(level),
           SpeechResumes(level, event)
    PROVE  StateOK' /\ TurnsAsHeard'
<1> DEFINE n == Len(heard)
<1>1. vad = "stopping" /\ vad' = "speaking" /\ level = "speech"
  BY DEF SpeechResumes, Moves
<1>2. Talking(heard)
  BY <1>1 DEF HeardInv, TurnsAsHeard
<1>3. Talking(heard')
  <2>1. Hears("speech")
    BY <1>1 DEF Hears
  <2> QED
    BY <1>2, <2>1, SpeechClosesNothing, TalkingStays
<1>4. SpeechAt(heard', n + 1, Len(heard')) /\ n + 1 \in 1..Len(heard')
  BY <1>1, FrameHeard DEF SpeechAt, IsSpeech
<1>5. StateOK'
  BY <1>1, <1>4 DEF StateOK
<1> QED
  BY <1>1, <1>3, <1>5 DEF TurnsAsHeard

LEMMA OffsetConfirmedKeeps ==
    ASSUME HeardInv, NEW level \in Levels, NEW event, Hears(level),
           OffsetConfirmed(level, clock, event)
    PROVE  StateOK' /\ TurnsAsHeard'
<1> DEFINE n == Len(heard)
<1>1. /\ vad = "stopping" /\ vad' = "quiet" /\ level # "speech"
      /\ clock - offsetStart >= OffsetDuration
  BY DEF OffsetConfirmed, Moves
<1>2. PICK k \in 1..n : SilenceAt(heard, k, offsetStart)
  BY <1>1 DEF HeardInv, StateOK
<1>3. SilenceLasts(heard', k, n + 1)
  <2>1. heard'[k].level = "silence" /\ heard'[k].at = offsetStart
    BY <1>2, FrameHeard DEF SilenceAt
  <2>2. \A x \in k..(n + 1) : heard'[x].level # "speech"
    BY <1>1, <1>2, FrameHeard DEF SilenceAt, IsSpeech
  <2>3. k < n + 1 /\ heard'[n + 1].at = clock
    BY FrameHeard
  <2> QED
    BY <1>1, <2>1, <2>2, <2>3 DEF SilenceLasts
<1>4. ASSUME NEW j \in 1..n, SpeechLasts(heard, j)
      PROVE  k \in (j + 1)..n
  <2>1. heard[j].level = "speech"
    BY <1>4, FrameHeard DEF SpeechLasts
  <2>2. ~ j \in k..n
    BY <1>2, <2>1 DEF SilenceAt, IsSpeech
  <2> QED
    BY <2>2, FrameHeard
<1>5. ~ Talking(heard')
  BY <1>1, <1>3, <1>4, NoSpeechConfirmsNothing, TalkingNow
<1>6. StateOK'
  BY <1>1, FrameHeard DEF StateOK, QuietSince, IsSpeech
<1> QED
  BY <1>1, <1>5, <1>6 DEF TurnsAsHeard

LEMMA RemainsQuiet ==
    ASSUME HeardInv, NEW level \in Levels, Hears(level),
           vad = "quiet", vad' = "quiet", level # "speech"
    PROVE  StateOK' /\ TurnsAsHeard'
<1>1. ~ Talking(heard')
  BY NoSpeechConfirmsNothing, TalkingNow DEF HeardInv, TurnsAsHeard, Talking
<1>2. StateOK'
  BY FrameHeard DEF StateOK, QuietSince, IsSpeech
<1> QED
  BY <1>1, <1>2 DEF TurnsAsHeard

LEMMA RemainsStarting ==
    ASSUME HeardInv, NEW level \in Levels, Hears(level),
           vad = "starting", vad' = "starting", level = "speech",
           clock - onsetStart < OnsetDuration, UNCHANGED onsetStart
    PROVE  StateOK' /\ TurnsAsHeard'
<1> DEFINE n == Len(heard)
<1>1. PICK i \in 1..n : OnsetAt(heard, i, onsetStart)
  BY DEF HeardInv, StateOK
<1>2. ASSUME NEW b \in 1..n, \A x \in b..(n + 1) : heard'[x].level = "speech"
      PROVE  b >= i
  <2>1. SUFFICES ASSUME b < i PROVE FALSE
    BY FrameHeard
  <2>2. i # 1 /\ i - 1 \in b..n /\ i - 1 \in 1..n
    BY <2>1, FrameHeard
  <2>3. heard[i - 1].level # "speech"
    BY <1>1, <2>2 DEF OnsetAt, IsSpeech
  <2>4. heard'[i - 1] = heard[i - 1]
    BY <2>2, FrameHeard
  <2>5. i - 1 \in b..(n + 1)
    BY <2>2, FrameHeard
  <2>6. heard'[i - 1].level = "speech"
    BY <1>2, <2>5
  <2> QED
    BY <2>3, <2>4, <2>6
<1>3. ~ SpeechLasts(heard', n + 1)
  <2> SUFFICES ASSUME NEW b \in 1..n, \A x \in b..(n + 1) : heard'[x].level = "speech"
               PROVE  ~ heard'[n + 1].at - heard'[b].at >= OnsetDuration
    BY FrameHeard DEF SpeechLasts
  <2>1. b >= i
    BY <1>2
  <2>2. heard[i].at <= heard[b].at /\ heard[i].at = onsetStart
    BY <1>1, <2>1 DEF HeardInv, HeardOK, Ordered, OnsetAt
  <2>3. heard'[b].at = heard[b].at /\ heard'[n + 1].at = clock
    BY FrameHeard
  <2>4. /\ heard[b].at \in Nat /\ clock \in Nat /\ onsetStart \in Nat
        /\ OnsetDuration \in Nat
    BY FrameHeard, DurationsAssumption DEF HeardInv, HeardOK, MachineTypeOK, HeardFrame
  <2> QED
    BY <2>2, <2>3, <2>4
<1>4. Talking(heard') <=> Talking(heard)
  <2>1. Hears("speech")
    BY DEF Hears
  <2> QED
    BY <1>3, <2>1, SpeechClosesNothing, TalkingStays
<1>5. OnsetAt(heard', i, onsetStart') /\ i \in 1..Len(heard')
  BY <1>1, FrameHeard DEF OnsetAt, IsSpeech
<1>6. StateOK'
  BY <1>5 DEF StateOK
<1> QED
  BY <1>4, <1>6 DEF HeardInv, TurnsAsHeard

LEMMA RemainsSpeaking ==
    ASSUME HeardInv, NEW level \in Levels, Hears(level),
           vad = "speaking", vad' = "speaking", level # "silence"
    PROVE  StateOK' /\ TurnsAsHeard'
<1> DEFINE n == Len(heard)
<1>1. Talking(heard')
  BY SpeakingClosesNothing, TalkingStays DEF HeardInv, TurnsAsHeard
<1>2. PICK s \in 1..n : SpeechAt(heard, s, n)
  BY DEF HeardInv, StateOK
<1>3. CASE level = "speech"
  <2>1. SpeechAt(heard', n + 1, Len(heard')) /\ n + 1 \in 1..Len(heard')
    BY <1>3, FrameHeard DEF SpeechAt, IsSpeech
  <2> QED
    BY <1>1, <2>1 DEF StateOK, TurnsAsHeard
<1>4. CASE level = "between"
  <2>1. s \in 1..Len(heard') /\ Len(heard') = n + 1
    BY FrameHeard
  <2>2. IsSpeech(heard', s)
    BY <1>2, FrameHeard DEF SpeechAt, IsSpeech
  <2>3. \A x \in (s + 1)..n : heard'[x].level = "between"
    BY <1>2, FrameHeard DEF SpeechAt
  <2>4. heard'[n + 1].level = "between"
    BY <1>4, FrameHeard
  <2>5. (s + 1)..(n + 1) = (s + 1)..n \cup {n + 1}
    BY FrameHeard
  <2>6. SpeechAt(heard', s, Len(heard'))
    BY <2>1, <2>2, <2>3, <2>4, <2>5 DEF SpeechAt
  <2> QED
    BY <1>1, <2>1, <2>6 DEF StateOK, TurnsAsHeard
<1> QED
  BY <1>3, <1>4 DEF Levels

LEMMA RemainsStopping ==
    ASSUME HeardInv, NEW level \in Levels, Hears(level),
           vad = "stopping", vad' = "stopping", level # "speech",
           clock - offsetStart < OffsetDuration, UNCHANGED offsetStart
    PROVE  StateOK' /\ TurnsAsHeard'
<1> DEFINE n == Len(heard)
<1>1. PICK k \in 1..n : SilenceAt(heard, k, offsetStart)
  BY DEF HeardInv, StateOK
<1>2. PICK s \in 1..(k - 1) : SpeechAt(heard, s, k - 1)
  BY <1>1 DEF SilenceAt
<1>3. ASSUME NEW b \in 1..n PROVE ~ SilenceLasts(heard', b, n + 1)
  <2>1. CASE b <= s
    <3>1. s \in b..(n + 1) /\ heard'[s].level = "speech"
      BY <1>2, <2>1, FrameHeard DEF SpeechAt, IsSpeech
    <3> QED
      BY <3>1 DEF SilenceLasts
  <2>2. CASE b > s /\ b < k
    <3>1. b \in (s + 1)..(k - 1) /\ heard'[b] = heard[b]
      BY <2>2, FrameHeard
    <3>2. heard'[b].level = "between"
      BY <1>2, <3>1 DEF SpeechAt
    <3> QED
      BY <3>2 DEF SilenceLasts
  <2>3. CASE b >= k
    <3>1. heard[k].at <= heard[b].at /\ heard[k].at = offsetStart
      BY <1>1, <2>3 DEF HeardInv, HeardOK, Ordered, SilenceAt
    <3>2. heard'[b].at = heard[b].at /\ heard'[n + 1].at = clock
      BY FrameHeard
    <3>3. /\ heard[b].at \in Nat /\ clock \in Nat /\ offsetStart \in Nat
          /\ OffsetDuration \in Nat
      BY FrameHeard, DurationsAssumption DEF HeardInv, HeardOK, MachineTypeOK, HeardFrame
    <3> QED
      BY <3>1, <3>2, <3>3 DEF SilenceLasts
  <2> QED
    BY <2>1, <2>2, <2>3, FrameHeard
<1>4. Talking(heard')
  BY <1>3, TalkingStays DEF HeardInv, TurnsAsHeard
<1>5. k \in 1..Len(heard') /\ s \in 1..(k - 1) /\ SpeechAt(heard', s, k - 1)
  BY <1>2, FrameHeard DEF SpeechAt, IsSpeech
<1>6. SilenceAt(heard', k, offsetStart')
  BY <1>1, <1>5, FrameHeard DEF SilenceAt, IsSpeech
<1>7. StateOK'
  BY <1>5, <1>6 DEF StateOK
<1> QED
  BY <1>4, <1>7 DEF TurnsAsHeard

LEMMA ProcessKeeps ==
    ASSUME HeardInv, NEW level \in Levels, NEW event, Hears(level),
           Process(level, clock, event)
    PROVE  StateOK' /\ TurnsAsHeard'
<1>1. CASE Remains(level, clock, event)
  BY <1>1, RemainsQuiet, RemainsStarting, RemainsSpeaking, RemainsStopping DEF Remains
<1> QED
  BY <1>1, OnsetBeginsKeeps, OnsetConfirmedKeeps, FalseStartKeeps, OffsetBeginsKeeps,
     SpeechResumesKeeps, OffsetConfirmedKeeps DEF Process

(***************************************************************************)
(* The theorems.                                                            *)
(***************************************************************************)
LEMMA MachineKeepsType ==
    ASSUME MachineTypeOK, NEW level \in Levels, NEW t \in Nat, NEW event, Process(level, t, event)
    PROVE  MachineTypeOK'
BY DEF MachineTypeOK, VADState, Process, OnsetBegins, OnsetConfirmed, FalseStart,
       OffsetBegins, SpeechResumes, OffsetConfirmed, Remains, Moves

\* Every variable has its type, for all values of the constants.
THEOREM VadTypeCorrect == Spec => []TypeOK
<1>1. Init => TypeOK
  <2> SUFFICES ASSUME Init PROVE TypeOK
    OBVIOUS
  <2>1. MachineTypeOK
    BY DEF Init, MachineInit, MachineTypeOK, VADState
  <2>2. audio \in Seq(Frames) /\ Len(audio) <= MaxQueueSize /\ heard \in Seq(HeardFrame)
    BY PipelineAssumption DEF Init
  <2>3. lastEvent \in VADEvent \cup {NoEvent}
    BY DEF Init
  <2> QED
    BY <2>1, <2>2, <2>3, PipelineAssumption DEF Init, TypeOK
<1>2. TypeOK /\ [Next]_vars => TypeOK'
  <2> SUFFICES ASSUME TypeOK, [Next]_vars PROVE TypeOK'
    OBVIOUS
  <2>1. ASSUME NEW frame \in Frames, PushAudio(frame) PROVE TypeOK'
    <3>1. audio' \in Seq(Frames) /\ Len(audio') = Len(audio) + 1
      BY <2>1 DEF PushAudio, TypeOK
    <3>2. Len(audio') <= MaxQueueSize /\ pushed' \in 0..MaxFrames
      BY <2>1, <3>1, PipelineAssumption DEF PushAudio, TypeOK
    <3> QED
      BY <2>1, <3>1, <3>2 DEF PushAudio, TypeOK, MachineTypeOK, machineVars, taskVars
  <2>2. ASSUME NEW speaking \in BOOLEAN, SetAgentSpeaking(speaking) PROVE TypeOK'
    BY <2>2 DEF SetAgentSpeaking, TypeOK, MachineTypeOK, queueVars, taskVars
  <2>3. CASE Start
    <3>1. MachineTypeOK'
      BY <2>3 DEF Start, Reset, MachineTypeOK, VADState
    <3>2. sessions' \in 0..MaxSessions /\ clock' \in 0..MaxTime /\ heard' \in Seq(HeardFrame)
      BY <2>3, PipelineAssumption DEF Start, TypeOK
    <3> QED
      BY <2>3, <3>1, <3>2 DEF Start, TypeOK, queueVars
  <2>4. CASE StopBegins
    BY <2>4, PipelineAssumption
       DEF StopBegins, TypeOK, MachineTypeOK, machineVars, queueVars
  <2>5. CASE StopEnds
    BY <2>5, PipelineAssumption
       DEF StopEnds, TypeOK, MachineTypeOK, machineVars, queueVars
  <2>6. ASSUME NEW c \in {"task", "orphan"}, RunFrame(c) PROVE TypeOK'
    <3>1. PICK level \in Levels, event \in VADEvent \cup {NoEvent} :
             /\ Process(level, clock, event)
             /\ lastEvent' = IF event = NoEvent THEN lastEvent ELSE event
             /\ heard' = Append(heard, [level |-> level, at |-> clock])
      BY <2>6 DEF RunFrame
    <3>2. MachineTypeOK'
      BY <3>1, MachineKeepsType, PipelineAssumption DEF TypeOK
    <3>3. heard' \in Seq(HeardFrame)
      <4>1. [level |-> level, at |-> clock] \in HeardFrame
        BY PipelineAssumption DEF TypeOK, HeardFrame
      <4> QED
        BY <3>1, <4>1 DEF TypeOK
    <3>4. audio' \in Seq(Frames) /\ Len(audio') <= MaxQueueSize
      BY <2>6, PipelineAssumption DEF RunFrame, Takes, TypeOK
    <3>5. lastEvent' \in VADEvent \cup {NoEvent}
      BY <3>1 DEF TypeOK
    <3>6. running' \in {"none", "task", "orphan"}
      BY <2>6 DEF RunFrame
    <3> QED
      BY <2>6, <3>2, <3>3, <3>4, <3>5, <3>6 DEF RunFrame, TypeOK, taskVars
  <2>7. ASSUME NEW c \in {"task", "orphan"}, RunRaises(c) PROVE TypeOK'
    <3>1. audio' \in Seq(Frames) /\ Len(audio') <= MaxQueueSize
      BY <2>7, PipelineAssumption DEF RunRaises, Takes, TypeOK
    <3>2. orphans' \in Nat
      <4>1. CASE c = "task"
        BY <2>7, <4>1 DEF RunRaises, TypeOK
      <4>2. CASE c = "orphan"
        <5>1. orphans > 0 /\ orphans' = orphans - 1
          BY <2>7, <4>2 DEF RunRaises, Takes
        <5> QED
          BY <5>1 DEF TypeOK
      <4> QED
        BY <4>1, <4>2
    <3> QED
      BY <2>7, <3>1, <3>2 DEF RunRaises, TypeOK, MachineTypeOK, machineVars
  <2>8. CASE Tick
    BY <2>8, PipelineAssumption
       DEF Tick, TypeOK, MachineTypeOK, machineVars, queueVars, taskVars
  <2>9. CASE UNCHANGED vars
    BY <2>9 DEF vars, TypeOK, MachineTypeOK, machineVars, queueVars, taskVars
  <2> QED
    BY <2>1, <2>2, <2>3, <2>4, <2>5, <2>6, <2>7, <2>8, <2>9 DEF Next
<1> QED
  BY <1>1, <1>2, PTL DEF Spec

\* Steps that hear nothing leave the turns as they are.
LEMMA NothingHeard ==
    ASSUME HeardInv, MachineTypeOK', UNCHANGED <<vad, onsetStart, offsetStart, heard>>,
           clock' \in Nat, clock' >= clock
    PROVE  HeardInv'
<1>0. heard' = heard
  OBVIOUS
<1>1. \A i \in 1..Len(heard') : heard'[i].at <= clock'
  <2> SUFFICES ASSUME NEW i \in 1..Len(heard) PROVE heard[i].at <= clock'
    BY <1>0
  <2>1. heard[i] \in HeardFrame /\ heard[i].at <= clock /\ clock \in Nat
    BY DEF HeardInv, HeardOK
  <2> QED
    BY <2>1 DEF HeardFrame
<1>2. HeardOK'
  BY <1>1 DEF HeardInv, HeardOK, Ordered
<1>3. StateOK'
  BY DEF HeardInv, StateOK
<1>4. TurnsAsHeard'
  BY DEF HeardInv, TurnsAsHeard
<1> QED
  BY <1>2, <1>3, <1>4 DEF HeardInv

\* A session begins without a turn.
LEMMA NothingHeardYet ==
    ASSUME heard = <<>>, vad = "quiet", clock = 0, MachineTypeOK
    PROVE  HeardInv
<1>1. heard \in Seq(HeardFrame) /\ Len(heard) = 0 /\ 1..Len(heard) = {}
  OBVIOUS
<1>2. HeardOK
  BY <1>1 DEF HeardOK, Ordered
<1>3. StateOK
  BY <1>1 DEF StateOK, QuietSince
<1>4. TurnsAsHeard
  BY <1>1 DEF TurnsAsHeard, Talking
<1> QED
  BY <1>2, <1>3, <1>4 DEF HeardInv

\* For all durations and any sequence of frames, stops and restarts, the machine is in a
\* turn of the caller exactly when the frames heard say so.
THEOREM TurnsAreHeard == Spec => []TurnsAsHeard
<1>1. Init => HeardInv
  <2> SUFFICES ASSUME Init PROVE HeardInv
    OBVIOUS
  <2>1. MachineTypeOK
    BY DEF Init, MachineInit, MachineTypeOK, VADState
  <2> QED
    BY <2>1, NothingHeardYet DEF Init, MachineInit
<1>2. TypeOK /\ TypeOK' /\ HeardInv /\ [Next]_vars => HeardInv'
  <2> SUFFICES ASSUME TypeOK, TypeOK', HeardInv, [Next]_vars PROVE HeardInv'
    OBVIOUS
  <2> USE DEF TypeOK
  <2>1. CASE \E c \in {"task", "orphan"} : RunFrame(c)
    <3>1. PICK level \in Levels, event \in VADEvent \cup {NoEvent} :
             Process(level, clock, event) /\ Hears(level)
      BY <2>1 DEF RunFrame, Hears
    <3>2. UNCHANGED clock
      BY <2>1 DEF RunFrame
    <3> QED
      BY <3>1, <3>2, ProcessKeeps, HearingIsOrdered DEF HeardInv
  <2>2. CASE Start
    <3>1. heard' = <<>> /\ vad' = "quiet" /\ clock' = 0
      BY <2>2 DEF Start, Reset
    <3>2. 1..Len(heard') = {} /\ Len(heard') = 0 /\ heard' \in Seq(HeardFrame)
      BY <3>1
    <3> QED
      BY <3>1, <3>2
         DEF HeardInv, HeardOK, Ordered, StateOK, QuietSince, TurnsAsHeard, Talking
  <2>3. CASE Tick
    <3>1. clock' \in Nat /\ clock' >= clock
      BY <2>3, PipelineAssumption DEF Tick
    <3> QED
      BY <2>3, <3>1, NothingHeard DEF Tick, machineVars
  <2>4. ASSUME UNCHANGED <<vad, onsetStart, offsetStart, heard, clock>> PROVE HeardInv'
    <3>1. clock' \in Nat /\ clock' >= clock
      BY <2>4, PipelineAssumption
    <3> QED
      BY <2>4, <3>1, NothingHeard
  <2>5. CASE \/ \E frame \in Frames : PushAudio(frame)
             \/ \E speaking \in BOOLEAN : SetAgentSpeaking(speaking)
             \/ StopBegins \/ StopEnds
             \/ \E c \in {"task", "orphan"} : RunRaises(c)
             \/ UNCHANGED vars
    BY <2>4, <2>5 DEF PushAudio, SetAgentSpeaking, StopBegins, StopEnds, RunRaises, vars, machineVars
  <2> QED
    BY <2>1, <2>2, <2>3, <2>5 DEF Next
<1>3. HeardInv => TurnsAsHeard
  BY DEF HeardInv
<1> QED
  BY <1>1, <1>2, <1>3, VadTypeCorrect, PTL DEF Spec

\* A subscriber that has read every event is wrong about the machine only after a
\* restart, and only until somebody speaks.
THEOREM SubscriberIsTold == Spec => []SubscriberCatchesUp
<1>1. Init => SubscriberCatchesUp
  BY DEF Init, MachineInit, SubscriberCatchesUp, Told
<1>2. TypeOK /\ SubscriberCatchesUp /\ [Next]_vars => SubscriberCatchesUp'
  <2> SUFFICES ASSUME TypeOK, SubscriberCatchesUp, [Next]_vars PROVE SubscriberCatchesUp'
    OBVIOUS
  <2>1. CASE \E c \in {"task", "orphan"} : RunFrame(c)
    <3>1. PICK level \in Levels, event \in VADEvent \cup {NoEvent} :
             /\ Process(level, clock, event)
             /\ lastEvent' = IF event = NoEvent THEN lastEvent ELSE event
             /\ heard' = Append(heard, [level |-> level, at |-> clock])
      BY <2>1 DEF RunFrame
    <3>2. CASE event = NoEvent
      <4>1. Remains(level, clock, event)
        BY <3>1, <3>2 DEF Process, OnsetBegins, OnsetConfirmed, FalseStart, OffsetBegins,
           SpeechResumes, OffsetConfirmed, Moves, NoEvent
      <4>2. Told' = Told /\ vad' = vad
        BY <3>1, <3>2, <4>1 DEF Told, Remains
      <4>3. CASE Told # vad
        <5>1. vad = "quiet" /\ \A i \in DOMAIN heard : heard[i].level # "speech"
          BY <4>3 DEF SubscriberCatchesUp
        <5>2. level # "speech"
          BY <4>1, <5>1 DEF Remains
        <5>3. \A i \in DOMAIN heard' : heard'[i].level # "speech"
          BY <3>1, <5>1, <5>2 DEF TypeOK
        <5> QED
          BY <4>2, <5>1, <5>3 DEF SubscriberCatchesUp
      <4> QED
        BY <4>2, <4>3 DEF SubscriberCatchesUp
    <3>3. CASE event # NoEvent
      <4>1. event.new = vad'
        BY <3>1, <3>3 DEF Process, OnsetBegins, OnsetConfirmed, FalseStart, OffsetBegins,
           SpeechResumes, OffsetConfirmed, Remains, Moves
      <4> QED
        BY <3>1, <3>3, <4>1 DEF SubscriberCatchesUp, Told
    <3> QED
      BY <3>2, <3>3
  <2>2. CASE Start
    BY <2>2 DEF Start, Reset, SubscriberCatchesUp
  <2>3. ASSUME UNCHANGED <<vad, lastEvent, heard>> PROVE SubscriberCatchesUp'
    BY <2>3 DEF SubscriberCatchesUp, Told
  <2>4. CASE \/ \E frame \in Frames : PushAudio(frame)
             \/ \E speaking \in BOOLEAN : SetAgentSpeaking(speaking)
             \/ StopBegins \/ StopEnds
             \/ \E c \in {"task", "orphan"} : RunRaises(c)
             \/ Tick \/ UNCHANGED vars
    BY <2>3, <2>4
       DEF PushAudio, SetAgentSpeaking, StopBegins, StopEnds, RunRaises, Tick, vars,
           machineVars, queueVars
  <2> QED
    BY <2>1, <2>2, <2>4 DEF Next
<1> QED
  BY <1>1, <1>2, VadTypeCorrect, PTL DEF Spec
=============================================================================
