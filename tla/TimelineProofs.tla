--------------------------- MODULE TimelineProofs ---------------------------
(***************************************************************************)
(* Proofs about Timeline: for every audio, every frame, gap and padding    *)
(* length and every limit of at least a frame, chunks keep the limit, what *)
(* is spoken is kept once and in order, source mappings are exact, and     *)
(* merging keeps lines in order.                                           *)
(***************************************************************************)
EXTENDS Timeline, FiniteSetTheorems, SequenceTheorems, WellFoundedInduction, TLAPS

-----------------------------------------------------------------------------
(* Sequences and durations.                                                *)

LEMMA AppendFacts ==
    ASSUME NEW S, NEW s \in Seq(S), NEW e \in S
    PROVE  /\ Append(s, e) \in Seq(S)
           /\ Append(s, e) # <<>>
           /\ Len(s) \in Nat /\ Len(Append(s, e)) = Len(s) + 1
           /\ DOMAIN s = 1..Len(s)
           /\ DOMAIN Append(s, e) = 1..(Len(s) + 1)
           /\ \A i \in 1..Len(s) : Append(s, e)[i] = s[i]
           /\ Append(s, e)[Len(s) + 1] = e
  OBVIOUS

LEMMA TailFacts ==
    ASSUME NEW S, NEW s \in Seq(S), s # <<>>
    PROVE  /\ Tail(s) \in Seq(S)
           /\ s[1] \in S /\ Head(s) = s[1]
           /\ Len(s) \in Nat \ {0} /\ Len(Tail(s)) = Len(s) - 1
           /\ DOMAIN s = 1..Len(s)
           /\ DOMAIN Tail(s) = 1..(Len(s) - 1)
           /\ \A i \in 1..(Len(s) - 1) : Tail(s)[i] = s[i + 1]
  OBVIOUS

LEMMA SingleFacts ==
    ASSUME NEW S, NEW e \in S
    PROVE  /\ <<e>> \in Seq(S) /\ <<e>> # <<>> /\ Len(<<e>>) = 1
           /\ DOMAIN <<e>> = {1} /\ <<e>>[1] = e
  OBVIOUS

LEMMA EmptyFacts ==
    ASSUME NEW S
    PROVE  <<>> \in Seq(S) /\ Len(<<>>) = 0 /\ DOMAIN <<>> = {}
  OBVIOUS

LEMMA NonEmptyFacts ==
    ASSUME NEW S, NEW s \in Seq(S)
    PROVE  /\ Len(s) \in Nat /\ DOMAIN s = 1..Len(s)
           /\ s # <<>> => Len(s) \in DOMAIN s /\ s[Len(s)] \in S /\ 1 \in DOMAIN s
           /\ \A i \in DOMAIN s : s[i] \in S /\ i \in Nat \ {0}
  OBVIOUS

LEMMA FrameFacts == \A n \in Nat : n + 1 \in Frame
  BY DEF Frame

LEMMA Products == \A n \in Nat : /\ FrameTicks * n \in Nat
                                 /\ FrameTicks * (n + 1) = FrameTicks * n + FrameTicks
                                 /\ FrameTicks * 0 = 0
                                 /\ FrameTicks * 1 = FrameTicks
  BY VadAssumption

LEMMA Durations ==
    /\ \A frames \in Seq(Frame) : Duration(frames) \in Nat
    /\ \A frames \in Seq(Frame), f \in Frame :
          Duration(Append(frames, f)) = Duration(frames) + FrameTicks
    /\ \A f \in Frame : Duration(<<f>>) = FrameTicks
    /\ Duration(<<>>) = 0
<1>1. ASSUME NEW frames \in Seq(Frame), NEW f \in Frame
      PROVE  /\ Duration(frames) \in Nat
             /\ Duration(Append(frames, f)) = Duration(frames) + FrameTicks
  <2>1. Len(frames) \in Nat /\ Len(Append(frames, f)) = Len(frames) + 1
    BY AppendFacts
  <2>. QED
    BY <2>1, Products DEF Duration
<1>2. ASSUME NEW f \in Frame PROVE Duration(<<f>>) = FrameTicks
  BY Products, SingleFacts DEF Duration
<1>3. Duration(<<>>) = 0
  BY Products DEF Duration
<1>4. 0 \in Nat
  OBVIOUS
<1>. QED
  BY <1>1, <1>2, <1>3, <1>4

LEMMA PlacedEnds ==
    ASSUME NEW p \in Placed
    PROVE  p.at \in Nat /\ p.frames \in Seq(Frame) /\ PlacedEnd(p) \in Nat
           /\ PlacedEnd(p) = p.at + Duration(p.frames) /\ Duration(p.frames) \in Nat
<1>1. p.at \in Nat /\ p.frames \in Seq(Frame)
  BY DEF Placed
<1>2. Duration(p.frames) \in Nat
  BY <1>1, Durations
<1>. QED
  BY <1>1, <1>2 DEF PlacedEnd

LEMMA RunGrows ==
    ASSUME NEW p \in Placed, p.frames # <<>>, IsRun(p.frames)
    PROVE  /\ p.frames[1] \in Nat /\ LastFrame(p) \in Nat /\ p.frames[1] <= LastFrame(p)
           /\ LastFrame(p) = p.frames[1] + Len(p.frames) - 1
<1>1. p.frames \in Seq(Frame)
  BY DEF Placed
<1>2. Len(p.frames) \in DOMAIN p.frames /\ Len(p.frames) \in Nat \ {0} /\ p.frames[1] \in Frame
  BY <1>1, NonEmptyFacts
<1>3. LastFrame(p) = p.frames[1] + Len(p.frames) - 1
  BY <1>2 DEF IsRun, LastFrame
<1>. QED
  BY <1>2, <1>3 DEF Frame

LEMMA PackedToNat ==
    ASSUME VadTypeOK, SumsAgree
    PROVE  PackedTo \in Nat
<1>1. chunk \in Seq(Placed) /\ Fits(chunk)
  BY DEF VadTypeOK, SumsAgree
<1>2. CASE chunk # <<>>
  <2>1. Len(chunk) \in DOMAIN chunk /\ chunk[Len(chunk)] \in Placed
    BY <1>1, <1>2, NonEmptyFacts
  <2>2. LastFrame(chunk[Len(chunk)]) \in Nat
    BY <1>1, <2>1, RunGrows DEF Fits
  <2>. QED
    BY <1>2, <2>2 DEF PackedTo
<1>. QED
  BY <1>2 DEF PackedTo

LEMMA EndsAtFirst ==
    ASSUME NEW frames \in Seq(Frame), frames # <<>>, NEW n \in Nat, EndsAt(frames, n)
    PROVE  Len(frames) \in Nat \ {0} /\ frames[1] = n - Len(frames) + 1
  BY NonEmptyFacts DEF EndsAt

-----------------------------------------------------------------------------
(* Listening.                                                              *)

LEMMA EndsAtRuns ==
    ASSUME NEW frames \in Seq(Frame), NEW n \in Nat, EndsAt(frames, n)
    PROVE  IsRun(frames)
<1>1. Len(frames) \in Nat /\ DOMAIN frames = 1..Len(frames)
  OBVIOUS
<1>2. ASSUME NEW i \in DOMAIN frames PROVE frames[i] = frames[1] + i - 1
  <2>1. frames[i] = n - Len(frames) + i /\ 1 \in DOMAIN frames
    BY <1>1 DEF EndsAt
  <2>2. frames[1] = n - Len(frames) + 1
    BY <2>1 DEF EndsAt
  <2>. QED
    BY <1>1, <2>1, <2>2
<1>. QED
  BY <1>2 DEF IsRun

LEMMA EndsAtGrows ==
    ASSUME NEW frames \in Seq(Frame), NEW n \in Nat, EndsAt(frames, n)
    PROVE  /\ EndsAt(Append(frames, n + 1), n + 1)
           /\ frames # <<>> => EndsAt(Append(Tail(frames), n + 1), n + 1)
<1>1. ASSUME NEW s \in Seq(Frame), EndsAt(s, n) PROVE EndsAt(Append(s, n + 1), n + 1)
  <2>. DEFINE longer == Append(s, n + 1)
  <2>1. /\ Len(s) \in Nat /\ Len(longer) = Len(s) + 1 /\ DOMAIN longer = 1..(Len(s) + 1)
        /\ DOMAIN s = 1..Len(s)
        /\ \A i \in 1..Len(s) : longer[i] = s[i]
        /\ longer[Len(s) + 1] = n + 1
    BY FrameFacts, AppendFacts
  <2>. HIDE DEF longer
  <2>2. ASSUME NEW i \in DOMAIN longer PROVE longer[i] = n + 1 - Len(longer) + i
    <3>1. CASE i = Len(s) + 1
      BY <2>1, <3>1
    <3>2. CASE i \in 1..Len(s)
      <4>1. longer[i] = n - Len(s) + i
        BY <1>1, <2>1, <3>2 DEF EndsAt
      <4>. QED
        BY <2>1, <3>2, <4>1
    <3>. QED
      BY <2>1, <3>1, <3>2
  <2>3. EndsAt(longer, n + 1)
    BY <2>2 DEF EndsAt
  <2>. QED
    BY <2>3 DEF longer
<1>2. ASSUME frames # <<>> PROVE Tail(frames) \in Seq(Frame) /\ EndsAt(Tail(frames), n)
  <2>1. /\ Tail(frames) \in Seq(Frame)
        /\ Len(frames) \in Nat \ {0} /\ Len(Tail(frames)) = Len(frames) - 1
        /\ DOMAIN frames = 1..Len(frames) /\ DOMAIN Tail(frames) = 1..(Len(frames) - 1)
        /\ \A i \in 1..(Len(frames) - 1) : Tail(frames)[i] = frames[i + 1]
    BY <1>2, TailFacts
  <2>2. ASSUME NEW i \in DOMAIN Tail(frames)
        PROVE Tail(frames)[i] = n - Len(Tail(frames)) + i
    <3>1. Tail(frames)[i] = frames[i + 1] /\ i + 1 \in DOMAIN frames
      BY <2>1
    <3>2. frames[i + 1] = n - Len(frames) + (i + 1)
      BY <3>1 DEF EndsAt
    <3>. QED
      BY <2>1, <3>1, <3>2
  <2>. QED
    BY <2>1, <2>2 DEF EndsAt
<1>. QED
  BY <1>1, <1>2

LEMMA PushedKeeps ==
    ASSUME VadTypeOK, EndsAt(ring, Len(audio))
    PROVE  /\ Pushed(Len(audio) + 1) \in Seq(Frame)
           /\ EndsAt(Pushed(Len(audio) + 1), Len(audio) + 1)
           /\ Len(Pushed(Len(audio) + 1)) \in Nat /\ Len(Pushed(Len(audio) + 1)) <= Len(ring) + 1
<1>1. ring \in Seq(Frame) /\ Len(audio) \in Nat
  BY DEF VadTypeOK
<1>. DEFINE n == Len(audio)
<1>2. CASE Len(ring) = Padding
  <2>1. ring # <<>>
    BY <1>2, VadAssumption
  <2>2. Tail(ring) \in Seq(Frame)
    BY <1>1, <2>1, TailFacts
  <2>3. /\ Append(Tail(ring), n + 1) \in Seq(Frame)
        /\ Len(Append(Tail(ring), n + 1)) = Len(ring)
    BY <1>1, <2>1, <2>2, FrameFacts, AppendFacts, TailFacts
  <2>4. EndsAt(Append(Tail(ring), n + 1), n + 1)
    BY <1>1, <2>1, EndsAtGrows
  <2>. QED
    BY <1>1, <1>2, <2>3, <2>4 DEF Pushed
<1>3. CASE Len(ring) # Padding
  <2>1. /\ Append(ring, n + 1) \in Seq(Frame)
        /\ Len(Append(ring, n + 1)) = Len(ring) + 1
    BY <1>1, FrameFacts, AppendFacts
  <2>2. EndsAt(Append(ring, n + 1), n + 1)
    BY <1>1, EndsAtGrows
  <2>. QED
    BY <1>1, <1>3, <2>1, <2>2 DEF Pushed
<1>. QED
  BY <1>2, <1>3

LEMMA ListenKeeps ==
    ASSUME VadInv, NEW speech \in BOOLEAN, Listen(speech)
    PROVE  VadInv'
<1>. DEFINE n == Len(audio)
            now == Pushed(n + 1)
<1>1. VadTypeOK /\ RunsGoOn /\ SumsAgree /\ PackedFirst
  BY DEF VadInv
<1>2. n \in Nat /\ audio' \in Seq(BOOLEAN) /\ Len(audio') = n + 1
  BY <1>1 DEF VadTypeOK, Listen
<1>3. ring \in Seq(Frame) /\ voiced \in Seq(Frame) /\ EndsAt(ring, n) /\ EndsAt(voiced, n)
  BY <1>1 DEF VadTypeOK, RunsGoOn
<1>4. now \in Seq(Frame) /\ EndsAt(now, n + 1)
  BY <1>1, <1>3, PushedKeeps
<1>5. Append(voiced, n + 1) \in Seq(Frame) /\ EndsAt(Append(voiced, n + 1), n + 1)
  BY <1>2, <1>3, FrameFacts, AppendFacts, EndsAtGrows
<1>6. <<>> \in Seq(Frame) /\ EndsAt(<<>>, n + 1) /\ IsRun(<<>>)
  BY EmptyFacts DEF EndsAt, IsRun
<1>7. segment = <<>> /\ piece = <<>> /\ ~over
  BY DEF Listen, Listening
<1>8. over' = over /\ piece' = piece /\ closed' = closed /\ UNCHANGED packVars
  BY DEF Listen
<1>. HIDE DEF now
<1>9. /\ ring' \in Seq(Frame) /\ voiced' \in Seq(Frame) /\ segment' \in Seq(Frame)
      /\ triggered' \in BOOLEAN
      /\ EndsAt(ring', n + 1) /\ EndsAt(voiced', n + 1) /\ IsRun(segment')
      /\ ~triggered' => voiced' = <<>>
  <2>1. CASE triggered
    <3>1. Collects(n + 1, audio')
      BY <1>2, <2>1 DEF Listen
    <3>2. CASE Enough(now, audio', FALSE)
      <4>1. /\ segment' = Append(voiced, n + 1)
            /\ voiced' = <<>> /\ triggered' = FALSE /\ ring' = <<>>
        BY <3>1, <3>2 DEF Collects, now
      <4>2. IsRun(Append(voiced, n + 1))
        <5>1. n + 1 \in Nat
          BY <1>2
        <5>. QED
          BY <1>5, <5>1, EndsAtRuns
      <4>. QED
        BY <1>5, <1>6, <4>1, <4>2
    <3>3. CASE ~Enough(now, audio', FALSE)
      <4>1. /\ voiced' = Append(voiced, n + 1) /\ ring' = now
            /\ triggered' = triggered /\ segment' = segment
        BY <3>1, <3>3 DEF Collects, now
      <4>. QED
        BY <1>4, <1>5, <1>6, <1>7, <2>1, <4>1
    <3>. QED
      BY <3>2, <3>3
  <2>2. CASE ~triggered
    <3>1. Waits(n + 1, audio') /\ segment' = segment
      BY <1>2, <2>2 DEF Listen
    <3>2. voiced = <<>>
      BY <1>1, <2>2 DEF RunsGoOn
    <3>3. CASE Enough(now, audio', TRUE)
      <4>1. triggered' = TRUE /\ voiced' = now /\ ring' = <<>>
        BY <3>1, <3>3 DEF Waits, now
      <4>2. triggered' \in BOOLEAN /\ (~triggered' => voiced' = <<>>)
        BY <4>1
      <4>3. /\ ring' \in Seq(Frame) /\ voiced' \in Seq(Frame) /\ segment' \in Seq(Frame)
            /\ EndsAt(ring', n + 1) /\ EndsAt(voiced', n + 1) /\ IsRun(segment')
        BY <1>4, <1>6, <1>7, <3>1, <4>1
      <4>. QED
        BY <4>2, <4>3
    <3>4. CASE ~Enough(now, audio', TRUE)
      <4>1. ring' = now /\ triggered' = triggered /\ voiced' = voiced
        BY <3>1, <3>4 DEF Waits, now
      <4>2. triggered' \in BOOLEAN
        BY <1>1, <4>1 DEF VadTypeOK
      <4>3. ~triggered' => voiced' = <<>>
        BY <3>2, <4>1
      <4>4. /\ ring' \in Seq(Frame) /\ voiced' \in Seq(Frame) /\ segment' \in Seq(Frame)
            /\ EndsAt(ring', n + 1) /\ EndsAt(voiced', n + 1) /\ IsRun(segment')
        BY <1>4, <1>6, <1>7, <3>1, <3>2, <4>1
      <4>. QED
        BY <4>2, <4>3, <4>4
    <3>. QED
      BY <3>3, <3>4
  <2>. QED
    BY <1>1, <2>1, <2>2 DEF VadTypeOK
<1>10. VadTypeOK'
  BY <1>1, <1>2, <1>8, <1>9 DEF VadTypeOK, packVars
<1>11. RunsGoOn'
  <2>1. over' = FALSE /\ closed' = FALSE
    BY <1>1, <1>7, <1>8 DEF RunsGoOn, VadTypeOK
  <2>. QED
    BY <1>2, <1>6, <1>7, <1>8, <1>9, <2>1 DEF RunsGoOn
<1>12. SumsAgree'
  BY <1>1, <1>8 DEF SumsAgree, packVars
<1>13. PackedFirst'
  <2>. DEFINE to == PackedTo
              longer == Append(voiced, n + 1)
  <2>1. to \in Nat /\ PackedTo' = to
    BY <1>1, <1>8, PackedToNat DEF PackedTo, packVars
  <2>2. to + Len(ring) <= n /\ to + Len(voiced) <= n
    BY <1>1, <1>7 DEF PackedFirst
  <2>3. /\ Len(now) \in Nat /\ Len(now) <= Len(ring) + 1
        /\ Len(ring) \in Nat /\ Len(voiced) \in Nat
    BY <1>1, <1>3, PushedKeeps DEF now
  <2>4. /\ Len(longer) = Len(voiced) + 1
        /\ longer # <<>> /\ longer[1] = n + 1 - Len(longer) + 1
    <3>1. n + 1 \in Nat
      BY <1>2
    <3>2. Len(longer) = Len(voiced) + 1 /\ longer # <<>>
      BY <1>2, <1>3, FrameFacts, AppendFacts
    <3>3. longer \in Seq(Frame) /\ EndsAt(longer, n + 1)
      BY <1>5
    <3>. DEFINE m == n + 1
    <3>4. m \in Nat /\ EndsAt(longer, m)
      BY <3>1, <3>3
    <3>. HIDE DEF longer, n, m
    <3>5. longer[1] = m - Len(longer) + 1
      BY <3>2, <3>3, <3>4, EndsAtFirst
    <3>. QED
      BY <1>2, <2>3, <3>2, <3>5 DEF m
  <2>5. \/ segment' = longer /\ voiced' = <<>> /\ ring' = <<>>
        \/ segment' = <<>> /\ voiced' = longer /\ ring' = now
        \/ segment' = <<>> /\ voiced' = now /\ ring' = <<>>
        \/ segment' = <<>> /\ voiced' = voiced /\ ring' = now
    BY <1>2, <1>7 DEF Listen, Collects, Waits, now
  <2>6. piece' = <<>> /\ Len(audio') = n + 1
    BY <1>2, <1>7, <1>8
  <2>. HIDE DEF n, to, longer
  <2>7. n \in Nat
    BY <1>2 DEF n
  <2>8. CASE segment' = longer /\ voiced' = <<>> /\ ring' = <<>>
    BY <2>1, <2>2, <2>3, <2>4, <2>6, <2>7, <2>8 DEF PackedFirst
  <2>9. CASE segment' = <<>> /\ voiced' \in {longer, now, voiced} /\ ring' \in {<<>>, now}
    <3>1. Len(voiced') <= n + 1 - to /\ Len(ring') <= n + 1 - to
      BY <2>1, <2>2, <2>3, <2>4, <2>7, <2>9
    <3>2. Len(voiced') \in Nat /\ Len(ring') \in Nat
      BY <2>3, <2>4, <2>9
    <3>. QED
      BY <2>1, <2>6, <2>7, <2>9, <3>1, <3>2 DEF PackedFirst
  <2>. QED
    BY <2>5, <2>8, <2>9
<1>. QED
  BY <1>10, <1>11, <1>12, <1>13 DEF VadInv

LEMMA EndOfAudioKeeps ==
    ASSUME VadInv, EndOfAudio
    PROVE  VadInv'
<1>1. VadTypeOK /\ RunsGoOn /\ SumsAgree /\ PackedFirst
  BY DEF VadInv
<1>2. /\ over' = TRUE /\ segment' = voiced /\ voiced' = <<>>
      /\ UNCHANGED <<audio, triggered, ring, piece, packVars, closed>>
      /\ piece = <<>> /\ ~over
  BY DEF EndOfAudio, Listening
<1>3. VadTypeOK'
  BY <1>1, <1>2 DEF VadTypeOK, packVars
<1>4. IsRun(voiced) /\ EndsAt(<<>>, Len(audio))
  <2>1. voiced \in Seq(Frame) /\ Len(audio) \in Nat /\ EndsAt(voiced, Len(audio))
    BY <1>1 DEF VadTypeOK, RunsGoOn
  <2>. QED
    BY <2>1, EndsAtRuns DEF EndsAt
<1>5. RunsGoOn'
  BY <1>1, <1>2, <1>4 DEF RunsGoOn
<1>6. SumsAgree'
  BY <1>1, <1>2 DEF SumsAgree, packVars
<1>7. PackedFirst'
  <2>1. PackedTo' = PackedTo /\ PackedTo \in Nat
    BY <1>1, <1>2, PackedToNat DEF PackedTo, packVars
  <2>2. voiced # <<>> => PackedTo < voiced[1]
    <3>1. voiced \in Seq(Frame) /\ Len(audio) \in Nat /\ EndsAt(voiced, Len(audio))
      BY <1>1 DEF VadTypeOK, RunsGoOn
    <3>2. PackedTo + Len(voiced) <= Len(audio)
      BY <1>1, <1>2 DEF PackedFirst
    <3>3. voiced # <<>> => Len(voiced) \in Nat \ {0} /\ voiced[1] = Len(audio) - Len(voiced) + 1
      BY <3>1, EndsAtFirst
    <3>. QED
      BY <2>1, <3>1, <3>2, <3>3
  <2>. QED
    BY <1>2, <2>1, <2>2 DEF PackedFirst
<1>. QED
  BY <1>3, <1>5, <1>6, <1>7 DEF VadInv
-----------------------------------------------------------------------------
(* Packing.                                                                *)

LEMMA SingleFits ==
    ASSUME NEW frames \in Seq(Frame), frames # <<>>, IsRun(frames), Duration(frames) <= MaxTicks
    PROVE  /\ <<[at |-> 0, frames |-> frames]>> \in Seq(Placed)
           /\ Fits(<<[at |-> 0, frames |-> frames]>>)
           /\ PlacedEnd([at |-> 0, frames |-> frames]) = Duration(frames)
<1>. DEFINE p == [at |-> 0, frames |-> frames]
            c == <<p>>
<1>1. p \in Placed /\ p.at = 0 /\ p.frames = frames
  BY DEF Placed
<1>2. PlacedEnd(p) = Duration(frames)
  BY <1>1, PlacedEnds
<1>. HIDE DEF p
<1>3. c \in Seq(Placed) /\ DOMAIN c = {1} /\ c[1] = p
  BY <1>1, SingleFacts
<1>. HIDE DEF c
<1>4. Fits(c)
  <2>1. \A j \in 1..(1 - 1) : FALSE
    OBVIOUS
  <2>. QED
    BY <1>1, <1>2, <1>3, <2>1 DEF Fits, PlaceOf
<1>. QED
  BY <1>2, <1>3, <1>4 DEF p, c

LEMMA AppendFits ==
    ASSUME NEW c \in Seq(Placed), c # <<>>, Fits(c),
           NEW p \in Placed, p.frames # <<>>, IsRun(p.frames),
           p.at = PlacedEnd(c[Len(c)]) + GapTicks, PlacedEnd(p) <= MaxTicks,
           LastFrame(c[Len(c)]) < p.frames[1]
    PROVE  Append(c, p) \in Seq(Placed) /\ Fits(Append(c, p))
<1>. DEFINE longer == Append(c, p)
            n == Len(c)
<1>1. /\ longer \in Seq(Placed) /\ n \in Nat /\ DOMAIN longer = 1..(n + 1)
      /\ DOMAIN c = 1..n
      /\ \A i \in 1..n : longer[i] = c[i]
      /\ longer[n + 1] = p
  BY AppendFacts
<1>. HIDE DEF longer
<1>2. n \in DOMAIN c /\ n \in Nat \ {0}
  BY <1>1, NonEmptyFacts
<1>3. \A i \in 1..n : c[i] \in Placed /\ PlacedEnd(c[i]) \in Nat /\ c[i].at \in Nat
  BY <1>1, NonEmptyFacts, PlacedEnds
<1>4. \A j \in 1..n : PlacedEnd(c[j]) <= PlacedEnd(c[n])
  <2>1. SUFFICES ASSUME NEW j \in 1..n PROVE PlacedEnd(c[j]) <= PlacedEnd(c[n])
    OBVIOUS
  <2>2. CASE j = n
    BY <1>2, <1>3, <2>2
  <2>3. CASE j \in 1..(n - 1)
    <3>1. PlacedEnd(c[j]) + GapTicks <= c[n].at
      BY <1>2, <2>3 DEF Fits
    <3>2. PlacedEnd(c[n]) = c[n].at + Duration(c[n].frames) /\ Duration(c[n].frames) \in Nat
      BY <1>1, <1>2, <1>3, PlacedEnds
    <3>. QED
      BY <1>1, <1>2, <1>3, <3>1, <3>2, VadAssumption
  <2>. QED
    BY <1>2, <2>2, <2>3
<1>9. \A i \in 1..n : c[i].frames[1] \in Nat /\ LastFrame(c[i]) \in Nat /\ c[i].frames[1] <= LastFrame(c[i])
  BY <1>1, <1>3, RunGrows DEF Fits
<1>10. p.frames[1] \in Nat /\ \A j \in 1..n : LastFrame(c[j]) < p.frames[1]
  <2>1. p.frames[1] \in Nat
    BY RunGrows
  <2>2. ASSUME NEW j \in 1..n PROVE LastFrame(c[j]) < p.frames[1]
    <3>1. CASE j = n
      BY <3>1
    <3>2. CASE j \in 1..(n - 1)
      <4>1. LastFrame(c[j]) < c[n].frames[1]
        BY <1>2, <3>2 DEF Fits
      <4>. QED
        BY <1>2, <1>9, <2>1, <4>1
    <3>. QED
      BY <1>2, <3>1, <3>2
  <2>. QED
    BY <2>1, <2>2
<1>5. ASSUME NEW i \in 1..n
      PROVE /\ longer[i].frames # <<>> /\ IsRun(longer[i].frames)
            /\ longer[i].at = PlaceOf(longer, i)
            /\ PlacedEnd(longer[i]) <= MaxTicks
            /\ \A j \in 1..(i - 1) : /\ PlacedEnd(longer[j]) + GapTicks <= longer[i].at
                                     /\ LastFrame(longer[j]) < longer[i].frames[1]
  <2>1. /\ c[i].frames # <<>> /\ IsRun(c[i].frames)
        /\ c[i].at = PlaceOf(c, i)
        /\ PlacedEnd(c[i]) <= MaxTicks
        /\ \A j \in 1..(i - 1) : /\ PlacedEnd(c[j]) + GapTicks <= c[i].at
                                 /\ LastFrame(c[j]) < c[i].frames[1]
    BY <1>1 DEF Fits
  <2>2. \A j \in 1..(i - 1) : longer[j] = c[j]
    BY <1>1, <1>2
  <2>3. PlaceOf(longer, i) = PlaceOf(c, i)
    <3>1. i # 1 => i - 1 \in 1..(i - 1)
      BY <1>1
    <3>. QED
      BY <2>2, <3>1 DEF PlaceOf
  <2>. QED
    BY <1>1, <2>1, <2>2, <2>3
<1>6. /\ p.at = PlaceOf(longer, n + 1)
      /\ \A j \in 1..n : /\ PlacedEnd(longer[j]) + GapTicks <= p.at
                         /\ LastFrame(longer[j]) < p.frames[1]
  <2>1. longer[n] = c[n] /\ n + 1 # 1 /\ (n + 1) - 1 = n
    BY <1>1, <1>2
  <2>2. p.at = PlaceOf(longer, n + 1)
    BY <2>1 DEF PlaceOf
  <2>3. ASSUME NEW j \in 1..n PROVE PlacedEnd(longer[j]) + GapTicks <= p.at
    <3>1. longer[j] = c[j] /\ PlacedEnd(c[j]) <= PlacedEnd(c[n])
      BY <1>1, <1>4
    <3>. QED
      BY <1>2, <1>3, <3>1, VadAssumption
  <2>4. ASSUME NEW j \in 1..n PROVE LastFrame(longer[j]) < p.frames[1]
    <3>1. longer[j] = c[j]
      BY <1>1
    <3>. QED
      BY <1>10, <3>1
  <2>. QED
    BY <2>2, <2>3, <2>4
<1>7. ASSUME NEW i \in DOMAIN longer
      PROVE /\ longer[i].frames # <<>> /\ IsRun(longer[i].frames)
            /\ longer[i].at = PlaceOf(longer, i)
            /\ PlacedEnd(longer[i]) <= MaxTicks
            /\ \A j \in 1..(i - 1) : /\ PlacedEnd(longer[j]) + GapTicks <= longer[i].at
                                     /\ LastFrame(longer[j]) < longer[i].frames[1]
  <2>1. CASE i \in 1..n
    BY <1>5, <2>1
  <2>2. CASE i = n + 1
    <3>1. longer[i] = p /\ i - 1 = n
      BY <1>1, <2>2
    <3>. QED
      BY <1>6, <2>2, <3>1
  <2>. QED
    BY <1>1, <2>1, <2>2
<1>8. Fits(longer)
  BY <1>7 DEF Fits
<1>. QED
  BY <1>1, <1>8 DEF longer

LEMMA ExceedsNot ==
    \A t \in Nat, up \in BOOLEAN : ~Exceeds(t, up) => t <= MaxTicks
  BY VadAssumption DEF Exceeds

Packing ==
    /\ chunk \in Seq(Placed) /\ packed \in Nat /\ chunks \in Seq(Seq(Placed))
    /\ packed = IF chunk = <<>> THEN 0 ELSE PlacedEnd(chunk[Len(chunk)])
    /\ Fits(chunk) /\ \A k \in DOMAIN chunks : Writable(chunks[k])

\* A chunk that keeps the limit may join those that are written.
LEMMA WrittenFit ==
    ASSUME Packing, chunk # <<>>
    PROVE  /\ Append(chunks, chunk) \in Seq(Seq(Placed))
           /\ \A k \in DOMAIN Append(chunks, chunk) : Writable(Append(chunks, chunk)[k])
<1>. DEFINE longer == Append(chunks, chunk)
<1>1. chunk \in Seq(Placed) /\ chunks \in Seq(Seq(Placed))
  BY DEF Packing
<1>2. /\ longer \in Seq(Seq(Placed)) /\ DOMAIN longer = 1..(Len(chunks) + 1)
      /\ DOMAIN chunks = 1..Len(chunks) /\ Len(chunks) \in Nat
      /\ \A k \in 1..Len(chunks) : longer[k] = chunks[k]
      /\ longer[Len(chunks) + 1] = chunk
  BY <1>1, AppendFacts
<1>. HIDE DEF longer
<1>3. ASSUME NEW k \in DOMAIN longer PROVE Writable(longer[k])
  <2>1. CASE k \in 1..Len(chunks)
    BY <1>2, <2>1 DEF Packing
  <2>2. CASE k = Len(chunks) + 1
    BY <1>2, <2>2 DEF Packing, Writable
  <2>. QED
    BY <1>2, <2>1, <2>2
<1>. QED
  BY <1>2, <1>3 DEF longer

LEMMA PackKeeps ==
    ASSUME Packing, NEW frames \in Seq(Frame), frames # <<>>, IsRun(frames),
           Duration(frames) <= MaxTicks, PackedTo < frames[1],
           NEW up \in BOOLEAN, Pack(frames, up)
    PROVE  Packing' /\ PackedTo' = frames[Len(frames)]
<1>1. /\ chunk \in Seq(Placed) /\ packed \in Nat /\ chunks \in Seq(Seq(Placed)) /\ Fits(chunk)
      /\ \A k \in DOMAIN chunks : Writable(chunks[k])
  BY DEF Packing
<1>2. Duration(frames) \in Nat
  BY Durations
<1>. DEFINE over1 == chunk # <<>> /\ Exceeds(packed + Added(frames), up)
            first == [at |-> 0, frames |-> frames]
<1>3. <<first>> \in Seq(Placed) /\ Fits(<<first>>) /\ PlacedEnd(first) = Duration(frames)
  BY SingleFits
<1>4. /\ <<first>> # <<>> /\ <<first>>[Len(<<first>>)] = first
      /\ LastFrame(first) = frames[Len(frames)]
  BY DEF LastFrame
<1>. HIDE DEF first
<1>5. CASE over1
  <2>1. chunks' = Append(chunks, chunk) /\ chunk' = <<first>> /\ packed' = Duration(frames)
    BY <1>5 DEF Pack, first
  <2>2. /\ Append(chunks, chunk) \in Seq(Seq(Placed))
        /\ \A k \in DOMAIN Append(chunks, chunk) : Writable(Append(chunks, chunk)[k])
    BY <1>5, WrittenFit
  <2>3. chunk' \in Seq(Placed) /\ packed' \in Nat /\ chunks' \in Seq(Seq(Placed))
    BY <1>2, <1>3, <2>1, <2>2
  <2>4. packed' = IF chunk' = <<>> THEN 0 ELSE PlacedEnd(chunk'[Len(chunk')])
    BY <1>3, <1>4, <2>1
  <2>5. Fits(chunk') /\ \A k \in DOMAIN chunks' : Writable(chunks'[k])
    BY <1>3, <2>1, <2>2
  <2>6. PackedTo' = frames[Len(frames)]
    BY <1>4, <2>1 DEF PackedTo
  <2>. QED
    BY <2>3, <2>4, <2>5, <2>6 DEF Packing
<1>6. CASE ~over1 /\ chunk = <<>>
  <2>1. /\ chunk' = Append(<<>>, first) /\ packed' = packed + Duration(frames)
        /\ chunks' = chunks
    BY <1>2, <1>6 DEF Pack, first, Cursor, Added
  <2>2. chunk' = <<first>> /\ packed' = Duration(frames)
    <3>1. packed = 0
      BY <1>6 DEF Packing
    <3>2. Append(<<>>, first) = <<first>>
      OBVIOUS
    <3>. QED
      BY <1>2, <2>1, <3>1, <3>2
  <2>3. chunk' \in Seq(Placed) /\ packed' \in Nat /\ chunks' \in Seq(Seq(Placed))
    BY <1>1, <1>2, <1>3, <2>1, <2>2
  <2>4. packed' = IF chunk' = <<>> THEN 0 ELSE PlacedEnd(chunk'[Len(chunk')])
    BY <1>3, <1>4, <2>2
  <2>5. Fits(chunk') /\ \A k \in DOMAIN chunks' : Writable(chunks'[k])
    BY <1>1, <1>3, <2>1, <2>2
  <2>6. PackedTo' = frames[Len(frames)]
    BY <1>4, <2>2 DEF PackedTo
  <2>. QED
    BY <2>3, <2>4, <2>5, <2>6 DEF Packing
<1>7. CASE ~over1 /\ chunk # <<>>
  <2>. DEFINE p == [at |-> Cursor, frames |-> frames]
              end == PlacedEnd(chunk[Len(chunk)])
  <2>1. packed = end /\ end \in Nat
    BY <1>1, <1>7 DEF Packing
  <2>2. Cursor = end + GapTicks /\ Added(frames) = Duration(frames) + GapTicks
    BY <1>7 DEF Cursor, Last, Added
  <2>. HIDE DEF end
  <2>3. p \in Placed /\ p.frames = frames /\ p.at = end + GapTicks
    BY <2>1, <2>2, VadAssumption DEF Placed
  <2>. HIDE DEF p
  <2>4. PlacedEnd(p) = packed + Added(frames) /\ packed + Added(frames) \in Nat
    <3>1. PlacedEnd(p) = p.at + Duration(p.frames)
      BY <2>3, PlacedEnds
    <3>. QED
      BY <1>2, <2>1, <2>2, <2>3, <3>1, VadAssumption
  <2>5. PlacedEnd(p) <= MaxTicks
    BY <1>7, <2>4, ExceedsNot
  <2>6. /\ chunk' = Append(chunk, p) /\ packed' = packed + Added(frames)
        /\ chunks' = chunks
    BY <1>7 DEF Pack, p
  <2>7. chunk' \in Seq(Placed) /\ Fits(chunk')
    <3>1. p.at = PlacedEnd(chunk[Len(chunk)]) + GapTicks
      BY <2>3 DEF end
    <3>2. LastFrame(chunk[Len(chunk)]) < p.frames[1]
      BY <1>7, <2>3 DEF PackedTo
    <3>3. Append(chunk, p) \in Seq(Placed) /\ Fits(Append(chunk, p))
      BY <1>1, <1>7, <2>3, <2>5, <3>1, <3>2, AppendFits
    <3>. QED
      BY <2>6, <3>3
  <2>8. packed' = IF chunk' = <<>> THEN 0 ELSE PlacedEnd(chunk'[Len(chunk')])
    <3>1. chunk' # <<>> /\ chunk'[Len(chunk')] = p
      BY <1>1, <2>3, <2>6, AppendFacts
    <3>. QED
      BY <2>4, <2>6, <3>1
  <2>9. packed' \in Nat /\ chunks' \in Seq(Seq(Placed)) /\ \A k \in DOMAIN chunks' : Writable(chunks'[k])
    BY <1>1, <2>4, <2>6
  <2>10. PackedTo' = frames[Len(frames)]
    <3>1. chunk' # <<>> /\ chunk'[Len(chunk')] = p
      BY <1>1, <2>3, <2>6, AppendFacts
    <3>. QED
      BY <2>3, <3>1 DEF PackedTo, LastFrame
  <2>. QED
    BY <2>7, <2>8, <2>9, <2>10 DEF Packing
<1>. QED
  BY <1>5, <1>6, <1>7

LEMMA PackingOfInv == ASSUME VadInv PROVE Packing
  BY DEF VadInv, VadTypeOK, SumsAgree, Packing

LEMMA RunEnds ==
    ASSUME NEW frames \in Seq(Frame), frames # <<>>, IsRun(frames)
    PROVE  /\ Len(frames) \in Nat \ {0} /\ frames[1] \in Nat /\ frames[1] > 0
           /\ frames[Len(frames)] = frames[1] + Len(frames) - 1
<1>1. /\ Len(frames) \in DOMAIN frames /\ Len(frames) \in Nat \ {0} /\ frames[1] \in Frame
  BY NonEmptyFacts
<1>2. frames[Len(frames)] = frames[1] + Len(frames) - 1
  BY <1>1 DEF IsRun
<1>. QED
  BY <1>1, <1>2 DEF Frame

LEMMA CutFrameKeeps ==
    ASSUME VadInv, NEW up \in BOOLEAN, CutFrame(up)
    PROVE  VadInv'
<1>1. VadTypeOK /\ RunsGoOn /\ SumsAgree /\ Packing /\ PackedFirst
  BY PackingOfInv DEF VadInv
<1>2. /\ segment # <<>> /\ segment' = Tail(segment)
      /\ UNCHANGED <<listenVars, over, closed>>
  BY DEF CutFrame
<1>3. segment \in Seq(Frame) /\ piece \in Seq(Frame) /\ IsRun(segment) /\ IsRun(piece)
  BY <1>1 DEF VadTypeOK, RunsGoOn
<1>4. /\ Tail(segment) \in Seq(Frame) /\ segment[1] \in Frame /\ segment[1] \in Nat /\ Head(segment) = segment[1]
      /\ Len(segment) \in Nat \ {0} /\ Len(Tail(segment)) = Len(segment) - 1
      /\ DOMAIN segment = 1..Len(segment)
      /\ DOMAIN Tail(segment) = 1..(Len(segment) - 1)
      /\ \A i \in 1..(Len(segment) - 1) : Tail(segment)[i] = segment[i + 1]
  BY <1>2, <1>3, TailFacts DEF Frame
<1>. DEFINE f == segment[1]
            rest == Tail(segment)
<1>5. IsRun(rest) /\ (rest # <<>> => rest[1] = f + 1)
  <2>1. ASSUME NEW i \in DOMAIN rest PROVE rest[i] = f + i
    <3>1. rest[i] = segment[i + 1] /\ i + 1 \in DOMAIN segment /\ i \in Nat
      BY <1>4
    <3>2. segment[i + 1] = f + (i + 1) - 1
      BY <1>3, <3>1 DEF IsRun
    <3>. QED
      BY <1>4, <3>1, <3>2
  <2>2. rest # <<>> => 1 \in DOMAIN rest
    BY <1>4, NonEmptyFacts
  <2>3. rest # <<>> => rest[1] = f + 1
    BY <2>1, <2>2
  <2>4. ASSUME NEW i \in DOMAIN rest PROVE rest[i] = rest[1] + i - 1
    <3>1. rest # <<>> /\ i \in Nat
      BY <1>4
    <3>2. rest[i] = f + i /\ rest[1] = f + 1 /\ f \in Nat
      BY <1>4, <2>1, <2>3, <3>1
    <3>. HIDE DEF rest, f
    <3>. QED
      BY <3>1, <3>2
  <2>. QED
    BY <2>3, <2>4 DEF IsRun
<1>. HIDE DEF rest
<1>8. /\ PackedTo \in Nat /\ PackedTo < f
      /\ Len(audio) \in Nat
      /\ over' = over /\ ring' = ring /\ voiced' = voiced /\ audio' = audio
  BY <1>1, <1>2, PackedToNat DEF PackedFirst, VadTypeOK, listenVars
<1>9. ~over => ring = <<>> /\ voiced = <<>> /\ f + Len(segment) <= Len(audio) + 1
  BY <1>1, <1>2 DEF PackedFirst
<1>10. Len(rest) = Len(segment) - 1 /\ segment' = rest
  BY <1>2, <1>4 DEF rest
<1>6. CASE piece # <<>> /\ Exceeds(Duration(piece) + FrameTicks, up)
  <2>1. piece' = <<f>> /\ Pack(piece, up)
    BY <1>4, <1>6 DEF CutFrame
  <2>2. Duration(piece) <= MaxTicks
    BY <1>1 DEF SumsAgree
  <2>3. Packing' /\ PackedTo' = piece[Len(piece)]
    <3>1. PackedTo < piece[1]
      BY <1>1, <1>6 DEF PackedFirst
    <3>. QED
      BY <1>1, <1>3, <1>6, <2>1, <2>2, <3>1, PackKeeps
  <2>4. /\ <<f>> \in Seq(Frame) /\ <<f>>[1] = f /\ Len(<<f>>) = 1 /\ DOMAIN <<f>> = {1}
        /\ Duration(<<f>>) = FrameTicks
    BY <1>4, SingleFacts, Durations
  <2>5. IsRun(<<f>>)
    <3>1. <<f>>[1] = <<f>>[1] + 1 - 1
      BY <1>4, <2>4
    <3>. QED
      BY <2>4, <3>1 DEF IsRun
  <2>6. VadTypeOK'
    BY <1>1, <1>2, <1>4, <2>1, <2>3, <2>4 DEF VadTypeOK, Packing, listenVars
  <2>7. RunsGoOn'
    <3>1. piece'[1] + Len(piece') = f + 1
      BY <2>1, <2>4
    <3>2. piece' # <<>> /\ segment' # <<>> => segment'[1] = piece'[1] + Len(piece')
      BY <1>2, <1>5, <3>1 DEF rest
    <3>3. IsRun(segment') /\ IsRun(piece')
      BY <1>2, <1>5, <2>1, <2>5 DEF rest
    <3>4. /\ EndsAt(ring', Len(audio')) /\ EndsAt(voiced', Len(audio'))
          /\ ~triggered' \/ over' => voiced' = <<>>
          /\ closed' => over'
      BY <1>1, <1>2 DEF RunsGoOn, listenVars
    <3>. QED
      BY <3>2, <3>3, <3>4 DEF RunsGoOn
  <2>8. SumsAgree'
    BY <2>1, <2>3, <2>4, VadAssumption DEF SumsAgree, Packing
  <2>9. PackedFirst'
    <3>1. f = piece[1] + Len(piece)
      BY <1>1, <1>2, <1>6 DEF RunsGoOn
    <3>2. PackedTo' = f - 1 /\ f \in Nat
      BY <1>3, <1>4, <1>6, <2>3, <3>1, RunEnds
    <3>3. piece'[1] = f /\ Len(piece') = 1
      BY <2>1, <2>4
    <3>. HIDE DEF f
    <3>. QED
      BY <1>4, <1>5, <1>8, <1>9, <1>10, <3>2, <3>3 DEF PackedFirst
  <2>. QED
    BY <2>6, <2>7, <2>8, <2>9 DEF VadInv
<1>7. CASE ~(piece # <<>> /\ Exceeds(Duration(piece) + FrameTicks, up))
  <2>. DEFINE longer == Append(piece, f)
  <2>1. piece' = longer /\ UNCHANGED packVars
    BY <1>4, <1>7 DEF CutFrame
  <2>2. /\ longer \in Seq(Frame) /\ longer # <<>> /\ Len(longer) = Len(piece) + 1
        /\ Len(piece) \in Nat /\ DOMAIN piece = 1..Len(piece)
        /\ DOMAIN longer = 1..(Len(piece) + 1)
        /\ \A i \in 1..Len(piece) : longer[i] = piece[i]
        /\ longer[Len(piece) + 1] = f
        /\ Duration(longer) = Duration(piece) + FrameTicks
        /\ Duration(piece) \in Nat
    BY <1>3, <1>4, AppendFacts, Durations
  <2>. HIDE DEF longer
  <2>3. Duration(longer) <= MaxTicks
    <3>1. CASE piece = <<>>
      <4>1. Duration(piece) = 0
        BY <3>1, Durations
      <4>. QED
        BY <2>2, <4>1, VadAssumption
    <3>2. CASE piece # <<>>
      <4>1. Duration(piece) + FrameTicks \in Nat
        BY <2>2, VadAssumption
      <4>. QED
        BY <1>7, <2>2, <3>2, <4>1, ExceedsNot
    <3>. QED
      BY <3>1, <3>2
  <2>4. IsRun(longer) /\ f = longer[1] + Len(piece) /\ longer[1] \in Nat
    <3>1. CASE piece = <<>>
      <4>1. Len(piece) = 0
        BY <3>1
      <4>2. DOMAIN longer = {1} /\ longer[1] = f
        BY <2>2, <4>1
      <4>3. longer[1] = longer[1] + 1 - 1
        BY <1>4, <4>2
      <4>. QED
        BY <1>4, <4>1, <4>2, <4>3 DEF IsRun
    <3>2. CASE piece # <<>>
      <4>1. f = piece[1] + Len(piece) /\ 1 \in 1..Len(piece) /\ piece[1] \in Nat
        <5>1. 1 \in 1..Len(piece) /\ piece[1] \in Frame
          BY <1>3, <2>2, <3>2, NonEmptyFacts
        <5>2. f = piece[1] + Len(piece)
          BY <1>1, <1>2, <3>2 DEF RunsGoOn
        <5>. QED
          BY <5>1, <5>2 DEF Frame
      <4>2. longer[1] = piece[1]
        BY <2>2, <4>1
      <4>3. ASSUME NEW i \in DOMAIN longer PROVE longer[i] = longer[1] + i - 1
        <5>1. CASE i \in 1..Len(piece)
          BY <1>3, <2>2, <4>2, <5>1 DEF IsRun
        <5>2. CASE i = Len(piece) + 1
          BY <2>2, <4>1, <4>2, <5>2
        <5>. QED
          BY <2>2, <5>1, <5>2
      <4>. QED
        BY <4>1, <4>2, <4>3 DEF IsRun
    <3>. QED
      BY <3>1, <3>2
  <2>5. VadTypeOK'
    BY <1>1, <1>2, <1>4, <2>1, <2>2 DEF VadTypeOK, packVars, listenVars
  <2>6. RunsGoOn'
    <3>1. piece'[1] + Len(piece') = f + 1
      <4>1. piece'[1] = longer[1] /\ Len(piece') = Len(piece) + 1
        BY <2>1, <2>2
      <4>2. longer[1] \in Nat /\ Len(piece) \in Nat /\ f = longer[1] + Len(piece)
        BY <2>2, <2>4
      <4>. HIDE DEF f
      <4>. QED
        BY <4>1, <4>2
    <3>2. piece' # <<>> /\ segment' # <<>> => segment'[1] = piece'[1] + Len(piece')
      BY <1>2, <1>5, <3>1 DEF rest
    <3>3. IsRun(segment') /\ IsRun(piece')
      BY <1>2, <1>5, <2>1, <2>4 DEF rest
    <3>4. /\ EndsAt(ring', Len(audio')) /\ EndsAt(voiced', Len(audio'))
          /\ ~triggered' \/ over' => voiced' = <<>>
          /\ closed' => over'
      BY <1>1, <1>2 DEF RunsGoOn, listenVars
    <3>. QED
      BY <3>2, <3>3, <3>4 DEF RunsGoOn
  <2>7. SumsAgree'
    <3>1. chunk' = chunk /\ packed' = packed /\ chunks' = chunks
      BY <2>1 DEF packVars
    <3>2. Duration(piece') <= MaxTicks
      BY <2>1, <2>3
    <3>. QED
      BY <1>1, <3>1, <3>2 DEF SumsAgree
  <2>8. PackedFirst'
    <3>1. PackedTo' = PackedTo
      BY <2>1 DEF PackedTo, packVars
    <3>2. PackedTo < longer[1]
      <4>1. CASE piece = <<>>
        <5>1. longer[1] = f
          BY <1>4, <2>2, <2>4, <4>1
        <5>. QED
          BY <1>8, <5>1
      <4>2. CASE piece # <<>>
        <5>1. longer[1] = piece[1]
          BY <1>3, <2>2, <4>2, NonEmptyFacts
        <5>. QED
          BY <1>1, <4>2, <5>1 DEF PackedFirst
      <4>. QED
        BY <4>1, <4>2
    <3>3. piece'[1] = longer[1] /\ longer[1] + Len(piece') = f + 1 /\ Len(piece') \in Nat /\ f \in Nat
      <4>1. piece'[1] = longer[1] /\ Len(piece') = Len(piece) + 1
        BY <2>1, <2>2
      <4>2. longer[1] \in Nat /\ Len(piece) \in Nat /\ f = longer[1] + Len(piece)
        BY <2>2, <2>4
      <4>. HIDE DEF f
      <4>. QED
        BY <4>1, <4>2
    <3>. HIDE DEF f
    <3>. QED
      <4>1. piece' # <<>> => PackedTo' < piece'[1]
        BY <3>1, <3>2, <3>3
      <4>2. segment' # <<>> => PackedTo' < segment'[1]
        BY <1>5, <1>8, <1>10, <3>1, <3>3
      <4>3. ASSUME ~over' 
            PROVE  /\ ring' = <<>> /\ voiced' = <<>> /\ f + Len(segment) <= Len(audio') + 1
                   /\ PackedTo' <= Len(audio')
        BY <1>4, <1>8, <1>9, <3>1, <3>3, <4>3
      <4>4. ASSUME ~over', segment' # <<>>
            PROVE  segment'[1] + Len(segment') <= Len(audio') + 1
        BY <1>4, <1>5, <1>8, <1>10, <3>3, <4>3, <4>4
      <4>5. ASSUME ~over'
            PROVE  piece'[1] + Len(piece') <= Len(audio') + 1
        BY <1>4, <1>8, <3>3, <4>3, <4>5
      <4>6. PackedTo' + 0 = PackedTo' /\ Len(<<>>) = 0
        BY <1>8, <3>1
      <4>. QED
        BY <4>1, <4>2, <4>3, <4>4, <4>5, <4>6 DEF PackedFirst
  <2>. QED
    BY <2>5, <2>6, <2>7, <2>8 DEF VadInv
<1>. QED
  BY <1>6, <1>7

LEMMA CutRestKeeps ==
    ASSUME VadInv, NEW up \in BOOLEAN, CutRest(up)
    PROVE  VadInv'
<1>1. VadTypeOK /\ RunsGoOn /\ SumsAgree /\ Packing /\ PackedFirst
  BY PackingOfInv DEF VadInv
<1>2. /\ segment = <<>> /\ piece # <<>> /\ piece' = <<>> /\ Pack(piece, up)
      /\ UNCHANGED <<listenVars, over, segment, closed>>
  BY DEF CutRest
<1>3. piece \in Seq(Frame) /\ IsRun(piece) /\ Duration(piece) <= MaxTicks
  BY <1>1 DEF VadTypeOK, RunsGoOn, SumsAgree
<1>4. Packing' /\ PackedTo' = piece[Len(piece)]
  <2>1. PackedTo < piece[1]
    BY <1>1, <1>2 DEF PackedFirst
  <2>. QED
    BY <1>1, <1>2, <1>3, <2>1, PackKeeps
<1>5. <<>> \in Seq(Frame) /\ IsRun(<<>>) /\ Duration(<<>>) <= MaxTicks
  BY EmptyFacts, Durations, VadAssumption DEF IsRun
<1>6. VadTypeOK'
  BY <1>1, <1>2, <1>4, <1>5 DEF VadTypeOK, Packing, listenVars
<1>7. RunsGoOn'
  BY <1>1, <1>2, <1>5 DEF RunsGoOn, listenVars
<1>8. SumsAgree'
  BY <1>2, <1>4, <1>5 DEF SumsAgree, Packing
<1>9. PackedFirst'
  <2>1. /\ Len(piece) \in Nat \ {0} /\ piece[1] \in Nat
        /\ PackedTo' = piece[1] + Len(piece) - 1 /\ Len(audio) \in Nat
    BY <1>1, <1>2, <1>3, <1>4, RunEnds DEF VadTypeOK
  <2>2. ~over => ring = <<>> /\ voiced = <<>> /\ piece[1] + Len(piece) <= Len(audio) + 1
    BY <1>1, <1>2 DEF PackedFirst
  <2>. QED
    BY <1>2, <2>1, <2>2 DEF PackedFirst, listenVars
<1>. QED
  BY <1>6, <1>7, <1>8, <1>9 DEF VadInv

LEMMA CloseKeeps ==
    ASSUME VadInv, Close
    PROVE  VadInv'
<1>1. VadTypeOK /\ RunsGoOn /\ SumsAgree /\ Packing
  BY PackingOfInv DEF VadInv
<1>2. /\ over /\ segment = <<>> /\ piece = <<>> /\ closed' = TRUE /\ chunk' = <<>> /\ packed' = 0
      /\ chunks' = IF chunk = <<>> THEN chunks ELSE Append(chunks, chunk)
      /\ UNCHANGED <<listenVars, over, segment, piece>>
  BY DEF Close
<1>3. chunk # <<>> =>
        /\ Append(chunks, chunk) \in Seq(Seq(Placed))
        /\ \A k \in DOMAIN Append(chunks, chunk) : Writable(Append(chunks, chunk)[k])
  BY <1>1, WrittenFit
<1>4. chunks' \in Seq(Seq(Placed)) /\ \A k \in DOMAIN chunks' : Writable(chunks'[k])
  BY <1>1, <1>2, <1>3 DEF Packing
<1>5. <<>> \in Seq(Placed) /\ Fits(<<>>)
  BY EmptyFacts DEF Fits
<1>6. VadTypeOK'
  <2>1. audio' = audio /\ triggered' = triggered /\ ring' = ring /\ voiced' = voiced
    BY <1>2 DEF listenVars
  <2>. QED
    BY <1>1, <1>2, <1>4, <1>5, <2>1 DEF VadTypeOK
<1>7. RunsGoOn'
  BY <1>1, <1>2 DEF RunsGoOn, listenVars
<1>8. SumsAgree'
  BY <1>1, <1>2, <1>4, <1>5 DEF SumsAgree
<1>9. PackedFirst'
  BY <1>2 DEF PackedFirst
<1>. QED
  BY <1>6, <1>7, <1>8, <1>9 DEF VadInv

\* What led to the chunks goes with the process that made them.
LEMMA StoreKeeps ==
    ASSUME VadInv, Store
    PROVE  VadInv'
<1>1. VadTypeOK /\ RunsGoOn /\ SumsAgree /\ PackedFirst
  BY DEF VadInv
<1>2. /\ closed /\ audio' = <<>> /\ triggered' = FALSE /\ ring' = <<>> /\ chunks' = <<>>
      /\ UNCHANGED <<voiced, over, segment, piece, chunk, packed, closed>>
  BY DEF Store
<1>3. <<>> \in Seq(BOOLEAN) /\ <<>> \in Seq(Frame) /\ <<>> \in Seq(Seq(Placed)) /\ EndsAt(<<>>, 0)
  BY EmptyFacts DEF EndsAt
<1>4. voiced = <<>>
  BY <1>1, <1>2 DEF RunsGoOn, VadTypeOK
<1>5. VadTypeOK'
  BY <1>1, <1>2, <1>3 DEF VadTypeOK
<1>6. RunsGoOn'
  <2>1. Len(audio') = 0
    BY <1>2
  <2>. QED
    BY <1>1, <1>2, <1>3, <1>4, <2>1 DEF RunsGoOn
<1>7. SumsAgree'
  <2>1. \A k \in DOMAIN chunks' : Writable(chunks'[k])
    BY <1>2, EmptyFacts
  <2>. QED
    BY <1>1, <1>2, <2>1 DEF SumsAgree
<1>8. PackedFirst'
  BY <1>1, <1>2 DEF PackedFirst, PackedTo, RunsGoOn
<1>. QED
  BY <1>5, <1>6, <1>7, <1>8 DEF VadInv

-----------------------------------------------------------------------------
(* The theorems.                                                           *)

LEMMA VadInvStarts == Init => VadInv
<1>. SUFFICES ASSUME Init PROVE VadInv
  OBVIOUS
<1>1. /\ audio = <<>> /\ triggered = FALSE /\ ring = <<>> /\ voiced = <<>>
      /\ over = FALSE /\ segment = <<>> /\ piece = <<>>
      /\ chunk = <<>> /\ packed = 0 /\ chunks = <<>> /\ closed = FALSE
  BY DEF Init, VadInit
<1>2. Fits(<<>>) /\ EndsAt(<<>>, 0) /\ IsRun(<<>>) /\ Duration(<<>>) <= MaxTicks
  BY EmptyFacts, Durations, VadAssumption DEF Fits, EndsAt, IsRun
<1>3. VadTypeOK
  BY <1>1, EmptyFacts DEF VadTypeOK
<1>4. RunsGoOn
  BY <1>1, <1>2 DEF RunsGoOn
<1>5. SumsAgree
  BY <1>1, <1>2, EmptyFacts DEF SumsAgree
<1>6. PackedFirst
  BY <1>1 DEF PackedFirst, PackedTo
<1>. QED
  BY <1>3, <1>4, <1>5, <1>6 DEF VadInv

LEMMA VadInvStays == VadInv /\ [Next]_vars => VadInv'
<1>. SUFFICES ASSUME VadInv, [Next]_vars PROVE VadInv'
  OBVIOUS
<1>1. CASE UNCHANGED vadVars
  BY <1>1 DEF vadVars, listenVars, packVars, VadInv, VadTypeOK, RunsGoOn, SumsAgree,
              PackedFirst, PackedTo
<1>2. CASE Split
  BY <1>2, ListenKeeps, EndOfAudioKeeps, CutFrameKeeps, CutRestKeeps, CloseKeeps
     DEF Split, VadNext
<1>3. CASE Store
  BY <1>3, StoreKeeps
<1>. QED
  BY <1>1, <1>2, <1>3 DEF Next, Recognize, NextChunk, Sort, vars

\* The invariant of cutting and packing.
THEOREM SpecVadInv == Spec => []VadInv
  BY VadInvStarts, VadInvStays, PTL DEF Spec

LEMMA ChunksFit == ASSUME VadInv PROVE \A c \in Chunks : Fits(c)
<1>1. chunks \in Seq(Seq(Placed)) /\ Fits(chunk) /\ \A k \in DOMAIN chunks : Writable(chunks[k])
  BY DEF VadInv, VadTypeOK, SumsAgree
<1>. QED
  BY <1>1 DEF Chunks, Range, Writable

\* No chunk is longer than the limit, for every audio, every limit of at least a
\* frame, and every way the float sums may round (vad.py:155, 178, 209-213).
THEOREM ChunksKeepLimit == Spec => []ChunksWithinLimit
<1>1. VadInv => ChunksWithinLimit
  BY ChunksFit DEF ChunksWithinLimit, Fits
<1>. QED
  BY <1>1, SpecVadInv, PTL

\* Every piece is an unbroken run of source frames, placed one gap behind the piece
\* before it (vad.py:206-221).
THEOREM PiecesPlacedExactly == Spec => []PiecesAreExact
<1>1. VadInv => PiecesAreExact
  BY ChunksFit DEF PiecesAreExact, Fits
<1>. QED
  BY <1>1, SpecVadInv, PTL

-----------------------------------------------------------------------------
(* Mapping back.                                                           *)

LEMMA Distribution ==
    \A n, k \in Nat : FrameTicks * (n + k) = FrameTicks * n + FrameTicks * k
  BY VadAssumption

LEMMA ProductsGrow == \A n, k \in Nat : n <= k => FrameTicks * n <= FrameTicks * k
<1>. SUFFICES ASSUME NEW n \in Nat, NEW k \in Nat, n <= k PROVE FrameTicks * n <= FrameTicks * k
  OBVIOUS
<1>1. k - n \in Nat /\ k = n + (k - n)
  OBVIOUS
<1>2. FrameTicks * k = FrameTicks * n + FrameTicks * (k - n)
  BY <1>1, Distribution
<1>3. FrameTicks * n \in Nat /\ FrameTicks * (k - n) \in Nat
  BY <1>1, Products
<1>. QED
  BY <1>2, <1>3

\* The length of a piece is the same in the chunk and in the source.
LEMMA MappingFacts ==
    ASSUME NEW p \in Placed, p.frames # <<>>, IsRun(p.frames)
    PROVE  LET m == SourceMapping(p) IN
           /\ m.chunkStart = p.at /\ m.chunkEnd = PlacedEnd(p)
           /\ m.chunkStart \in Nat /\ m.chunkEnd \in Nat
           /\ m.sourceStart \in Nat /\ m.sourceEnd \in Nat
           /\ m.sourceEnd - m.sourceStart = m.chunkEnd - m.chunkStart
           /\ m.chunkStart < m.chunkEnd
           /\ m.sourceStart = FrameTicks * (p.frames[1] - 1)
           /\ m.sourceEnd = FrameTicks * p.frames[Len(p.frames)]
<1>. DEFINE n == Len(p.frames)
            h == p.frames[1] - 1
            m == SourceMapping(p)
<1>1. /\ p.at \in Nat /\ p.frames \in Seq(Frame) /\ PlacedEnd(p) \in Nat
      /\ PlacedEnd(p) = p.at + Duration(p.frames)
  BY PlacedEnds
<1>2. /\ n \in Nat \ {0} /\ h \in Nat /\ p.frames[n] = h + n
      /\ Head(p.frames) = p.frames[1] /\ Last(p.frames) = p.frames[n]
  <2>1. n \in DOMAIN p.frames /\ n \in Nat \ {0} /\ p.frames[1] \in Nat \ {0}
    BY <1>1, NonEmptyFacts DEF Frame
  <2>2. p.frames[n] = p.frames[1] + n - 1
    BY <2>1 DEF IsRun
  <2>. QED
    BY <1>1, <2>1, <2>2, SMTT(60) DEF Last
<1>3. /\ m.chunkStart = p.at /\ m.chunkEnd = PlacedEnd(p)
      /\ m.sourceStart = FrameTicks * (Head(p.frames) - 1)
      /\ m.sourceEnd = FrameTicks * Last(p.frames)
  BY DEF SourceMapping
<1>4. m.sourceStart = FrameTicks * h /\ m.sourceEnd = FrameTicks * p.frames[n]
  BY <1>2, <1>3
<1>5. Duration(p.frames) = FrameTicks * n
  BY DEF Duration
<1>. HIDE DEF n, h, m
<1>6. FrameTicks * h \in Nat /\ FrameTicks * n \in Nat /\ FrameTicks * n > 0
  <2>1. n - 1 \in Nat /\ n = (n - 1) + 1
    BY <1>2
  <2>2. FrameTicks * n = FrameTicks * (n - 1) + FrameTicks /\ FrameTicks * (n - 1) \in Nat
    BY <2>1, Products
  <2>. QED
    BY <1>2, <2>2, Products, VadAssumption
<1>7. FrameTicks * (h + n) = FrameTicks * h + FrameTicks * n
  BY <1>2, Distribution
<1>8. m.sourceEnd = FrameTicks * h + FrameTicks * n
  BY <1>2, <1>4, <1>7
<1>. DEFINE fh == FrameTicks * h
            fn == FrameTicks * n
<1>9. /\ fh \in Nat /\ fn \in Nat /\ fn > 0 /\ m.sourceStart = fh /\ m.sourceEnd = fh + fn
      /\ m.chunkEnd = p.at + fn
  BY <1>1, <1>3, <1>4, <1>5, <1>6, <1>8
<1>. HIDE DEF fh, fn
<1>10. /\ m.chunkStart \in Nat /\ m.chunkEnd \in Nat
       /\ m.sourceStart \in Nat /\ m.sourceEnd \in Nat
       /\ m.sourceEnd - m.sourceStart = m.chunkEnd - m.chunkStart
       /\ m.chunkStart < m.chunkEnd
  BY <1>1, <1>3, <1>9, SMTT(60)
<1>. QED
  BY <1>3, <1>4, <1>10 DEF m, h, n

MappingsOf(c) == [i \in DOMAIN c |-> SourceMapping(c[i])]

LEMMA MappingsFacts ==
    ASSUME NEW c \in Seq(Placed), Fits(c)
    PROVE  LET ms == MappingsOf(c) IN
           /\ DOMAIN ms = 1..Len(c) /\ Len(ms) = Len(c) /\ Len(c) \in Nat
           /\ \A i \in 1..Len(c) :
                /\ ms[i] = SourceMapping(c[i])
                /\ ms[i].chunkStart \in Nat /\ ms[i].chunkEnd \in Nat
                /\ ms[i].sourceStart \in Nat /\ ms[i].sourceEnd \in Nat
                /\ ms[i].sourceEnd - ms[i].sourceStart = ms[i].chunkEnd - ms[i].chunkStart
                /\ ms[i].chunkStart < ms[i].chunkEnd
                /\ \A j \in 1..(i - 1) : /\ ms[j].chunkEnd + GapTicks <= ms[i].chunkStart
                                         /\ ms[j].sourceEnd <= ms[i].sourceStart
                /\ i = 1 => ms[i].chunkStart = 0
<1>. DEFINE ms == MappingsOf(c)
<1>1. DOMAIN c = 1..Len(c) /\ Len(c) \in Nat /\ \A i \in 1..Len(c) : c[i] \in Placed
  BY NonEmptyFacts
<1>2. ms \in Seq(Range(ms)) /\ DOMAIN ms = 1..Len(c) /\ Len(ms) = Len(c)
  BY <1>1 DEF MappingsOf, Range
<1>3. \A i \in 1..Len(c) : ms[i] = SourceMapping(c[i])
  BY <1>1 DEF MappingsOf
<1>. HIDE DEF ms
<1>4. ASSUME NEW i \in 1..Len(c)
      PROVE  /\ ms[i].chunkStart = c[i].at /\ ms[i].chunkEnd = PlacedEnd(c[i])
             /\ ms[i].chunkStart \in Nat /\ ms[i].chunkEnd \in Nat
             /\ ms[i].sourceStart \in Nat /\ ms[i].sourceEnd \in Nat
             /\ ms[i].sourceEnd - ms[i].sourceStart = ms[i].chunkEnd - ms[i].chunkStart
             /\ ms[i].chunkStart < ms[i].chunkEnd
             /\ ms[i].sourceStart = FrameTicks * (c[i].frames[1] - 1)
             /\ ms[i].sourceEnd = FrameTicks * LastFrame(c[i])
  <2>1. c[i].frames # <<>> /\ IsRun(c[i].frames)
    BY <1>1 DEF Fits
  <2>. QED
    BY <1>1, <1>3, <2>1, MappingFacts DEF LastFrame
<1>5. ASSUME NEW i \in 1..Len(c), NEW j \in 1..(i - 1)
      PROVE  ms[j].chunkEnd + GapTicks <= ms[i].chunkStart
  <2>1. PlacedEnd(c[j]) + GapTicks <= c[i].at /\ j \in 1..Len(c)
    BY <1>1 DEF Fits
  <2>. QED
    BY <1>4, <2>1
<1>6. ASSUME NEW i \in 1..Len(c), NEW j \in 1..(i - 1)
      PROVE  ms[j].sourceEnd <= ms[i].sourceStart
  <2>1. /\ LastFrame(c[j]) < c[i].frames[1] /\ j \in 1..Len(c)
        /\ c[j].frames # <<>> /\ IsRun(c[j].frames)
        /\ c[i].frames # <<>> /\ IsRun(c[i].frames)
    BY <1>1 DEF Fits
  <2>2. LastFrame(c[j]) \in Nat /\ c[i].frames[1] \in Nat
    BY <1>1, <2>1, RunGrows
  <2>3. c[i].frames[1] - 1 \in Nat /\ LastFrame(c[j]) <= c[i].frames[1] - 1
    BY <2>1, <2>2
  <2>. QED
    BY <1>4, <2>1, <2>2, <2>3, ProductsGrow
<1>7. ASSUME NEW i \in 1..Len(c), i = 1 PROVE ms[i].chunkStart = 0
  BY <1>1, <1>4, <1>7 DEF Fits, PlaceOf
<1>. QED
  BY <1>1, <1>2, <1>3, <1>4, <1>5, <1>6, <1>7 DEF ms

LEMMA OnePieceCovers ==
    ASSUME GapTicks > 0, NEW c \in Seq(Placed), Fits(c),
           NEW i \in DOMAIN c,
           NEW t \in SourceMapping(c[i]).chunkStart..SourceMapping(c[i]).chunkEnd
    PROVE  MapChunkTime(t, MappingsOf(c))
             = SourceMapping(c[i]).sourceStart + (t - SourceMapping(c[i]).chunkStart)
<1>. DEFINE ms == MappingsOf(c)
            n == Len(ms)
            decides == {k \in 1..n : Covers(ms[k], t) \/ (k > 1 /\ t < ms[k].chunkStart)}
<1>1. /\ n = Len(c) /\ n \in Nat
      /\ \A k \in 1..n :
           /\ ms[k] = SourceMapping(c[k])
           /\ ms[k].chunkStart \in Nat /\ ms[k].chunkEnd \in Nat
           /\ ms[k].sourceStart \in Nat /\ ms[k].sourceEnd \in Nat
           /\ ms[k].sourceEnd - ms[k].sourceStart = ms[k].chunkEnd - ms[k].chunkStart
           /\ ms[k].chunkStart < ms[k].chunkEnd
           /\ \A j \in 1..(k - 1) : ms[j].chunkEnd + GapTicks <= ms[k].chunkStart
  BY MappingsFacts
<1>2. i \in 1..n /\ n # 0
  BY <1>1, NonEmptyFacts
<1>. HIDE DEF ms, n
<1>3. /\ ms[i] = SourceMapping(c[i]) /\ ms[i].chunkStart \in Nat /\ ms[i].chunkEnd \in Nat
      /\ ms[i].sourceStart \in Nat /\ ms[i].sourceEnd \in Nat
      /\ ms[i].sourceEnd - ms[i].sourceStart = ms[i].chunkEnd - ms[i].chunkStart
  BY <1>1, <1>2
<1>4. t \in Nat /\ ms[i].chunkStart <= t /\ t <= ms[i].chunkEnd
  BY <1>3
<1>5. i \in decides
  BY <1>2, <1>4 DEF Covers
<1>6. ASSUME NEW j \in decides PROVE i <= j
  <2>1. SUFFICES ASSUME j < i PROVE FALSE
    BY <1>1, <1>2
  <2>2. j \in 1..n /\ j \in 1..(i - 1)
    BY <1>1, <1>2, <2>1
  <2>3. ms[j].chunkEnd + GapTicks <= ms[i].chunkStart /\ ms[j].chunkStart < ms[j].chunkEnd
        /\ ms[j].chunkStart \in Nat /\ ms[j].chunkEnd \in Nat
    BY <1>1, <1>2, <2>2
  <2>4. t > ms[j].chunkEnd /\ t > ms[j].chunkStart
    BY <1>3, <1>4, <2>3, VadAssumption, SMTT(60)
  <2>. QED
    BY <2>3, <2>4, <1>4 DEF Covers
<1>7. \A k \in decides : (\A j \in decides : k <= j) => k = i
  BY <1>1, <1>2, <1>5, <1>6
<1>8. (CHOOSE k \in decides : \A j \in decides : k <= j) = i
  BY <1>5, <1>6, <1>7
<1>9. MapChunkTime(t, ms) = InPiece(ms[i], t)
  <2>1. decides # {} /\ Covers(ms[i], t)
    BY <1>4, <1>5 DEF Covers
  <2>. QED
    BY <1>2, <1>8, <2>1 DEF MapChunkTime, n
<1>10. InPiece(ms[i], t) = ms[i].sourceStart + (t - ms[i].chunkStart)
  BY <1>3, <1>4 DEF InPiece, Smaller
<1>. QED
  BY <1>3, <1>9, <1>10 DEF ms

LEMMA LeastExists ==
    ASSUME NEW S \in SUBSET Nat, S # {}
    PROVE  \E n \in S : \A k \in S : n <= k
<1>. DEFINE less == OpToRel(<, Nat)
<1>1. IsWellFoundedOn(less, Nat)
  BY NatLessThanWellFounded
<1>2. \A x, y \in Nat : <<x, y>> \in less <=> x < y
  BY DEF OpToRel
<1>. HIDE DEF less
<1>3. PICK n \in S : \A k \in S : ~(<<k, n>> \in less)
  BY <1>1, WFMin
<1>4. ASSUME NEW k \in S PROVE n <= k
  <2>1. n \in Nat /\ k \in Nat
    OBVIOUS
  <2>2. ~(k < n)
    BY <1>2, <1>3, <2>1
  <2>. QED
    BY <2>1, <2>2
<1>. QED
  BY <1>4

\* Mappings that lie behind one another in the chunk and in the source.
Orderly(ms) ==
    /\ Len(ms) \in Nat \ {0}
    /\ \A i \in 1..Len(ms) :
          /\ ms[i].chunkStart \in Nat /\ ms[i].chunkEnd \in Nat
          /\ ms[i].sourceStart \in Nat /\ ms[i].sourceEnd \in Nat
          /\ ms[i].sourceEnd - ms[i].sourceStart = ms[i].chunkEnd - ms[i].chunkStart
          /\ ms[i].chunkStart < ms[i].chunkEnd
          /\ \A j \in 1..(i - 1) : /\ ms[j].chunkEnd <= ms[i].chunkStart
                                   /\ ms[j].sourceEnd <= ms[i].sourceStart
          /\ i = 1 => ms[i].chunkStart = 0

\* A time belongs to the first mapping it does not lie behind, or to the last one.
Belongs(t, ms, i) ==
    /\ i > 1 => ms[i - 1].chunkEnd < t
    /\ t <= ms[i].chunkEnd \/ i = Len(ms)

SourceOf(t, ms, i) ==
    IF t > ms[i].chunkEnd THEN ms[i].sourceEnd
    ELSE IF ms[i].chunkStart <= t THEN InPiece(ms[i], t)
    ELSE InGap(ms[i - 1], ms[i], t)

LEMMA Located ==
    ASSUME NEW ms, Orderly(ms), NEW t \in Nat
    PROVE  \E i \in 1..Len(ms) : Belongs(t, ms, i) /\ MapChunkTime(t, ms) = SourceOf(t, ms, i)
<1>. DEFINE n == Len(ms)
            decides == {k \in 1..n : Covers(ms[k], t) \/ (k > 1 /\ t < ms[k].chunkStart)}
            first == CHOOSE i \in decides : \A j \in decides : i <= j
<1>1. n \in Nat \ {0} /\ 1 \in 1..n /\ n \in 1..n
  BY DEF Orderly
<1>2. \A k \in 1..n :
        /\ ms[k].chunkStart \in Nat /\ ms[k].chunkEnd \in Nat
        /\ ms[k].chunkStart < ms[k].chunkEnd
        /\ \A j \in 1..(k - 1) : ms[j].chunkEnd <= ms[k].chunkStart
        /\ k = 1 => ms[k].chunkStart = 0
  BY DEF Orderly
<1>3. \A k \in 1..n : k \notin decides => ms[k].chunkEnd < t
  BY <1>2 DEF Covers
<1>4. MapChunkTime(t, ms) =
        IF decides # {}
          THEN IF Covers(ms[first], t) THEN InPiece(ms[first], t)
               ELSE InGap(ms[first - 1], ms[first], t)
          ELSE IF t < ms[1].chunkStart THEN ms[1].sourceStart ELSE ms[n].sourceEnd
  BY <1>1 DEF MapChunkTime
<1>. HIDE DEF n
<1>5. CASE decides = {}
  <2>1. \A k \in 1..n : ms[k].chunkEnd < t
    BY <1>3, <1>5
  <2>2. n > 1 => n - 1 \in 1..n
    BY <1>1
  <2>3. n > 1 => ms[n - 1].chunkEnd < t
    BY <2>1, <2>2
  <2>4. Belongs(t, ms, n)
    BY <2>3 DEF Belongs, n
  <2>5. t > ms[n].chunkEnd /\ ~(t < ms[1].chunkStart)
    BY <1>1, <1>2, <2>1
  <2>6. MapChunkTime(t, ms) = SourceOf(t, ms, n)
    BY <1>4, <1>5, <2>5 DEF SourceOf
  <2>. QED
    BY <1>1, <2>4, <2>6 DEF n
<1>6. CASE decides # {}
  <2>1. decides \in SUBSET Nat
    BY <1>1
  <2>2. \E i \in decides : \A j \in decides : i <= j
    BY <1>6, <2>1, LeastExists
  <2>3. first \in decides /\ \A j \in decides : first <= j
    BY <2>2
  <2>. HIDE DEF first
  <2>4. first \in 1..n /\ (Covers(ms[first], t) \/ (first > 1 /\ t < ms[first].chunkStart))
    BY <2>3
  <2>5. first > 1 => ms[first - 1].chunkEnd < t
    <3>1. SUFFICES ASSUME first > 1 PROVE ms[first - 1].chunkEnd < t
      OBVIOUS
    <3>2. first - 1 \in 1..n /\ ~(first <= first - 1)
      BY <1>1, <2>4, <3>1
    <3>3. first - 1 \notin decides
      BY <2>3, <3>2
    <3>. QED
      BY <1>3, <3>2, <3>3
  <2>. HIDE DEF decides
  <2>6. t <= ms[first].chunkEnd /\ ms[first].chunkStart \in Nat /\ ms[first].chunkEnd \in Nat
    BY <1>2, <2>4 DEF Covers
  <2>7. Belongs(t, ms, first)
    BY <2>5, <2>6 DEF Belongs
  <2>8. MapChunkTime(t, ms) = SourceOf(t, ms, first)
    <3>1. Covers(ms[first], t) <=> ms[first].chunkStart <= t
      BY <2>6 DEF Covers
    <3>2. ~(t > ms[first].chunkEnd)
      BY <2>6
    <3>. QED
      BY <1>4, <1>6, <3>1, <3>2 DEF SourceOf
  <2>. QED
    BY <2>4, <2>7, <2>8 DEF n
<1>. QED
  BY <1>5, <1>6

\* Between the end of the mapping before and the end of its own.
LEMMA SourceBounds ==
    ASSUME NEW ms, Orderly(ms), NEW t \in Nat, NEW i \in 1..Len(ms), Belongs(t, ms, i)
    PROVE  /\ SourceOf(t, ms, i) \in Nat
           /\ SourceOf(t, ms, i) <= ms[i].sourceEnd
           /\ i > 1 => ms[i - 1].sourceEnd <= SourceOf(t, ms, i)
           /\ i = 1 => ms[1].sourceStart <= SourceOf(t, ms, i)
<1>1. /\ ms[i].chunkStart \in Nat /\ ms[i].chunkEnd \in Nat
      /\ ms[i].sourceStart \in Nat /\ ms[i].sourceEnd \in Nat
      /\ ms[i].sourceEnd - ms[i].sourceStart = ms[i].chunkEnd - ms[i].chunkStart
      /\ ms[i].chunkStart < ms[i].chunkEnd
      /\ i = 1 => ms[i].chunkStart = 0
      /\ i \in Nat \ {0}
  BY DEF Orderly
<1>2. i > 1 => /\ i - 1 \in 1..Len(ms) /\ i - 1 \in 1..(i - 1)
  BY <1>1
<1>3. i > 1 => /\ ms[i - 1].sourceEnd \in Nat /\ ms[i - 1].chunkEnd \in Nat
               /\ ms[i - 1].sourceEnd <= ms[i].sourceStart
  BY <1>2 DEF Orderly
<1>4. CASE t > ms[i].chunkEnd
  BY <1>1, <1>3, <1>4, SMTT(60) DEF SourceOf
<1>5. CASE ~(t > ms[i].chunkEnd) /\ ms[i].chunkStart <= t
  <2>1. SourceOf(t, ms, i) = ms[i].sourceStart + (t - ms[i].chunkStart)
    BY <1>1, <1>5 DEF SourceOf, InPiece, Smaller
  <2>. DEFINE v == SourceOf(t, ms, i)
  <2>2. v \in Nat /\ ms[i].sourceStart <= v /\ v <= ms[i].sourceEnd
    <3>. DEFINE d == t - ms[i].chunkStart
    <3>1. d \in Nat /\ d <= ms[i].chunkEnd - ms[i].chunkStart
      BY <1>1, <1>5
    <3>2. v = ms[i].sourceStart + d
      BY <2>1
    <3>. HIDE DEF v, d
    <3>. QED
      BY <1>1, <3>1, <3>2, SMTT(60)
  <2>. HIDE DEF v
  <2>3. i > 1 => ms[i - 1].sourceEnd <= v
    BY <1>1, <1>3, <2>2
  <2>4. i = 1 => ms[1].sourceStart <= v
    BY <2>2
  <2>. QED
    BY <2>2, <2>3, <2>4 DEF v
<1>6. CASE ~(t > ms[i].chunkEnd) /\ ~(ms[i].chunkStart <= t)
  <2>1. i > 1
    BY <1>1, <1>6
  <2>2. SourceOf(t, ms, i) \in {ms[i - 1].sourceEnd, ms[i].sourceStart}
    BY <1>6 DEF SourceOf, InGap
  <2>. QED
    BY <1>1, <1>3, <2>1, <2>2, SMTT(60)
<1>. QED
  BY <1>4, <1>5, <1>6

LEMMA EndsGrow ==
    ASSUME NEW ms, Orderly(ms), NEW i \in 1..Len(ms), NEW j \in 1..i
    PROVE  ms[j].sourceEnd <= ms[i].sourceEnd /\ ms[j].chunkEnd <= ms[i].chunkEnd
<1>1. /\ ms[i].chunkStart \in Nat /\ ms[i].chunkEnd \in Nat
      /\ ms[i].sourceStart \in Nat /\ ms[i].sourceEnd \in Nat
      /\ ms[i].sourceEnd - ms[i].sourceStart = ms[i].chunkEnd - ms[i].chunkStart
      /\ ms[i].chunkStart < ms[i].chunkEnd
  BY DEF Orderly
<1>2. j \in 1..Len(ms) /\ (j = i \/ j \in 1..(i - 1)) /\ Len(ms) \in Nat
  BY DEF Orderly
<1>3. ms[j].sourceEnd \in Nat /\ ms[j].chunkEnd \in Nat
  BY <1>2 DEF Orderly
<1>4. CASE j = i
  BY <1>1, <1>4
<1>5. CASE j \in 1..(i - 1)
  <2>1. ms[j].chunkEnd <= ms[i].chunkStart /\ ms[j].sourceEnd <= ms[i].sourceStart
    BY <1>5 DEF Orderly
  <2>. QED
    BY <1>1, <1>3, <2>1
<1>. QED
  BY <1>2, <1>4, <1>5

\* Inside one gap the nearer piece changes once, from the earlier to the later.
LEMMA GapKeepsOrder ==
    ASSUME NEW before, NEW after,
           before.sourceEnd \in Nat, before.chunkEnd \in Nat,
           after.sourceStart \in Nat, after.chunkStart \in Nat,
           before.sourceEnd <= after.sourceStart,
           NEW s \in Nat, NEW t \in Nat, s <= t
    PROVE  InGap(before, after, s) <= InGap(before, after, t)
<1>1. ASSUME NEW p \in Nat, NEW a \in Nat, t - p <= a - t
      PROVE  s - p <= a - s
  BY <1>1
<1>2. CASE t - before.chunkEnd <= after.chunkStart - t
  <2>1. s - before.chunkEnd <= after.chunkStart - s
    BY <1>1, <1>2
  <2>2. InGap(before, after, s) = before.sourceEnd /\ InGap(before, after, t) = before.sourceEnd
    BY <1>2, <2>1 DEF InGap
  <2>. QED
    BY <2>2
<1>3. CASE ~(t - before.chunkEnd <= after.chunkStart - t)
  <2>1. InGap(before, after, t) = after.sourceStart
    BY <1>3 DEF InGap
  <2>2. InGap(before, after, s) \in {before.sourceEnd, after.sourceStart}
    BY DEF InGap
  <2>. QED
    BY <2>1, <2>2
<1>. QED
  BY <1>2, <1>3

LEMMA OrderKept ==
    ASSUME NEW ms, Orderly(ms), NEW s \in Nat, NEW t \in Nat, s <= t,
           NEW i \in 1..Len(ms), Belongs(s, ms, i), NEW j \in 1..Len(ms), Belongs(t, ms, j)
    PROVE  SourceOf(s, ms, i) <= SourceOf(t, ms, j)
<1>1. /\ i \in Nat \ {0} /\ j \in Nat \ {0} /\ Len(ms) \in Nat
      /\ ms[i].chunkStart \in Nat /\ ms[i].chunkEnd \in Nat
      /\ ms[i].sourceStart \in Nat /\ ms[i].sourceEnd \in Nat
      /\ ms[i].sourceEnd - ms[i].sourceStart = ms[i].chunkEnd - ms[i].chunkStart
      /\ ms[j].sourceEnd \in Nat /\ ms[j].chunkEnd \in Nat
  BY DEF Orderly
<1>2. /\ SourceOf(s, ms, i) \in Nat /\ SourceOf(t, ms, j) \in Nat
      /\ SourceOf(s, ms, i) <= ms[i].sourceEnd
      /\ j > 1 => ms[j - 1].sourceEnd <= SourceOf(t, ms, j)
  BY SourceBounds
<1>3. CASE i < j
  <2>1. j - 1 \in 1..Len(ms) /\ i \in 1..(j - 1) /\ j > 1
    BY <1>1, <1>3, SMTT(60)
  <2>2. ms[i].sourceEnd <= ms[j - 1].sourceEnd
    BY <2>1, EndsGrow
  <2>3. ms[j - 1].sourceEnd \in Nat
    BY <2>1 DEF Orderly
  <2>. QED
    BY <1>1, <1>2, <2>1, <2>2, <2>3, SMTT(60)
<1>4. CASE j < i
  <2>1. i - 1 \in 1..Len(ms) /\ j \in 1..(i - 1) /\ i > 1 /\ j # Len(ms)
    BY <1>1, <1>4, SMTT(60)
  <2>2. ms[j].chunkEnd <= ms[i - 1].chunkEnd /\ ms[i - 1].chunkEnd \in Nat
    BY <2>1, EndsGrow DEF Orderly
  <2>3. ms[i - 1].chunkEnd < s /\ t <= ms[j].chunkEnd
    BY <2>1 DEF Belongs
  <2>. QED
    BY <1>1, <2>2, <2>3
<1>5. CASE i = j
  <2>1. i > 1 => /\ ms[i - 1].sourceEnd \in Nat /\ ms[i - 1].chunkEnd \in Nat
                 /\ ms[i - 1].sourceEnd <= ms[i].sourceStart
    <3>1. i > 1 => i - 1 \in 1..Len(ms) /\ i - 1 \in 1..(i - 1)
      BY <1>1, SMTT(60)
    <3>. QED
      BY <3>1 DEF Orderly
  <2>2. i = 1 => ms[i].chunkStart = 0
    BY DEF Orderly
  <2>3. CASE s < ms[i].chunkStart
    <3>1. i > 1
      BY <1>1, <2>2, <2>3
    <3>2. SourceOf(s, ms, i) = InGap(ms[i - 1], ms[i], s)
      <4>1. ~(s > ms[i].chunkEnd) /\ ~(ms[i].chunkStart <= s)
        BY <1>1, <2>3 DEF Orderly
      <4>. QED
        BY <4>1 DEF SourceOf
    <3>3. CASE t < ms[i].chunkStart
      <4>1. ~(t > ms[i].chunkEnd) /\ ~(ms[i].chunkStart <= t)
        BY <1>1, <3>3 DEF Orderly
      <4>2. SourceOf(t, ms, j) = InGap(ms[i - 1], ms[i], t)
        BY <1>5, <4>1 DEF SourceOf
      <4>. DEFINE before == ms[i - 1]
                  after == ms[i]
      <4>3. /\ before.sourceEnd \in Nat /\ before.chunkEnd \in Nat
            /\ after.sourceStart \in Nat /\ after.chunkStart \in Nat
            /\ before.sourceEnd <= after.sourceStart
        BY <1>1, <2>1, <3>1
      <4>. HIDE DEF before, after
      <4>4. InGap(before, after, s) <= InGap(before, after, t)
        BY <4>3, GapKeepsOrder
      <4>. QED
        BY <3>2, <4>2, <4>4 DEF before, after
    <3>4. CASE t >= ms[i].chunkStart
      <4>1. SourceOf(s, ms, i) <= ms[i].sourceStart
        BY <1>1, <2>1, <3>1, <3>2 DEF InGap
      <4>2. ms[i].sourceStart <= SourceOf(t, ms, j)
        BY <1>1, <1>5, <3>4, SMTT(60) DEF SourceOf, InPiece, Smaller, Orderly
      <4>. QED
        BY <1>1, <1>2, <4>1, <4>2
    <3>. QED
      BY <1>1, <3>3, <3>4
  <2>4. CASE s >= ms[i].chunkStart
    <3>1. t >= ms[i].chunkStart
      BY <1>1, <2>4
    <3>2. \A x \in Nat : x >= ms[i].chunkStart => SourceOf(x, ms, i) =
            IF x > ms[i].chunkEnd THEN ms[i].sourceEnd
            ELSE Smaller(ms[i].sourceStart + (x - ms[i].chunkStart), ms[i].sourceEnd)
      BY <1>1 DEF SourceOf, InPiece
    <3>3. SourceOf(s, ms, i) <= SourceOf(t, ms, i)
      <4>. DEFINE m == ms[i]
      <4>1. /\ m.chunkStart \in Nat /\ m.chunkEnd \in Nat
            /\ m.sourceStart \in Nat /\ m.sourceEnd \in Nat
            /\ m.sourceEnd - m.sourceStart = m.chunkEnd - m.chunkStart
        BY <1>1
      <4>2. /\ SourceOf(s, ms, i) = IF s > m.chunkEnd THEN m.sourceEnd
              ELSE Smaller(m.sourceStart + (s - m.chunkStart), m.sourceEnd)
            /\ SourceOf(t, ms, i) = IF t > m.chunkEnd THEN m.sourceEnd
              ELSE Smaller(m.sourceStart + (t - m.chunkStart), m.sourceEnd)
            /\ s >= m.chunkStart /\ t >= m.chunkStart
        BY <2>4, <3>1, <3>2
      <4>. HIDE DEF m
      <4>. QED
        BY <4>1, <4>2, SMTT(60) DEF Smaller
    <3>. QED
      BY <1>5, <3>3
  <2>. QED
    BY <1>1, <2>3, <2>4
<1>. QED
  BY <1>1, <1>3, <1>4, <1>5

LEMMA MappingsOrderly ==
    ASSUME NEW c \in Seq(Placed), c # <<>>, Fits(c)
    PROVE  Orderly(MappingsOf(c))
<1>. DEFINE ms == MappingsOf(c)
<1>1. Len(c) \in Nat \ {0}
  BY NonEmptyFacts
<1>2. Len(ms) = Len(c)
  BY MappingsFacts
<1>3. ASSUME NEW i \in 1..Len(c)
      PROVE  /\ ms[i].chunkStart \in Nat /\ ms[i].chunkEnd \in Nat
             /\ ms[i].sourceStart \in Nat /\ ms[i].sourceEnd \in Nat
             /\ ms[i].sourceEnd - ms[i].sourceStart = ms[i].chunkEnd - ms[i].chunkStart
             /\ ms[i].chunkStart < ms[i].chunkEnd
             /\ \A j \in 1..(i - 1) : /\ ms[j].chunkEnd + GapTicks <= ms[i].chunkStart
                                      /\ ms[j].sourceEnd <= ms[i].sourceStart
             /\ i = 1 => ms[i].chunkStart = 0
  BY MappingsFacts
<1>. HIDE DEF ms
<1>4. ASSUME NEW i \in 1..Len(c), NEW j \in 1..(i - 1)
      PROVE  ms[j].chunkEnd <= ms[i].chunkStart
  <2>1. j \in 1..Len(c)
    BY <1>1
  <2>2. /\ ms[j].chunkEnd \in Nat /\ ms[i].chunkStart \in Nat
        /\ ms[j].chunkEnd + GapTicks <= ms[i].chunkStart
    BY <1>3, <2>1
  <2>. QED
    BY <2>2, VadAssumption
<1>5. Orderly(ms)
  BY <1>1, <1>2, <1>3, <1>4 DEF Orderly
<1>. QED
  BY <1>5 DEF ms

LEMMA MappingsAre ==
    ASSUME VadInv, NEW mappings \in Range(Mappings)
    PROVE  \E c \in Seq(Placed) : c # <<>> /\ Fits(c) /\ mappings = MappingsOf(c)
<1>1. chunks \in Seq(Seq(Placed)) /\ \A k \in DOMAIN chunks : Writable(chunks[k])
  BY DEF VadInv, VadTypeOK, SumsAgree
<1>2. PICK k \in DOMAIN chunks : mappings = MappingsOf(chunks[k])
  BY DEF Range, Mappings, MappingsOf
<1>3. chunks[k] \in Seq(Placed) /\ chunks[k] # <<>> /\ Fits(chunks[k])
  BY <1>1, <1>2, NonEmptyFacts DEF Writable
<1>. QED
  BY <1>2, <1>3

\* Whatever the mappings are, mapping stays between the first start and the last end
\* and keeps the order of times.
LEMMA MapFacts ==
    ASSUME NEW ms, Orderly(ms), NEW t \in Nat
    PROVE  /\ MapChunkTime(t, ms) \in Nat
           /\ ms[1].sourceStart <= MapChunkTime(t, ms)
           /\ MapChunkTime(t, ms) <= ms[Len(ms)].sourceEnd
           /\ \A s \in Nat : s <= t => MapChunkTime(s, ms) <= MapChunkTime(t, ms)
<1>. DEFINE n == Len(ms)
<1>1. PICK j \in 1..n : Belongs(t, ms, j) /\ MapChunkTime(t, ms) = SourceOf(t, ms, j)
  BY Located
<1>2. n \in Nat \ {0} /\ j \in Nat /\ 1 <= j /\ j <= n
  BY DEF Orderly
<1>3. /\ SourceOf(t, ms, j) \in Nat /\ SourceOf(t, ms, j) <= ms[j].sourceEnd
      /\ j > 1 => ms[j - 1].sourceEnd <= SourceOf(t, ms, j)
      /\ j = 1 => ms[1].sourceStart <= SourceOf(t, ms, j)
  BY <1>1, SourceBounds
<1>4. \A i \in 1..n : ms[i].sourceStart \in Nat /\ ms[i].sourceEnd \in Nat
                      /\ ms[i].sourceStart <= ms[i].sourceEnd
  <2>1. ASSUME NEW i \in 1..n
        PROVE  /\ ms[i].sourceStart \in Nat /\ ms[i].sourceEnd \in Nat
               /\ ms[i].sourceStart <= ms[i].sourceEnd
    <3>1. /\ ms[i].chunkStart \in Nat /\ ms[i].chunkEnd \in Nat
          /\ ms[i].sourceStart \in Nat /\ ms[i].sourceEnd \in Nat
          /\ ms[i].sourceEnd - ms[i].sourceStart = ms[i].chunkEnd - ms[i].chunkStart
          /\ ms[i].chunkStart < ms[i].chunkEnd
      BY DEF Orderly
    <3>. QED
      BY <3>1, SMTT(60)
  <2>. QED
    BY <2>1
<1>5. ms[1].sourceStart <= SourceOf(t, ms, j)
  <2>1. CASE j > 1
    <3>1. j - 1 \in 1..n /\ 1 \in 1..(j - 1) /\ 1 \in 1..n
      BY <1>2, <2>1
    <3>2. ms[1].sourceEnd <= ms[j - 1].sourceEnd
      BY <3>1, EndsGrow
    <3>3. ms[1].sourceStart \in Nat /\ ms[1].sourceEnd \in Nat
          /\ ms[1].sourceStart <= ms[1].sourceEnd /\ ms[j - 1].sourceEnd \in Nat
      BY <1>4, <3>1
    <3>. QED
      BY <1>3, <2>1, <3>2, <3>3
  <2>. QED
    BY <1>2, <1>3, <2>1
<1>6. SourceOf(t, ms, j) <= ms[n].sourceEnd
  <2>1. n \in 1..n /\ j \in 1..n
    BY <1>2
  <2>2. ms[j].sourceEnd <= ms[n].sourceEnd
    BY <2>1, EndsGrow
  <2>. QED
    BY <1>3, <1>4, <2>1, <2>2
<1>7. ASSUME NEW s \in Nat, s <= t PROVE MapChunkTime(s, ms) <= MapChunkTime(t, ms)
  <2>1. PICK i \in 1..n : Belongs(s, ms, i) /\ MapChunkTime(s, ms) = SourceOf(s, ms, i)
    BY Located
  <2>2. SourceOf(s, ms, i) <= SourceOf(t, ms, j)
    BY <1>1, <1>7, <2>1, OrderKept
  <2>. QED
    BY <1>1, <2>1, <2>2
<1>. QED
  BY <1>1, <1>3, <1>5, <1>6, <1>7

\* Whatever the gap, mapping keeps the order of times and stays inside the audio
\* the chunk was made from (merger.py:44-64).
THEOREM MappingIsMonotone == Spec => []MappingKeepsOrder
<1>1. ASSUME VadInv PROVE MappingKeepsOrder
  <2>1. ASSUME NEW mappings \in Range(Mappings), NEW t \in Times
        PROVE  /\ mappings[1].sourceStart <= MapChunkTime(t, mappings)
               /\ MapChunkTime(t, mappings) <= Last(mappings).sourceEnd
               /\ t > 0 => MapChunkTime(t - 1, mappings) <= MapChunkTime(t, mappings)
    <3>1. PICK c \in Seq(Placed) : c # <<>> /\ Fits(c) /\ mappings = MappingsOf(c)
      BY <1>1, MappingsAre
    <3>2. Orderly(mappings)
      BY <3>1, MappingsOrderly
    <3>3. t \in Nat
      BY VadAssumption DEF Times
    <3>4. /\ mappings[1].sourceStart <= MapChunkTime(t, mappings)
          /\ MapChunkTime(t, mappings) <= mappings[Len(mappings)].sourceEnd
          /\ \A s \in Nat : s <= t => MapChunkTime(s, mappings) <= MapChunkTime(t, mappings)
      BY <3>2, <3>3, MapFacts
    <3>5. t > 0 => t - 1 \in Nat /\ t - 1 <= t
      BY <3>3
    <3>. QED
      BY <3>4, <3>5 DEF Last
  <2>2. \A t \in Times : t > 0 => t - 1 \in Times
    BY VadAssumption DEF Times
  <2>. QED
    BY <2>1, <2>2 DEF MappingKeepsOrder
<1>2. VadInv => MappingKeepsOrder
  BY <1>1
<1>. QED
  BY <1>2, SpecVadInv, PTL

\* With a gap between pieces, a time in a piece is mapped to where that very sample
\* came from; without one the border of two pieces would belong to both
\* (merger.py:44-64 against vad.py:206-221).
THEOREM MappingIsExact ==
    ASSUME GapTicks > 0
    PROVE  Spec => []MappingIsFaithful
<1>1. ASSUME VadInv PROVE RoundTrip
  <2>1. ASSUME NEW mappings \in Range(Mappings), NEW m \in Range(mappings),
               NEW t \in m.chunkStart..m.chunkEnd
        PROVE  MapChunkTime(t, mappings) = m.sourceStart + (t - m.chunkStart)
    <3>1. PICK c \in Seq(Placed) : c # <<>> /\ Fits(c) /\ mappings = MappingsOf(c)
      BY <1>1, MappingsAre
    <3>2. PICK i \in DOMAIN c : m = SourceMapping(c[i])
      BY <3>1 DEF Range, MappingsOf
    <3>3. t \in SourceMapping(c[i]).chunkStart..SourceMapping(c[i]).chunkEnd
      BY <3>2
    <3>4. MapChunkTime(t, MappingsOf(c))
             = SourceMapping(c[i]).sourceStart + (t - SourceMapping(c[i]).chunkStart)
      BY <3>1, <3>2, <3>3, OnePieceCovers
    <3>. QED
      BY <3>1, <3>2, <3>4
  <2>. QED
    BY <2>1 DEF RoundTrip
<1>2. VadInv => RoundTrip
  BY <1>1
<1>3. RoundTrip /\ MappingKeepsOrder => MappingIsFaithful
  BY DEF MappingIsFaithful
<1>. QED
  BY <1>2, <1>3, SpecVadInv, MappingIsMonotone, PTL

-----------------------------------------------------------------------------
(* Flattening, one sequence at a time.                                     *)

IsFlat(g, ss, n) ==
    g = [i \in 1..n |-> IF i = 1 THEN ss[i] ELSE g[i - 1] \o ss[i]]

Agree(s, t, n) == \A i \in 1..n : s[i] = t[i]

LEMMA FlatExists ==
    ASSUME NEW S, NEW ss \in Seq(Seq(S)), NEW n \in 0..Len(ss)
    PROVE  \E g \in [1..n -> Seq(S)] : IsFlat(g, ss, n)
<1>. DEFINE Bad == {k \in 0..Len(ss) : ~ \E g \in [1..k -> Seq(S)] : IsFlat(g, ss, k)}
<1>1. SUFFICES ASSUME Bad # {} PROVE FALSE
  OBVIOUS
<1>2. Len(ss) \in Nat /\ \A i \in 1..Len(ss) : ss[i] \in Seq(S)
  OBVIOUS
<1>3. Bad \in SUBSET Nat
  BY <1>2
<1>4. PICK k \in Bad : \A m \in Bad : k <= m
  <2>. HIDE DEF Bad
  <2>. QED
    BY <1>1, <1>3, LeastExists
<1>5. k # 0
  <2>1. SUFFICES ASSUME k = 0 PROVE FALSE
    OBVIOUS
  <2>2. 1..0 = {}
    OBVIOUS
  <2>3. [i \in 1..0 |-> <<>>] \in [1..0 -> Seq(S)] /\ IsFlat([i \in 1..0 |-> <<>>], ss, 0)
    BY <2>2 DEF IsFlat
  <2>. QED
    BY <1>4, <2>1, <2>3
<1>6. k - 1 \in 0..Len(ss) /\ k - 1 \notin Bad /\ k \in 1..Len(ss)
  <2>1. k \in 1..Len(ss)
    BY <1>4, <1>5, <1>2
  <2>2. k - 1 \in 0..Len(ss) /\ ~(k <= k - 1)
    BY <2>1, <1>2
  <2>. QED
    BY <2>1, <2>2, <1>4
<1>7. PICK g \in [1..(k - 1) -> Seq(S)] : IsFlat(g, ss, k - 1)
  BY <1>6
<1>. DEFINE h == [i \in 1..k |-> IF i < k THEN g[i] ELSE IF k = 1 THEN ss[1] ELSE g[k - 1] \o ss[k]]
<1>8. h \in [1..k -> Seq(S)]
  <2>1. ASSUME NEW i \in 1..k PROVE h[i] \in Seq(S)
    <3>1. CASE i < k
      <4>1. i \in 1..(k - 1)
        BY <1>6, <3>1
      <4>. QED
        BY <4>1, <1>7, <3>1
    <3>2. CASE ~(i < k) /\ k = 1
      BY <3>2, <1>2, <1>6
    <3>3. CASE ~(i < k) /\ k # 1
      <4>1. k - 1 \in 1..(k - 1)
        BY <3>3, <1>6
      <4>2. g[k - 1] \in Seq(S) /\ ss[k] \in Seq(S)
        BY <4>1, <1>2, <1>6, <1>7
      <4>3. h[i] = g[k - 1] \o ss[k]
        BY <3>3
      <4>. QED
        BY <4>2, <4>3, ConcatProperties
    <3>. QED
      BY <3>1, <3>2, <3>3
  <2>. QED
    BY <2>1
<1>9. IsFlat(h, ss, k)
  <2>1. ASSUME NEW i \in 1..k PROVE h[i] = IF i = 1 THEN ss[i] ELSE h[i - 1] \o ss[i]
    <3>1. CASE i < k
      <4>1. i \in 1..(k - 1) /\ h[i] = g[i]
        BY <1>6, <3>1
      <4>2. g[i] = IF i = 1 THEN ss[i] ELSE g[i - 1] \o ss[i]
        BY <1>7, <4>1 DEF IsFlat
      <4>3. i # 1 => i - 1 \in 1..k /\ h[i - 1] = g[i - 1]
        BY <4>1, <1>6, <3>1
      <4>. QED
        BY <4>1, <4>2, <4>3
    <3>2. CASE i = k
      <4>1. i # 1 => i - 1 \in 1..k /\ h[i - 1] = g[k - 1]
        BY <3>2, <1>6
      <4>. QED
        BY <4>1, <3>2
    <3>. QED
      BY <3>1, <3>2, <1>6
  <2>. QED
    BY <2>1 DEF IsFlat
<1>. QED
  BY <1>4, <1>8, <1>9

LEMMA FlatAgrees ==
    ASSUME NEW ss, NEW tt, NEW n \in Nat, NEW m \in Nat, n <= m, Agree(ss, tt, n),
           NEW g, IsFlat(g, ss, n), NEW h, IsFlat(h, tt, m)
    PROVE  Agree(g, h, n)
<1>. DEFINE Bad == {i \in 1..n : g[i] # h[i]}
<1>1. SUFFICES ASSUME Bad # {} PROVE FALSE
  BY DEF Agree
<1>2. PICK k \in Bad : \A i \in Bad : k <= i
  <2>1. Bad \in SUBSET Nat
    OBVIOUS
  <2>. HIDE DEF Bad
  <2>. QED
    BY <1>1, <2>1, LeastExists
<1>3. k \in 1..n /\ k \in 1..m
  OBVIOUS
<1>4. /\ g[k] = IF k = 1 THEN ss[k] ELSE g[k - 1] \o ss[k]
      /\ h[k] = IF k = 1 THEN tt[k] ELSE h[k - 1] \o tt[k]
  BY <1>3 DEF IsFlat
<1>5. CASE k = 1
  BY <1>2, <1>4, <1>5 DEF Agree
<1>6. CASE k # 1
  <2>1. k - 1 \in 1..n /\ ~(k <= k - 1)
    BY <1>6, <1>3
  <2>2. g[k - 1] = h[k - 1]
    BY <2>1, <1>2
  <2>. QED
    BY <2>2, <1>2, <1>4, <1>3, <1>6 DEF Agree
<1>. QED
  BY <1>5, <1>6

LEMMA FlattenValue ==
    ASSUME NEW S, NEW ss \in Seq(Seq(S)), Len(ss) # 0
    PROVE  \E g : /\ IsFlat(g, ss, Len(ss))
                  /\ FlattenSeq(ss) = g[Len(ss)]
                  /\ g[Len(ss)] \in Seq(S)
<1>. DEFINE n == Len(ss)
            g == CHOOSE g : IsFlat(g, ss, n)
<1>1. n \in Nat /\ n \in 0..Len(ss) /\ n \in 1..n
  OBVIOUS
<1>2. PICK x \in [1..n -> Seq(S)] : IsFlat(x, ss, n)
  BY <1>1, FlatExists
<1>3. IsFlat(g, ss, n)
  BY <1>2
<1>4. FlattenSeq(ss) = g[n]
  BY DEF FlattenSeq, IsFlat
<1>. HIDE DEF g, n
<1>5. Agree(x, g, n)
  <2>1. Agree(ss, ss, n) /\ n <= n
    BY <1>1 DEF Agree
  <2>. QED
    BY <1>1, <1>2, <1>3, <2>1, FlatAgrees
<1>. QED
  BY <1>1, <1>2, <1>3, <1>4, <1>5 DEF n, Agree

\* The flattening of one sequence more is what it was, and the new one behind it.
LEMMA FlattenOneMore ==
    ASSUME NEW S, NEW ss \in Seq(Seq(S)), NEW tt \in Seq(Seq(S)), Len(tt) = Len(ss) + 1,
           \A i \in 1..Len(ss) : ss[i] = tt[i]
    PROVE  /\ FlattenSeq(ss) \in Seq(S)
           /\ FlattenSeq(tt) = FlattenSeq(ss) \o tt[Len(tt)]
<1>. DEFINE n == Len(ss)
            k == Len(tt)
<1>1. /\ n \in Nat /\ k \in Nat /\ k = n + 1 /\ k - 1 = n /\ n <= k /\ k # 0
      /\ k \in 1..k /\ tt[k] \in Seq(S) /\ (n = 0 <=> k = 1)
  OBVIOUS
<1>2. PICK h : IsFlat(h, tt, k) /\ FlattenSeq(tt) = h[k]
  BY <1>1, FlattenValue
<1>3. h[k] = IF k = 1 THEN tt[k] ELSE h[k - 1] \o tt[k]
  <2>1. IsFlat(h, tt, k) /\ k \in 1..k
    BY <1>1, <1>2
  <2>. HIDE DEF k
  <2>2. h = [i \in 1..k |-> IF i = 1 THEN tt[i] ELSE h[i - 1] \o tt[i]]
    BY <2>1, Zenon DEF IsFlat
  <2>. QED
    BY <2>1, <2>2, Zenon
<1>4. CASE n = 0
  <2>1. ss = <<>> /\ <<>> \in Seq(S)
    BY <1>4
  <2>2. FlattenSeq(ss) = <<>>
    BY <2>1 DEF FlattenSeq
  <2>3. FlattenSeq(tt) = tt[k]
    BY <1>1, <1>2, <1>3, <1>4
  <2>4. <<>> \o tt[k] = tt[k]
    BY <1>1, ConcatEmptySeq
  <2>. QED
    BY <2>1, <2>2, <2>3, <2>4
<1>5. CASE n # 0
  <2>1. PICK g : IsFlat(g, ss, n) /\ FlattenSeq(ss) = g[n] /\ g[n] \in Seq(S)
    BY <1>1, <1>5, FlattenValue
  <2>. HIDE DEF n, k
  <2>2. n \in 1..n
    BY <1>1, <1>5
  <2>3. Agree(ss, tt, n)
    BY DEF n, Agree
  <2>4. Agree(g, h, n)
    <3>1. n \in Nat /\ k \in Nat /\ n <= k
      BY <1>1
    <3>2. IsFlat(g, ss, n) /\ IsFlat(h, tt, k)
      BY <1>2, <2>1
    <3>. QED
      BY <2>3, <3>1, <3>2, FlatAgrees
  <2>5. FlattenSeq(ss) \in Seq(S)
    BY <2>1, <2>2
  <2>6. FlattenSeq(tt) = FlattenSeq(ss) \o tt[k]
    BY <1>1, <1>2, <1>3, <1>5, <2>1, <2>2, <2>4 DEF Agree
  <2>. QED
    BY <2>5, <2>6 DEF k
<1>. QED
  BY <1>4, <1>5

-----------------------------------------------------------------------------
(* What is kept.                                                           *)

LEMMA FramesOfFacts ==
    ASSUME NEW c \in Seq(Placed), NEW p \in Placed
    PROVE  /\ FramesOf(c) \in Seq(Frame)
           /\ FramesOf(Append(c, p)) = FramesOf(c) \o p.frames
           /\ FramesOf(<<>>) = <<>>
<1>. DEFINE ss == [i \in DOMAIN c |-> c[i].frames]
            longer == Append(c, p)
            tt == [i \in DOMAIN longer |-> longer[i].frames]
<1>1. /\ Len(c) \in Nat /\ DOMAIN c = 1..Len(c) /\ \A i \in 1..Len(c) : c[i] \in Placed
      /\ DOMAIN longer = 1..(Len(c) + 1)
      /\ \A i \in 1..Len(c) : longer[i] = c[i]
      /\ longer[Len(c) + 1] = p
  BY AppendFacts
<1>2. \A q \in Placed : q.frames \in Seq(Frame)
  BY DEF Placed
<1>. HIDE DEF longer
<1>3. ss \in Seq(Seq(Frame)) /\ Len(ss) = Len(c) /\ \A i \in 1..Len(c) : ss[i] = c[i].frames
  BY <1>1, <1>2
<1>4. /\ tt \in Seq(Seq(Frame)) /\ Len(tt) = Len(c) + 1
      /\ \A i \in 1..(Len(c) + 1) : tt[i] = longer[i].frames
  <2>1. \A i \in 1..(Len(c) + 1) : longer[i] \in Placed
    BY <1>1
  <2>. QED
    BY <1>1, <1>2, <2>1
<1>5. FramesOf(c) = FlattenSeq(ss) /\ FramesOf(longer) = FlattenSeq(tt)
  BY DEF FramesOf
<1>. HIDE DEF ss, tt
<1>6. \A i \in 1..Len(ss) : ss[i] = tt[i]
  <2>1. ASSUME NEW i \in 1..Len(c) PROVE ss[i] = tt[i]
    <3>1. i \in 1..(Len(c) + 1) /\ longer[i] = c[i]
      BY <1>1
    <3>2. ss[i] = c[i].frames /\ tt[i] = longer[i].frames
      BY <1>3, <1>4, <3>1
    <3>. QED
      BY <3>1, <3>2
  <2>. QED
    BY <1>3, <2>1
<1>7. FlattenSeq(ss) \in Seq(Frame) /\ FlattenSeq(tt) = FlattenSeq(ss) \o tt[Len(tt)]
  BY <1>3, <1>4, <1>6, FlattenOneMore
<1>8. tt[Len(tt)] = p.frames
  BY <1>1, <1>4
<1>9. FramesOf(<<>>) = <<>>
  <2>1. [i \in DOMAIN <<>> |-> <<>>[i].frames] = <<>>
    OBVIOUS
  <2>2. FlattenSeq(<<>>) = <<>>
    BY DEF FlattenSeq
  <2>. QED
    BY <2>1, <2>2 DEF FramesOf
<1>. QED
  BY <1>5, <1>7, <1>8, <1>9 DEF longer

LEMMA FramesOfAllFacts ==
    ASSUME NEW cs \in Seq(Seq(Placed)), NEW c \in Seq(Placed)
    PROVE  /\ FramesOfAll(cs) \in Seq(Frame)
           /\ FramesOfAll(Append(cs, c)) = FramesOfAll(cs) \o FramesOf(c)
           /\ FramesOfAll(<<>>) = <<>>
<1>. DEFINE ss == [k \in DOMAIN cs |-> FramesOf(cs[k])]
            longer == Append(cs, c)
            tt == [k \in DOMAIN longer |-> FramesOf(longer[k])]
<1>1. /\ Len(cs) \in Nat /\ DOMAIN cs = 1..Len(cs) /\ \A i \in 1..Len(cs) : cs[i] \in Seq(Placed)
      /\ DOMAIN longer = 1..(Len(cs) + 1)
      /\ \A i \in 1..Len(cs) : longer[i] = cs[i]
      /\ longer[Len(cs) + 1] = c
  BY AppendFacts
<1>2. \A d \in Seq(Placed) : FramesOf(d) \in Seq(Frame)
  <2>1. [at |-> 0, frames |-> <<>>] \in Placed
    BY EmptyFacts DEF Placed
  <2>. QED
    BY <2>1, FramesOfFacts
<1>. HIDE DEF longer
<1>3. ss \in Seq(Seq(Frame)) /\ Len(ss) = Len(cs) /\ \A i \in 1..Len(cs) : ss[i] = FramesOf(cs[i])
  BY <1>1, <1>2
<1>4. /\ tt \in Seq(Seq(Frame)) /\ Len(tt) = Len(cs) + 1
      /\ \A i \in 1..(Len(cs) + 1) : tt[i] = FramesOf(longer[i])
  <2>1. \A i \in 1..(Len(cs) + 1) : longer[i] \in Seq(Placed)
    BY <1>1
  <2>. QED
    BY <1>1, <1>2, <2>1
<1>5. FramesOfAll(cs) = FlattenSeq(ss) /\ FramesOfAll(longer) = FlattenSeq(tt)
  BY DEF FramesOfAll
<1>. HIDE DEF ss, tt
<1>6. \A i \in 1..Len(ss) : ss[i] = tt[i]
  <2>1. ASSUME NEW i \in 1..Len(cs) PROVE ss[i] = tt[i]
    <3>1. i \in 1..(Len(cs) + 1) /\ longer[i] = cs[i]
      BY <1>1
    <3>2. ss[i] = FramesOf(cs[i]) /\ tt[i] = FramesOf(longer[i])
      BY <1>3, <1>4, <3>1
    <3>. QED
      BY <3>1, <3>2
  <2>. QED
    BY <1>3, <2>1
<1>7. FlattenSeq(ss) \in Seq(Frame) /\ FlattenSeq(tt) = FlattenSeq(ss) \o tt[Len(tt)]
  BY <1>3, <1>4, <1>6, FlattenOneMore
<1>8. tt[Len(tt)] = FramesOf(c)
  BY <1>1, <1>4
<1>9. FramesOfAll(<<>>) = <<>>
  <2>1. [k \in DOMAIN <<>> |-> FramesOf(<<>>[k])] = <<>>
    OBVIOUS
  <2>2. FlattenSeq(<<>>) = <<>>
    BY DEF FlattenSeq
  <2>. QED
    BY <2>1, <2>2 DEF FramesOfAll
<1>. QED
  BY <1>5, <1>7, <1>8, <1>9 DEF longer

PackedFrames == FramesOfAll(chunks) \o FramesOf(chunk)

\* Packing appends the piece to what is packed; no frame moves.
LEMMA PackAppends ==
    ASSUME Packing, NEW frames \in Seq(Frame), NEW up \in BOOLEAN, Pack(frames, up)
    PROVE  PackedFrames \in Seq(Frame) /\ PackedFrames' = PackedFrames \o frames
<1>1. chunk \in Seq(Placed) /\ chunks \in Seq(Seq(Placed))
  BY DEF Packing
<1>2. \A n \in Nat : [at |-> n, frames |-> frames] \in Placed
  BY DEF Placed
<1>3. FramesOfAll(chunks) \in Seq(Frame) /\ FramesOf(chunk) \in Seq(Frame)
  BY <1>1, <1>2, FramesOfFacts, FramesOfAllFacts
<1>4. PackedFrames \in Seq(Frame)
  BY <1>3, ConcatProperties DEF PackedFrames
<1>5. CASE chunks' = Append(chunks, chunk) /\ chunk' = <<[at |-> 0, frames |-> frames]>>
  <2>. DEFINE p == [at |-> 0, frames |-> frames]
  <2>1. p \in Placed /\ p.frames = frames /\ <<>> \in Seq(Placed)
    BY <1>2, EmptyFacts
  <2>. HIDE DEF p
  <2>2. <<p>> = Append(<<>>, p)
    OBVIOUS
  <2>3. FramesOf(<<p>>) = <<>> \o frames
    BY <2>1, <2>2, FramesOfFacts
  <2>4. FramesOf(<<p>>) = frames
    BY <2>3, ConcatEmptySeq
  <2>5. FramesOfAll(chunks') = FramesOfAll(chunks) \o FramesOf(chunk)
    BY <1>1, <1>5, FramesOfAllFacts
  <2>6. FramesOf(chunk') = frames
    BY <1>5, <2>4 DEF p
  <2>. QED
    BY <1>4, <2>5, <2>6 DEF PackedFrames
<1>6. CASE chunk' = Append(chunk, [at |-> Cursor, frames |-> frames]) /\ chunks' = chunks
  <2>. DEFINE p == [at |-> Cursor, frames |-> frames]
  <2>1. Cursor \in Nat
    <3>1. chunk # <<>> => Last(chunk) \in Placed
      BY <1>1, NonEmptyFacts DEF Last
    <3>2. chunk # <<>> => PlacedEnd(Last(chunk)) \in Nat
      BY <3>1, PlacedEnds
    <3>. QED
      BY <3>2, VadAssumption DEF Cursor
  <2>2. p \in Placed /\ p.frames = frames
    BY <1>2, <2>1
  <2>. HIDE DEF p
  <2>3. FramesOf(Append(chunk, p)) = FramesOf(chunk) \o frames
    BY <1>1, <2>2, FramesOfFacts
  <2>4. FramesOfAll(chunks) \o (FramesOf(chunk) \o frames) = (FramesOfAll(chunks) \o FramesOf(chunk)) \o frames
    BY <1>3, ConcatAssociative
  <2>. QED
    BY <1>4, <1>6, <2>3, <2>4 DEF PackedFrames, p
<1>. QED
  BY <1>5, <1>6 DEF Pack

\* What is kept is what is packed, and behind it what is cut, still to be cut and
\* still collected.
LEMMA KeptParts ==
    ASSUME VadInv
    PROVE  /\ PackedFrames \in Seq(Frame) /\ piece \in Seq(Frame)
           /\ segment \in Seq(Frame) /\ voiced \in Seq(Frame)
           /\ Kept = PackedFrames \o piece \o segment \o voiced
           /\ Kept \in Seq(Frame)
<1>1. /\ chunk \in Seq(Placed) /\ chunks \in Seq(Seq(Placed)) /\ piece \in Seq(Frame)
      /\ segment \in Seq(Frame) /\ voiced \in Seq(Frame)
  BY DEF VadInv, VadTypeOK
<1>2. [at |-> 0, frames |-> <<>>] \in Placed
  BY EmptyFacts DEF Placed
<1>3. FramesOfAll(chunks) \in Seq(Frame) /\ FramesOf(chunk) \in Seq(Frame)
  BY <1>1, <1>2, FramesOfFacts, FramesOfAllFacts
<1>4. PackedFrames \in Seq(Frame)
  BY <1>3, ConcatProperties DEF PackedFrames
<1>5. Kept = PackedFrames \o piece \o segment \o voiced
  BY DEF Kept, PackedFrames
<1>6. PackedFrames \o piece \o segment \o voiced \in Seq(Frame)
  <2>1. PackedFrames \o piece \in Seq(Frame)
    BY <1>1, <1>4, ConcatProperties
  <2>2. PackedFrames \o piece \o segment \in Seq(Frame)
    BY <1>1, <2>1, ConcatProperties
  <2>. QED
    BY <1>1, <2>2, ConcatProperties
<1>. QED
  BY <1>1, <1>4, <1>5, <1>6

LEMMA AppendedIsConcat ==
    ASSUME NEW S, NEW s \in Seq(S), NEW e \in S
    PROVE  Append(s, e) = s \o <<e>> /\ <<e>> \in Seq(S)
  OBVIOUS

LEMMA HeadAndTail ==
    ASSUME NEW S, NEW s \in Seq(S), s # <<>>
    PROVE  s = <<Head(s)>> \o Tail(s) /\ Head(s) \in S /\ Tail(s) \in Seq(S)
  OBVIOUS

LEMMA KeptAtTheEnd ==
    ASSUME VadInv, EndOfAudio
    PROVE  Kept' = Kept
<1>1. /\ PackedFrames \in Seq(Frame) /\ voiced \in Seq(Frame)
      /\ Kept = PackedFrames \o piece \o segment \o voiced
  BY KeptParts
<1>2. /\ segment = <<>> /\ piece = <<>> /\ piece' = <<>> /\ segment' = voiced /\ voiced' = <<>>
      /\ chunk' = chunk /\ chunks' = chunks
  BY DEF EndOfAudio, Listening, packVars
<1>3. Kept' = PackedFrames \o <<>> \o voiced \o <<>>
  BY <1>2 DEF Kept, PackedFrames
<1>4. PackedFrames \o <<>> = PackedFrames
  BY <1>1, ConcatEmptySeq
<1>5. PackedFrames \o voiced \in Seq(Frame)
  BY <1>1, ConcatProperties
<1>6. (PackedFrames \o voiced) \o <<>> = PackedFrames \o voiced
  BY <1>5, ConcatEmptySeq
<1>. QED
  BY <1>1, <1>2, <1>3, <1>4, <1>6

LEMMA KeptWhenCut ==
    ASSUME VadInv, NEW up \in BOOLEAN, CutFrame(up)
    PROVE  Kept' = Kept
<1>. DEFINE P == PackedFrames
            h == Head(segment)
            rest == Tail(segment)
<1>1. /\ P \in Seq(Frame) /\ piece \in Seq(Frame) /\ segment \in Seq(Frame)
      /\ Kept = P \o piece \o segment \o voiced
  BY KeptParts
<1>2. segment # <<>> /\ segment' = rest /\ voiced' = voiced
  BY DEF CutFrame, listenVars
<1>3. segment = <<h>> \o rest /\ h \in Frame /\ rest \in Seq(Frame) /\ <<h>> \in Seq(Frame)
  BY <1>1, <1>2, HeadAndTail, AppendedIsConcat
<1>4. (P \o piece \o <<h>>) \o rest = P \o piece \o segment
  <2>1. P \o piece \in Seq(Frame)
    BY <1>1, ConcatProperties
  <2>. QED
    BY <1>3, <2>1, ConcatAssociative
<1>5. PackedFrames' \o piece' = P \o piece \o <<h>>
  <2>1. CASE piece' = <<h>> /\ Pack(piece, up)
    <3>1. PackedFrames' = P \o piece
      BY <1>1, <2>1, PackingOfInv, PackAppends
    <3>. QED
      BY <2>1, <3>1
  <2>2. CASE piece' = Append(piece, h) /\ UNCHANGED packVars
    <3>1. PackedFrames' = P
      BY <2>2 DEF PackedFrames, packVars
    <3>2. piece' = piece \o <<h>>
      BY <1>1, <1>3, <2>2, AppendedIsConcat
    <3>3. P \o (piece \o <<h>>) = (P \o piece) \o <<h>>
      BY <1>1, <1>3, ConcatAssociative
    <3>. QED
      BY <3>1, <3>2, <3>3
  <2>. QED
    BY <2>1, <2>2 DEF CutFrame
<1>6. Kept' = PackedFrames' \o piece' \o segment' \o voiced'
  BY DEF Kept, PackedFrames
<1>. HIDE DEF P, h, rest
<1>. QED
  BY <1>1, <1>2, <1>4, <1>5, <1>6

LEMMA KeptWhenCutOff ==
    ASSUME VadInv, NEW up \in BOOLEAN, CutRest(up)
    PROVE  Kept' = Kept
<1>1. /\ PackedFrames \in Seq(Frame) /\ piece \in Seq(Frame)
      /\ Kept = PackedFrames \o piece \o segment \o voiced
  BY KeptParts
<1>2. /\ piece' = <<>> /\ segment' = segment /\ voiced' = voiced /\ Pack(piece, up)
  BY DEF CutRest, listenVars
<1>3. PackedFrames' = PackedFrames \o piece
  BY <1>1, <1>2, PackingOfInv, PackAppends
<1>4. PackedFrames \o piece \in Seq(Frame)
  BY <1>1, ConcatProperties
<1>5. (PackedFrames \o piece) \o <<>> = PackedFrames \o piece
  BY <1>4, ConcatEmptySeq
<1>6. Kept' = PackedFrames' \o piece' \o segment' \o voiced'
  BY DEF Kept, PackedFrames
<1>. QED
  BY <1>1, <1>2, <1>3, <1>5, <1>6

LEMMA KeptWhenClosed ==
    ASSUME VadInv, Close
    PROVE  Kept' = Kept
<1>1. chunk \in Seq(Placed) /\ chunks \in Seq(Seq(Placed))
  BY DEF VadInv, VadTypeOK
<1>2. [at |-> 0, frames |-> <<>>] \in Placed
  BY EmptyFacts DEF Placed
<1>3. /\ FramesOfAll(chunks) \in Seq(Frame) /\ FramesOf(chunk) \in Seq(Frame)
      /\ FramesOf(<<>>) = <<>>
      /\ FramesOfAll(Append(chunks, chunk)) = FramesOfAll(chunks) \o FramesOf(chunk)
  BY <1>1, <1>2, FramesOfFacts, FramesOfAllFacts
<1>4. PackedFrames \in Seq(Frame) /\ PackedFrames \o <<>> = PackedFrames
  BY KeptParts, ConcatEmptySeq
<1>5. FramesOfAll(chunks') = PackedFrames
  <2>1. CASE chunk = <<>>
    <3>1. FramesOfAll(chunks) \o <<>> = FramesOfAll(chunks)
      BY <1>3, ConcatEmptySeq
    <3>. QED
      BY <1>3, <2>1, <3>1 DEF Close, PackedFrames
  <2>2. CASE chunk # <<>>
    BY <1>3, <2>2 DEF Close, PackedFrames
  <2>. QED
    BY <2>1, <2>2
<1>6. PackedFrames' = PackedFrames
  BY <1>3, <1>4, <1>5 DEF PackedFrames, Close
<1>. QED
  BY <1>6 DEF Kept, PackedFrames, Close, listenVars

\* A frame that is listened to joins what is kept, the waiting frames with it if it
\* is the one that triggers.
LEMMA KeptWhenListening ==
    ASSUME VadInv, NEW speech \in BOOLEAN, Listen(speech)
    PROVE  LET n == Len(audio)
               now == Pushed(n + 1)
           IN  \/ /\ triggered /\ Kept' = Kept \o <<n + 1>> /\ Waiting' = 0
                  /\ (ring' = <<>> \/ (ring' = now /\ triggered' = TRUE))
               \/ ~triggered /\ Kept' = Kept \o now /\ ring' = <<>> /\ Waiting' = 0
               \/ /\ ~triggered /\ Kept' = Kept /\ ring' = now /\ ~triggered' /\ Waiting' = Len(now)
                  /\ ~Enough(now, audio', TRUE)
<1>. DEFINE n == Len(audio)
            now == Pushed(n + 1)
            P == PackedFrames
<1>1. /\ P \in Seq(Frame) /\ piece \in Seq(Frame) /\ segment \in Seq(Frame)
      /\ voiced \in Seq(Frame)
      /\ Kept = P \o piece \o segment \o voiced
  BY KeptParts
<1>2. /\ segment = <<>> /\ piece = <<>> /\ piece' = <<>> /\ P' = P /\ n \in Nat
      /\ Len(audio') = n + 1
  BY DEF Listen, Listening, packVars, PackedFrames, VadInv, VadTypeOK
<1>3. /\ P \o <<>> = P
      /\ P \o <<>> \o <<>> = P
  BY <1>1, ConcatEmptySeq
<1>4. Kept = P \o voiced
  BY <1>1, <1>2, <1>3
<1>5. Kept' = P \o segment' \o voiced'
  <2>1. Kept' = P' \o piece' \o segment' \o voiced'
    BY DEF Kept, PackedFrames
  <2>. QED
    BY <1>2, <1>3, <2>1
<1>6. n + 1 \in Frame
  BY <1>2, FrameFacts
<1>7. Append(voiced, n + 1) = voiced \o <<n + 1>> /\ <<n + 1>> \in Seq(Frame)
  BY <1>1, <1>6, AppendedIsConcat
<1>8. P \o Append(voiced, n + 1) = Kept \o <<n + 1>> /\ P \o Append(voiced, n + 1) \in Seq(Frame)
  <2>1. (P \o voiced) \o <<n + 1>> = P \o (voiced \o <<n + 1>>)
    BY <1>1, <1>7, ConcatAssociative
  <2>2. Append(voiced, n + 1) \in Seq(Frame)
    BY <1>1, <1>6, AppendFacts
  <2>. QED
    BY <1>1, <1>4, <1>7, <2>1, <2>2, ConcatProperties
<1>9. CASE triggered
  <2>1. Collects(n + 1, audio')
    BY <1>2, <1>9 DEF Listen
  <2>2. CASE Enough(now, audio', FALSE)
    <3>1. segment' = Append(voiced, n + 1) /\ voiced' = <<>> /\ triggered' = FALSE /\ ring' = <<>>
      BY <2>1, <2>2 DEF Collects, now
    <3>2. Kept' = Kept \o <<n + 1>>
      BY <1>5, <1>8, <3>1, ConcatEmptySeq
    <3>3. Waiting' = 0
      BY <3>1 DEF Waiting
    <3>. QED
      BY <1>9, <3>1, <3>2, <3>3
  <2>3. CASE ~Enough(now, audio', FALSE)
    <3>1. voiced' = Append(voiced, n + 1) /\ ring' = now /\ triggered' = triggered /\ segment' = segment
      BY <2>1, <2>3 DEF Collects, now
    <3>2. Kept' = Kept \o <<n + 1>>
      BY <1>2, <1>3, <1>5, <1>8, <3>1
    <3>3. Waiting' = 0 /\ triggered' = TRUE
      BY <1>9, <3>1 DEF Waiting, VadInv, VadTypeOK
    <3>. QED
      BY <1>9, <3>1, <3>2, <3>3
  <2>. QED
    BY <2>2, <2>3
<1>10. CASE ~triggered
  <2>1. Waits(n + 1, audio') /\ segment' = segment
    BY <1>2, <1>10 DEF Listen
  <2>2. voiced = <<>>
    BY <1>10 DEF VadInv, RunsGoOn
  <2>3. Kept = P
    BY <1>3, <1>4, <2>2
  <2>4. CASE Enough(now, audio', TRUE)
    <3>1. triggered' = TRUE /\ voiced' = now /\ ring' = <<>>
      BY <2>1, <2>4 DEF Waits, now
    <3>2. Kept' = Kept \o now
      BY <1>2, <1>3, <1>5, <2>1, <2>3, <3>1
    <3>3. Waiting' = 0
      BY <3>1 DEF Waiting
    <3>. QED
      BY <1>10, <3>1, <3>2, <3>3
  <2>5. CASE ~Enough(now, audio', TRUE)
    <3>1. ring' = now /\ triggered' = triggered /\ voiced' = voiced
      BY <2>1, <2>5 DEF Waits, now
    <3>2. Kept' = Kept
      BY <1>2, <1>3, <1>5, <2>1, <2>2, <2>3, <3>1
    <3>3. Waiting' = Len(now) /\ ~triggered'
      BY <1>10, <3>1 DEF Waiting
    <3>. QED
      BY <1>10, <2>5, <3>1, <3>2, <3>3
  <2>. QED
    BY <2>4, <2>5
<1>. QED
  BY <1>9, <1>10

IsIncreasing(s) == \A i \in 2..Len(s) : s[i - 1] < s[i]

\* An unbroken run up to m joined to frames that end before it.
LEMMA IncreasingConcat ==
    ASSUME NEW s \in Seq(Frame), NEW t \in Seq(Frame), IsIncreasing(s),
           NEW m \in Nat, EndsAt(t, m),
           NEW b \in Int, \A i \in DOMAIN s : s[i] <= b, b + Len(t) <= m
    PROVE  /\ IsIncreasing(s \o t)
           /\ \A i \in DOMAIN (s \o t) : (s \o t)[i] <= m
           /\ Range(s) \subseteq Range(s \o t)
           /\ \A f \in (m - Len(t) + 1)..m : f \in Range(s \o t)
<1>. DEFINE u == s \o t
<1>1. /\ Len(s) \in Nat /\ Len(t) \in Nat /\ DOMAIN s = 1..Len(s) /\ DOMAIN t = 1..Len(t)
      /\ \A i \in 1..Len(s) : s[i] \in Frame
      /\ \A i \in 1..Len(t) : t[i] \in Frame
  BY NonEmptyFacts
<1>2. /\ u \in Seq(Frame) /\ Len(u) = Len(s) + Len(t) /\ DOMAIN u = 1..(Len(s) + Len(t))
      /\ \A i \in 1..Len(s) : u[i] = s[i]
      /\ \A i \in 1..Len(t) : u[Len(s) + i] = t[i]
  BY <1>1, ConcatProperties
<1>3. \A i \in 1..Len(t) : t[i] = m - Len(t) + i
  BY <1>1 DEF EndsAt
<1>. HIDE DEF u
<1>4. \A i \in 1..Len(u) : \/ i \in 1..Len(s) /\ u[i] = s[i]
                           \/ i - Len(s) \in 1..Len(t) /\ u[i] = m - Len(t) + (i - Len(s))
  <2>1. ASSUME NEW i \in 1..Len(u), i \notin 1..Len(s)
        PROVE  i - Len(s) \in 1..Len(t) /\ u[i] = m - Len(t) + (i - Len(s))
    <3>1. i - Len(s) \in 1..Len(t) /\ i = Len(s) + (i - Len(s))
      BY <1>1, <1>2, <2>1
    <3>2. u[i] = t[i - Len(s)]
      BY <1>2, <3>1
    <3>. QED
      BY <1>3, <3>1, <3>2
  <2>. QED
    BY <1>2, <2>1
<1>5. IsIncreasing(u)
  <2>1. ASSUME NEW i \in 2..Len(u) PROVE u[i - 1] < u[i]
    <3>1. i \in 1..Len(u) /\ i - 1 \in 1..Len(u)
      BY <1>1, <1>2
    <3>2. CASE i \in 1..Len(s)
      <4>1. i - 1 \in 1..Len(s) /\ i \in 2..Len(s)
        BY <1>1, <3>2
      <4>2. s[i - 1] < s[i]
        BY <4>1 DEF IsIncreasing
      <4>. QED
        BY <1>2, <3>2, <4>1, <4>2
    <3>3. CASE i \notin 1..Len(s)
      <4>1. i - Len(s) \in 1..Len(t) /\ u[i] = m - Len(t) + (i - Len(s))
        BY <1>4, <3>1, <3>3
      <4>2. CASE i - 1 \in 1..Len(s)
        <5>1. u[i - 1] = s[i - 1] /\ s[i - 1] <= b /\ s[i - 1] \in Nat
          BY <1>1, <1>2, <4>2 DEF Frame
        <5>. QED
          BY <1>1, <4>1, <5>1
      <4>3. CASE i - 1 \notin 1..Len(s)
        <5>1. u[i - 1] = m - Len(t) + (i - 1 - Len(s))
          BY <1>4, <3>1, <4>3
        <5>. QED
          BY <1>1, <4>1, <5>1
      <4>. QED
        BY <4>2, <4>3
    <3>. QED
      BY <3>2, <3>3
  <2>. QED
    BY <2>1 DEF IsIncreasing
<1>6. \A i \in DOMAIN u : u[i] <= m
  <2>1. ASSUME NEW i \in 1..Len(u) PROVE u[i] <= m
    <3>1. CASE i \in 1..Len(s) /\ u[i] = s[i]
      <4>1. s[i] <= b /\ s[i] \in Nat
        BY <1>1, <3>1 DEF Frame
      <4>. QED
        BY <1>1, <3>1, <4>1
    <3>2. CASE i - Len(s) \in 1..Len(t) /\ u[i] = m - Len(t) + (i - Len(s))
      BY <1>1, <3>2
    <3>. QED
      BY <1>4, <3>1, <3>2
  <2>. QED
    BY <1>2, <2>1
<1>7. Range(s) \subseteq Range(u)
  <2>1. ASSUME NEW i \in DOMAIN s PROVE i \in DOMAIN u /\ s[i] = u[i]
    BY <1>1, <1>2
  <2>. QED
    BY <2>1 DEF Range
<1>8. ASSUME NEW f \in (m - Len(t) + 1)..m PROVE f \in Range(u)
  <2>. DEFINE j == Len(s) + (f - (m - Len(t)))
  <2>1. /\ j \in 1..Len(u) /\ j \in DOMAIN u /\ j \notin 1..Len(s)
        /\ m - Len(t) + (j - Len(s)) = f
    BY <1>1, <1>2
  <2>. HIDE DEF j
  <2>2. u[j] = f
    BY <1>4, <2>1
  <2>. QED
    BY <2>1, <2>2 DEF Range
<1>. QED
  BY <1>5, <1>6, <1>7, <1>8 DEF u

LEMMA AllAreEnough ==
    ASSUME NEW frames \in Seq(Frame), Len(frames) = Padding, NEW heard,
           \A i \in DOMAIN frames : heard[frames[i]] = TRUE
    PROVE  Enough(frames, heard, TRUE)
<1>1. Padding \in Nat \ {0} /\ DOMAIN frames = 1..Padding
  BY VadAssumption
<1>2. {i \in DOMAIN frames : heard[frames[i]] = TRUE} = 1..Padding
  BY <1>1
<1>3. Cardinality(1..Padding) = Padding
  <2>1. 1 \in Int /\ Padding \in Int
    BY <1>1
  <2>2. Cardinality(1..Padding) = IF 1 > Padding THEN 0 ELSE Padding - 1 + 1
    BY <2>1, FS_Interval
  <2>. QED
    BY <1>1, <2>2
<1>4. 100 * Padding >= TriggerPercent * Padding
  <2>1. TriggerPercent \in 1..100
    BY VadAssumption
  <2>2. \A k, d \in Nat : (k + d) * Padding = k * Padding + d * Padding /\ d * Padding \in Nat
                          /\ k * Padding \in Nat
    BY <1>1
  <2>3. 100 - TriggerPercent \in Nat /\ TriggerPercent \in Nat
        /\ TriggerPercent + (100 - TriggerPercent) = 100
    BY <2>1
  <2>4. 100 * Padding = TriggerPercent * Padding + (100 - TriggerPercent) * Padding
    BY <2>2, <2>3
  <2>. QED
    BY <2>2, <2>3, <2>4
<1>. QED
  BY <1>1, <1>2, <1>3, <1>4 DEF Enough

\* Speech that goes on over all of a full ring that did not trigger is none: a frame
\* of the ring is silent.
LEMMA NoSpeechFillsTheRing ==
    ASSUME VadInv, KeptInv, ~triggered, Len(ring) = Padding,
           \A g \in (Len(audio) - Padding + 1)..Len(audio) : audio[g]
    PROVE  FALSE
<1>1. PICK i \in DOMAIN ring : ~audio[ring[i]]
  BY DEF KeptInv
<1>2. /\ ring \in Seq(Frame) /\ Len(audio) \in Nat /\ EndsAt(ring, Len(audio))
      /\ Padding \in Nat \ {0} /\ DOMAIN ring = 1..Padding
  BY VadAssumption DEF VadInv, VadTypeOK, RunsGoOn
<1>3. ring[i] = Len(audio) - Padding + i
  BY <1>1, <1>2 DEF EndsAt
<1>4. ring[i] \in (Len(audio) - Padding + 1)..Len(audio)
  BY <1>2, <1>3
<1>. QED
  BY <1>1, <1>4

LEMMA SpeechOnceHeard ==
    ASSUME VadInv, NEW speech \in BOOLEAN, Listen(speech), NEW f \in Frame, Lasting(f)'
    PROVE  /\ Lasting(f)
           /\ \A g \in f..(f + Padding - 1) : g \in 1..Len(audio) => audio[g]
<1>1. /\ audio \in Seq(BOOLEAN) /\ Len(audio) \in Nat /\ audio' = Append(audio, speech)
  BY DEF VadInv, VadTypeOK, Listen
<1>2. \A g \in 1..Len(audio) : g \in 1..Len(audio') /\ audio'[g] = audio[g]
  BY <1>1
<1>3. \A g \in f..(f + Padding - 1) : g \in 1..Len(audio') => audio'[g]
  BY DEF Lasting
<1>. QED
  BY <1>2, <1>3 DEF Lasting

LEMMA KeptInvListening ==
    ASSUME VadInv, KeptInv, NEW speech \in BOOLEAN, Listen(speech)
    PROVE  KeptInv'
<1>. DEFINE n == Len(audio)
            m == n + 1
            now == Pushed(m)
            b == n - Waiting
<1>1. /\ n \in Nat /\ m \in Nat /\ Len(audio') = m /\ m \in Frame
      /\ ring \in Seq(Frame) /\ Len(ring) \in Nat /\ Len(ring) <= Padding
      /\ EndsAt(ring, n) /\ ~closed /\ ~closed'
      /\ audio' = Append(audio, speech) /\ audio \in Seq(BOOLEAN) /\ triggered \in BOOLEAN
  BY FrameFacts DEF VadInv, VadTypeOK, RunsGoOn, Listen, Listening, KeptInv
<1>2. /\ now \in Seq(Frame) /\ EndsAt(now, m) /\ Len(now) \in Nat
      /\ Len(now) = IF Len(ring) = Padding THEN Len(ring) ELSE Len(ring) + 1
  <2>1. now \in Seq(Frame) /\ EndsAt(now, m) /\ Len(now) \in Nat
    BY <1>1, PushedKeeps DEF VadInv
  <2>2. CASE Len(ring) = Padding
    <3>1. ring # <<>>
      BY <2>2, VadAssumption
    <3>2. Tail(ring) \in Seq(Frame) /\ Len(Tail(ring)) = Len(ring) - 1
      BY <1>1, <3>1, TailFacts
    <3>3. Len(Append(Tail(ring), m)) = Len(ring)
      BY <1>1, <3>2, AppendFacts
    <3>. QED
      BY <2>1, <2>2, <3>3 DEF Pushed
  <2>3. CASE Len(ring) # Padding
    <3>1. Len(Append(ring, m)) = Len(ring) + 1
      BY <1>1, AppendFacts
    <3>. QED
      BY <2>1, <2>3, <3>1 DEF Pushed
  <2>. QED
    BY <2>2, <2>3
<1>3. /\ Kept \in Seq(Frame) /\ IsIncreasing(Kept) /\ b \in Int
      /\ \A i \in DOMAIN Kept : Kept[i] <= b
      /\ \A f \in 1..b : Lasting(f) => f \in Range(Kept)
      /\ Waiting = IF triggered THEN 0 ELSE Len(ring)
  <2>1. Kept \in Seq(Frame) /\ Waiting = IF triggered THEN 0 ELSE Len(ring)
    BY KeptParts DEF Waiting
  <2>2. /\ \A i \in DOMAIN Kept : Kept[i] + Waiting <= n
        /\ \A f \in 1..(n - Waiting) : Lasting(f) => f \in Range(Kept)
        /\ IsIncreasing(Kept)
    BY DEF KeptInv, FramesInOrder, IsIncreasing
  <2>3. Waiting \in Nat /\ \A i \in DOMAIN Kept : Kept[i] \in Nat
    BY <1>1, <2>1 DEF Frame
  <2>. QED
    BY <1>1, <2>1, <2>2, <2>3
<1>4. \A f \in Frame : Lasting(f)' =>
         /\ Lasting(f)
         /\ \A g \in f..(f + Padding - 1) : g \in 1..Len(audio) => audio[g]
  BY SpeechOnceHeard
\* The frame that falls out of a full ring begins no lasting speech.
<1>5. ASSUME ~triggered, Len(ring) = Padding,
             NEW f \in Frame, f = n - Padding + 1, Lasting(f)'
      PROVE  FALSE
  <2>1. f + Padding - 1 = n /\ f >= 1 /\ f \in Nat
    BY <1>1, <1>5, VadAssumption DEF Frame
  <2>2. \A g \in f..(f + Padding - 1) : g \in 1..n => audio[g]
    BY <1>4, <1>5
  <2>3. ASSUME NEW g \in f..n PROVE audio[g]
    <3>1. g \in f..(f + Padding - 1) /\ g \in 1..n
      BY <1>1, <2>1
    <3>. QED
      BY <2>2, <3>1
  <2>. QED
    BY <1>1, <1>5, <2>3, NoSpeechFillsTheRing
<1>6. \/ /\ triggered /\ Kept' = Kept \o <<m>> /\ Waiting' = 0
         /\ (ring' = <<>> \/ (ring' = now /\ triggered' = TRUE))
      \/ ~triggered /\ Kept' = Kept \o now /\ ring' = <<>> /\ Waiting' = 0
      \/ /\ ~triggered /\ Kept' = Kept /\ ring' = now /\ ~triggered' /\ Waiting' = Len(now)
         /\ ~Enough(now, audio', TRUE)
  BY KeptWhenListening
<1>7. Padding \in Nat \ {0} /\ Len(<<>>) = 0
  BY VadAssumption
<1>8. <<m>> \in Seq(Frame) /\ Len(<<m>>) = 1 /\ EndsAt(<<m>>, m)
  BY <1>1 DEF EndsAt
<1>. HIDE DEF n, m, now, b
<1>9. Len(ring') <= Padding
  <2>1. ring' = <<>> \/ ring' = now
    BY <1>6
  <2>2. Len(now) <= Padding
    BY <1>1, <1>2, <1>7
  <2>. QED
    BY <1>7, <2>1, <2>2
<1>10. ~triggered' /\ Len(ring') = Padding => \E i \in DOMAIN ring' : ~audio'[ring'[i]]
  <2>1. SUFFICES ASSUME ~triggered', Len(ring') = Padding,
                        \A i \in DOMAIN ring' : audio'[ring'[i]]
                 PROVE  FALSE
    OBVIOUS
  <2>2. ring' = now /\ ~Enough(now, audio', TRUE)
    BY <1>6, <1>7, <2>1
  <2>3. ASSUME NEW i \in DOMAIN now PROVE audio'[now[i]] = TRUE
    <3>1. now[i] = m - Len(now) + i /\ now[i] \in Frame /\ i \in 1..Len(now)
      BY <1>2 DEF EndsAt
    <3>2. now[i] \in 1..m
      <4>1. Len(now) \in Nat /\ m \in Nat /\ i \in Nat /\ i <= Len(now)
        BY <1>1, <1>2, <3>1
      <4>2. now[i] \in Nat /\ now[i] > 0
        BY <3>1 DEF Frame
      <4>. QED
        BY <3>1, <4>1, <4>2, SMTT(60)
    <3>3. audio'[now[i]] \in BOOLEAN
      BY <1>1, <3>2
    <3>. QED
      BY <2>1, <2>2, <3>3
  <2>. QED
    BY <1>2, <2>1, <2>2, <2>3, AllAreEnough
<1>11. /\ IsIncreasing(Kept')
       /\ \A i \in DOMAIN Kept' : Kept'[i] + Waiting' <= m
       /\ \A f \in 1..(m - Waiting') : Lasting(f)' => f \in Range(Kept')
  <2>1. CASE triggered /\ Kept' = Kept \o <<m>> /\ Waiting' = 0
    <3>1. b = n /\ m = n + 1
      BY <1>1, <1>3, <2>1 DEF b, m
    <3>2. /\ IsIncreasing(Kept \o <<m>>)
          /\ \A i \in DOMAIN (Kept \o <<m>>) : (Kept \o <<m>>)[i] <= m
          /\ Range(Kept) \subseteq Range(Kept \o <<m>>)
          /\ \A f \in (m - Len(<<m>>) + 1)..m : f \in Range(Kept \o <<m>>)
      <4>1. b + Len(<<m>>) <= m
        BY <1>1, <1>8, <3>1
      <4>. QED
        BY <1>1, <1>3, <1>8, <4>1, IncreasingConcat
    <3>3. Kept' \in Seq(Frame)
      BY <1>3, <1>8, <2>1, ConcatProperties
    <3>4. \A i \in DOMAIN Kept' : Kept'[i] + Waiting' <= m
      <4>1. ASSUME NEW i \in DOMAIN Kept' PROVE Kept'[i] + Waiting' <= m
        <5>1. Kept'[i] \in Nat
          BY <3>3 DEF Frame
        <5>2. Kept'[i] <= m
          BY <2>1, <3>2
        <5>. QED
          BY <1>1, <2>1, <5>1, <5>2
      <4>. QED
        BY <4>1
    <3>5. ASSUME NEW f \in 1..(m - Waiting'), Lasting(f)' PROVE f \in Range(Kept')
      <4>1. f \in 1..m /\ f \in Frame
        BY <1>1, <2>1 DEF Frame
      <4>2. CASE f \in 1..b
        BY <1>3, <1>4, <2>1, <3>2, <3>5, <4>1, <4>2
      <4>3. CASE f = m
        <5>1. f \in (m - Len(<<m>>) + 1)..m
          BY <1>1, <1>8, <4>3
        <5>. QED
          BY <2>1, <3>2, <5>1
      <4>. QED
        BY <1>1, <3>1, <4>1, <4>2, <4>3
    <3>. QED
      BY <2>1, <3>2, <3>4, <3>5
  <2>2. CASE ~triggered /\ Kept' = Kept \o now /\ Waiting' = 0
    <3>1. b = n - Len(ring) /\ m = n + 1
      BY <1>3, <2>2 DEF b, m
    <3>2. /\ IsIncreasing(Kept \o now)
          /\ \A i \in DOMAIN (Kept \o now) : (Kept \o now)[i] <= m
          /\ Range(Kept) \subseteq Range(Kept \o now)
          /\ \A f \in (m - Len(now) + 1)..m : f \in Range(Kept \o now)
      <4>1. b + Len(now) <= m
        BY <1>1, <1>2, <3>1
      <4>. QED
        BY <1>1, <1>2, <1>3, <4>1, IncreasingConcat
    <3>3. Kept' \in Seq(Frame)
      BY <1>2, <1>3, <2>2, ConcatProperties
    <3>4. \A i \in DOMAIN Kept' : Kept'[i] + Waiting' <= m
      <4>1. ASSUME NEW i \in DOMAIN Kept' PROVE Kept'[i] + Waiting' <= m
        <5>1. Kept'[i] \in Nat
          BY <3>3 DEF Frame
        <5>2. Kept'[i] <= m
          BY <2>2, <3>2
        <5>. QED
          BY <1>1, <2>2, <5>1, <5>2
      <4>. QED
        BY <4>1
    <3>5. ASSUME NEW f \in 1..(m - Waiting'), Lasting(f)' PROVE f \in Range(Kept')
      <4>1. f \in 1..m /\ f \in Frame
        BY <1>1, <2>2 DEF Frame
      <4>2. CASE f \in 1..b
        BY <1>3, <1>4, <2>2, <3>2, <3>5, <4>1, <4>2
      <4>3. CASE f \in (m - Len(now) + 1)..m
        BY <2>2, <3>2, <4>3
      <4>4. f \in 1..b \/ f \in (m - Len(now) + 1)..m
        <5>1. SUFFICES ASSUME f \notin 1..b, f \notin (m - Len(now) + 1)..m PROVE FALSE
          OBVIOUS
        <5>2. Len(ring) = Padding /\ f = n - Padding + 1
          BY <1>1, <1>2, <1>7, <3>1, <4>1, <5>1
        <5>. QED
          BY <1>5, <2>2, <3>5, <4>1, <5>2
      <4>. QED
        BY <4>2, <4>3, <4>4
    <3>. QED
      BY <2>2, <3>2, <3>4, <3>5
  <2>3. CASE ~triggered /\ Kept' = Kept /\ Waiting' = Len(now)
    <3>1. b = n - Len(ring) /\ m = n + 1
      BY <1>3, <2>3 DEF b, m
    <3>2. \A i \in DOMAIN Kept' : Kept'[i] + Waiting' <= m
      <4>1. ASSUME NEW i \in DOMAIN Kept PROVE Kept[i] + Len(now) <= m
        <5>1. Kept[i] \in Nat
          BY <1>3 DEF Frame
        <5>2. Kept[i] <= n - Len(ring)
          BY <1>3, <3>1
        <5>. QED
          BY <1>1, <1>2, <3>1, <5>1, <5>2
      <4>. QED
        BY <2>3, <4>1
    <3>3. ASSUME NEW f \in 1..(m - Waiting'), Lasting(f)' PROVE f \in Range(Kept')
      <4>1. f \in 1..(m - Len(now)) /\ f \in Frame
        BY <2>3 DEF Frame
      <4>2. f \in 1..b
        <5>1. SUFFICES ASSUME f \notin 1..b PROVE FALSE
          OBVIOUS
        <5>2. Len(ring) = Padding /\ f = n - Padding + 1
          BY <1>1, <1>2, <1>7, <3>1, <4>1, <5>1
        <5>. QED
          BY <1>5, <2>3, <3>3, <4>1, <5>2
      <4>. QED
        BY <1>3, <1>4, <2>3, <3>3, <4>1, <4>2
    <3>. QED
      BY <1>3, <2>3, <3>2, <3>3
  <2>. QED
    BY <1>6, <2>1, <2>2, <2>3
<1>12. FramesInOrder'
  BY <1>11 DEF FramesInOrder, IsIncreasing
<1>. QED
  BY <1>1, <1>9, <1>10, <1>11, <1>12 DEF KeptInv, m

\* A step that only moves frames from one place to the next keeps what is kept.
LEMMA KeptInvElsewhere ==
    ASSUME VadInv, KeptInv, Kept' = Kept,
           audio' = audio, triggered' = triggered, ring' = ring,
           closed' => (chunk' = <<>> /\ piece' = <<>> /\ segment' = <<>>)
    PROVE  KeptInv'
<1>1. Waiting' = Waiting
  BY DEF Waiting
<1>2. \A f : Lasting(f)' <=> Lasting(f)
  BY DEF Lasting
<1>3. FramesInOrder'
  BY DEF KeptInv, FramesInOrder
<1>. QED
  BY <1>1, <1>2, <1>3 DEF KeptInv

LEMMA KeptInvStored ==
    ASSUME VadInv, KeptInv, Store
    PROVE  KeptInv'
<1>1. /\ closed /\ chunk = <<>> /\ piece = <<>> /\ segment = <<>> /\ voiced = <<>>
  BY DEF Store, KeptInv, VadInv, RunsGoOn
<1>2. /\ audio' = <<>> /\ triggered' = FALSE /\ ring' = <<>> /\ chunks' = <<>>
      /\ chunk' = <<>> /\ piece' = <<>> /\ segment' = <<>> /\ voiced' = <<>>
  BY <1>1 DEF Store
<1>3. Kept' = <<>>
  <2>1. [at |-> 0, frames |-> <<>>] \in Placed /\ <<>> \in Seq(Placed) /\ <<>> \in Seq(Seq(Placed))
    BY EmptyFacts DEF Placed
  <2>2. FramesOf(<<>>) = <<>> /\ FramesOfAll(<<>>) = <<>>
    BY <2>1, FramesOfFacts, FramesOfAllFacts
  <2>3. Kept' = FramesOfAll(<<>>) \o FramesOf(<<>>) \o <<>> \o <<>> \o <<>>
    BY <1>2 DEF Kept
  <2>4. <<>> \o <<>> = <<>>
    BY EmptyFacts, ConcatEmptySeq
  <2>. QED
    BY <2>2, <2>3, <2>4
<1>4. Len(<<>>) = 0 /\ DOMAIN <<>> = {} /\ Padding \in Nat \ {0} /\ 2..0 = {} /\ 1..(0 - 0) = {}
  BY VadAssumption
<1>5. Waiting' = 0
  BY <1>2, <1>4 DEF Waiting
<1>6. FramesInOrder'
  BY <1>3, <1>4 DEF FramesInOrder
<1>7. Len(ring') = 0 /\ Len(audio') = 0
  BY <1>2, <1>4
<1>. QED
  BY <1>2, <1>3, <1>4, <1>5, <1>6, <1>7 DEF KeptInv

LEMMA KeptInvStarts == Init => KeptInv
<1>1. SUFFICES ASSUME Init PROVE KeptInv
  OBVIOUS
<1>2. /\ audio = <<>> /\ triggered = FALSE /\ ring = <<>> /\ chunks = <<>>
      /\ chunk = <<>> /\ piece = <<>> /\ segment = <<>> /\ voiced = <<>>
  BY <1>1 DEF Init, VadInit
<1>3. Kept = <<>>
  <2>1. [at |-> 0, frames |-> <<>>] \in Placed /\ <<>> \in Seq(Placed) /\ <<>> \in Seq(Seq(Placed))
    BY EmptyFacts DEF Placed
  <2>2. FramesOf(<<>>) = <<>> /\ FramesOfAll(<<>>) = <<>>
    BY <2>1, FramesOfFacts, FramesOfAllFacts
  <2>3. Kept = FramesOfAll(<<>>) \o FramesOf(<<>>) \o <<>> \o <<>> \o <<>>
    BY <1>2 DEF Kept
  <2>4. <<>> \o <<>> = <<>>
    BY EmptyFacts, ConcatEmptySeq
  <2>. QED
    BY <2>2, <2>3, <2>4
<1>4. Len(<<>>) = 0 /\ DOMAIN <<>> = {} /\ Padding \in Nat \ {0} /\ 2..0 = {} /\ 1..(0 - 0) = {}
  BY VadAssumption
<1>5. Waiting = 0
  BY <1>2, <1>4 DEF Waiting
<1>6. FramesInOrder
  BY <1>3, <1>4 DEF FramesInOrder
<1>7. Len(ring) = 0 /\ Len(audio) = 0
  BY <1>2, <1>4
<1>. QED
  BY <1>2, <1>3, <1>4, <1>5, <1>6, <1>7 DEF KeptInv

LEMMA KeptInvStays == VadInv /\ KeptInv /\ [Next]_vars => KeptInv'
<1>1. SUFFICES ASSUME VadInv, KeptInv, [Next]_vars PROVE KeptInv'
  OBVIOUS
<1>2. ASSUME NEW speech \in BOOLEAN, Listen(speech) PROVE KeptInv'
  BY <1>1, <1>2, KeptInvListening
<1>3. CASE EndOfAudio
  <2>1. ~closed'
    BY <1>1, <1>3 DEF EndOfAudio, Listening, VadInv, RunsGoOn
  <2>. QED
    BY <1>1, <1>3, <2>1, KeptAtTheEnd, KeptInvElsewhere DEF EndOfAudio
<1>4. ASSUME NEW up \in BOOLEAN, CutFrame(up) PROVE KeptInv'
  <2>1. ~closed'
    BY <1>1, <1>4 DEF CutFrame, KeptInv
  <2>. QED
    BY <1>1, <1>4, <2>1, KeptWhenCut, KeptInvElsewhere DEF CutFrame, listenVars
<1>5. ASSUME NEW up \in BOOLEAN, CutRest(up) PROVE KeptInv'
  <2>1. ~closed'
    BY <1>1, <1>5 DEF CutRest, KeptInv
  <2>. QED
    BY <1>1, <1>5, <2>1, KeptWhenCutOff, KeptInvElsewhere DEF CutRest, listenVars
<1>6. CASE Close
  BY <1>1, <1>6, KeptWhenClosed, KeptInvElsewhere DEF Close, listenVars
<1>7. CASE Store
  BY <1>1, <1>7, KeptInvStored
<1>8. CASE UNCHANGED vadVars
  <2>1. Kept' = Kept
    BY <1>8 DEF Kept, vadVars, packVars, listenVars
  <2>. QED
    BY <1>1, <1>8, <2>1, KeptInvElsewhere DEF vadVars, packVars, listenVars, KeptInv
<1>. QED
  BY <1>1, <1>2, <1>3, <1>4, <1>5, <1>6, <1>7, <1>8
     DEF Next, Split, VadNext, Recognize, NextChunk, Sort, vars

\* All that is kept was heard before the frames that still wait, and whatever falls out
\* of the ring begins no lasting speech.
THEOREM SpecKeptInv == Spec => []KeptInv
  BY KeptInvStarts, KeptInvStays, SpecVadInv, PTL DEF Spec

\* What is spoken reaches the provider once and in order, whatever the audio, the
\* padding, the share of speech that triggers and the limit are (vad.py:127-221).
THEOREM FramesAllKept == Spec => []FramesAreKept
<1>1. ASSUME VadInv, KeptInv PROVE SpeechIsKept
  <2>1. SUFFICES ASSUME closed, NEW f \in 1..(Len(audio) - Padding + 1),
                        \A g \in f..(f + Padding - 1) : audio[g]
                 PROVE  f \in Range(Kept)
    BY DEF SpeechIsKept
  <2>. DEFINE n == Len(audio)
  <2>2. /\ n \in Nat /\ Padding \in Nat \ {0} /\ f \in Nat /\ Len(ring) \in Nat
        /\ Len(ring) <= Padding /\ 1 <= f /\ f <= n - Padding + 1
        /\ Waiting = IF triggered THEN 0 ELSE Len(ring)
    BY <1>1, VadAssumption DEF VadInv, VadTypeOK, KeptInv, Waiting
  <2>3. Lasting(f)
    BY <2>1 DEF Lasting
  <2>4. CASE f \in 1..(n - Waiting)
    BY <1>1, <2>3, <2>4 DEF KeptInv
  <2>5. CASE f \notin 1..(n - Waiting)
    <3>1. ~triggered /\ Len(ring) = Padding /\ f = n - Padding + 1 /\ f + Padding - 1 = n
      BY <2>2, <2>5
    <3>. QED
      BY <1>1, <2>1, <3>1, NoSpeechFillsTheRing
  <2>. QED
    BY <2>4, <2>5
<1>2. VadInv /\ KeptInv => FramesAreKept
  BY <1>1 DEF FramesAreKept, KeptInv
<1>. QED
  BY <1>2, SpecKeptInv, SpecVadInv, PTL

-----------------------------------------------------------------------------
(* Merging.                                                                *)

Follows(c, d) == LastFrame(c[Len(c)]) < d[1].frames[1]

\* A chunk begins behind the one before it; between two chunks there is always one
\* that is being packed.
ChunksGoOn ==
    /\ \A k \in 2..Len(chunks) : Follows(chunks[k - 1], chunks[k])
    /\ chunk # <<>> /\ chunks # <<>> => Follows(chunks[Len(chunks)], chunk)
    /\ chunk = <<>> /\ chunks # <<>> => closed

ALine == [start : Nat, end : Nat, said : Said]

StoredInOrder ==
    /\ \A k \in 1..Len(stored) : Orderly(stored[k])
    /\ \A k \in 2..Len(stored) :
          stored[k - 1][Len(stored[k - 1])].sourceEnd <= stored[k][1].sourceStart

Progress ==
    /\ at \in Nat /\ last \in Nat /\ Len(stored) \in Nat /\ DOMAIN stored = 1..Len(stored)
    /\ inOrder \in BOOLEAN /\ sorted \in BOOLEAN
    /\ lines \in Seq(ALine)
    /\ stored = <<>> => lines = <<>> /\ ~sorted
    /\ stored # <<>> => closed /\ chunks = <<>> /\ at > 0
    /\ sorted => at = Len(stored) + 1

InOrder(s) == \A i \in 2..Len(s) : s[i - 1].start <= s[i].start

\* The last line begins no later than the last segment that was merged, mapped back.
LinesBehind ==
    inOrder /\ lines # <<>> /\ at \in DOMAIN stored =>
       lines[Len(lines)].start <= MapChunkTime(last, stored[at])

MergeInv ==
    /\ ChunksGoOn /\ StoredInOrder /\ Progress
    /\ inOrder => InOrder(lines)
    /\ LinesBehind /\ NoEcho

-----------------------------------------------------------------------------
(* Sorting.                                                                *)

LEMMA LineFacts ==
    ASSUME NEW s \in Seq(ALine)
    PROVE  /\ Len(s) \in Nat /\ DOMAIN s = 1..Len(s)
           /\ \A i \in 1..Len(s) : /\ s[i] \in ALine /\ s[i].start \in Nat /\ s[i].end \in Nat
                                   /\ i \in Nat
<1>1. Len(s) \in Nat /\ DOMAIN s = 1..Len(s) /\ \A i \in 1..Len(s) : s[i] \in ALine
  OBVIOUS
<1>2. \A l \in ALine : l.start \in Nat /\ l.end \in Nat
  BY DEF ALine
<1>3. \A i \in 1..Len(s) : i \in Nat
  BY <1>1
<1>. QED
  BY <1>1, <1>2, <1>3

Before(s, i, j) ==
    \/ s[i].start < s[j].start
    \/ s[i].start = s[j].start /\ s[i].end < s[j].end
    \/ s[i].start = s[j].start /\ s[i].end = s[j].end /\ i < j

PlaceIn(s, i) == Cardinality({j \in DOMAIN s : Before(s, j, i)}) + 1

LEMMA SortedLinesAre ==
    \A s : SortedLines(s) = [k \in DOMAIN s |-> s[CHOOSE i \in DOMAIN s : PlaceIn(s, i) = k]]
  BY DEF SortedLines, PlaceIn, Before

LEMMA PlaceFacts ==
    ASSUME NEW s \in Seq(ALine), NEW i \in DOMAIN s
    PROVE  /\ PlaceIn(s, i) \in 1..Len(s)
           /\ \A j \in DOMAIN s : Before(s, i, j) => PlaceIn(s, i) < PlaceIn(s, j)
<1>. DEFINE n == Len(s)
            Ahead(j) == {x \in DOMAIN s : Before(s, x, j)}
<1>1. /\ n \in Nat /\ DOMAIN s = 1..n
      /\ \A j \in 1..n : s[j].start \in Nat /\ s[j].end \in Nat /\ j \in Nat
  BY LineFacts
<1>2. IsFiniteSet(1..n) /\ Cardinality(1..n) = n
  <2>1. 1 \in Int /\ n \in Int
    BY <1>1
  <2>2. IsFiniteSet(1..n) /\ Cardinality(1..n) = IF 1 > n THEN 0 ELSE n - 1 + 1
    BY <2>1, FS_Interval
  <2>. QED
    BY <1>1, <2>2
<1>3. ASSUME NEW j \in DOMAIN s
      PROVE  /\ Ahead(j) \in SUBSET (1..n) /\ j \notin Ahead(j)
             /\ IsFiniteSet(Ahead(j)) /\ Cardinality(Ahead(j)) \in Nat
             /\ PlaceIn(s, j) = Cardinality(Ahead(j)) + 1
  <2>1. Ahead(j) \in SUBSET (1..n) /\ j \notin Ahead(j)
    BY <1>1 DEF Before
  <2>2. IsFiniteSet(Ahead(j))
    BY <1>2, <2>1, FS_Subset
  <2>. QED
    BY <2>1, <2>2, FS_CardinalityType DEF PlaceIn
<1>4. PlaceIn(s, i) \in 1..n
  <2>1. /\ Ahead(i) \in SUBSET (1..n) /\ i \notin Ahead(i) /\ Cardinality(Ahead(i)) \in Nat
        /\ PlaceIn(s, i) = Cardinality(Ahead(i)) + 1
    BY <1>3
  <2>. HIDE DEF Ahead
  <2>2. Cardinality(Ahead(i)) <= n /\ (n = Cardinality(Ahead(i)) => 1..n = Ahead(i))
    <3>. DEFINE T == Ahead(i)
    <3>1. T \in SUBSET (1..n)
      BY <2>1
    <3>. HIDE DEF T, n
    <3>2. Cardinality(T) <= Cardinality(1..n) /\ (Cardinality(1..n) = Cardinality(T) => 1..n = T)
      BY <1>2, <3>1, FS_Subset
    <3>. QED
      BY <1>2, <3>2 DEF T
  <2>3. n # Cardinality(Ahead(i))
    BY <1>1, <2>1, <2>2
  <2>. QED
    BY <1>1, <2>1, <2>2, <2>3
<1>5. ASSUME NEW j \in DOMAIN s, Before(s, i, j) PROVE PlaceIn(s, i) < PlaceIn(s, j)
  <2>1. Ahead(i) \in SUBSET Ahead(j)
    <3>1. ASSUME NEW x \in DOMAIN s, Before(s, x, i) PROVE Before(s, x, j)
      <4>1. /\ s[x].start \in Nat /\ s[x].end \in Nat /\ s[i].start \in Nat /\ s[i].end \in Nat
            /\ s[j].start \in Nat /\ s[j].end \in Nat /\ x \in Nat /\ i \in Nat /\ j \in Nat
        BY <1>1
      <4>. QED
        BY <1>5, <3>1, <4>1 DEF Before
    <3>. QED
      BY <3>1
  <2>2. i \in Ahead(j) /\ i \notin Ahead(i)
    BY <1>3, <1>5
  <2>3. IsFiniteSet(Ahead(j)) /\ Cardinality(Ahead(j)) \in Nat /\ Cardinality(Ahead(i)) \in Nat
        /\ PlaceIn(s, i) = Cardinality(Ahead(i)) + 1 /\ PlaceIn(s, j) = Cardinality(Ahead(j)) + 1
    BY <1>3
  <2>. HIDE DEF Ahead
  <2>4. Cardinality(Ahead(i)) <= Cardinality(Ahead(j))
        /\ (Cardinality(Ahead(j)) = Cardinality(Ahead(i)) => Ahead(j) = Ahead(i))
    <3>. DEFINE S == Ahead(j)
                T == Ahead(i)
    <3>1. T \in SUBSET S /\ IsFiniteSet(S)
      BY <2>1, <2>3
    <3>. HIDE DEF S, T
    <3>2. Cardinality(T) <= Cardinality(S) /\ (Cardinality(S) = Cardinality(T) => S = T)
      BY <3>1, FS_Subset
    <3>. QED
      BY <3>2 DEF S, T
  <2>. QED
    BY <2>2, <2>3, <2>4
<1>. QED
  BY <1>4, <1>5

\* The stable sort leaves the lines in the order of their start times, and there is a
\* line for every place.
LEMMA SortingOrders ==
    ASSUME NEW s \in Seq(ALine)
    PROVE  SortedLines(s) \in Seq(ALine) /\ InOrder(SortedLines(s))
           /\ Len(SortedLines(s)) = Len(s)
<1>. DEFINE n == Len(s)
            place == [i \in 1..n |-> PlaceIn(s, i)]
            At(k) == CHOOSE i \in DOMAIN s : PlaceIn(s, i) = k
<1>1. /\ n \in Nat /\ DOMAIN s = 1..n
      /\ \A j \in 1..n : s[j] \in ALine /\ s[j].start \in Nat /\ s[j].end \in Nat /\ j \in Nat
  BY LineFacts
<1>2. \A i \in 1..n : /\ PlaceIn(s, i) \in 1..n
                      /\ \A j \in 1..n : Before(s, i, j) => PlaceIn(s, i) < PlaceIn(s, j)
  BY <1>1, PlaceFacts
<1>3. \A i, j \in 1..n : i # j => Before(s, i, j) \/ Before(s, j, i)
  <2>1. ASSUME NEW i \in 1..n, NEW j \in 1..n, i # j PROVE Before(s, i, j) \/ Before(s, j, i)
    <3>1. /\ s[i].start \in Nat /\ s[i].end \in Nat /\ s[j].start \in Nat /\ s[j].end \in Nat
          /\ i \in Nat /\ j \in Nat
      BY <1>1
    <3>. QED
      BY <2>1, <3>1 DEF Before
  <2>. QED
    BY <2>1
<1>4. place \in Injection(1..n, 1..n)
  <2>1. place \in [1..n -> 1..n]
    BY <1>2
  <2>2. ASSUME NEW i \in 1..n, NEW j \in 1..n, place[i] = place[j] PROVE i = j
    <3>1. PlaceIn(s, i) = PlaceIn(s, j) /\ PlaceIn(s, i) \in 1..n
      BY <1>2, <2>2
    <3>2. ~(PlaceIn(s, i) < PlaceIn(s, j)) /\ ~(PlaceIn(s, j) < PlaceIn(s, i))
      BY <1>1, <3>1
    <3>. QED
      BY <1>2, <1>3, <3>2
  <2>. QED
    BY <2>1, <2>2 DEF Injection, IsInjective
<1>5. place \in Surjection(1..n, 1..n)
  <2>1. IsFiniteSet(1..n)
    <3>1. 1 \in Int /\ n \in Int
      BY <1>1
    <3>. QED
      BY <3>1, FS_Interval
  <2>. DEFINE S == 1..n
  <2>. HIDE DEF n, place
  <2>2. place \in Injection(S, S) /\ IsFiniteSet(S)
    BY <1>4, <2>1
  <2>. HIDE DEF S
  <2>3. place \in Surjection(S, S)
    BY <2>2, FS_Injection
  <2>. QED
    BY <2>3 DEF S
<1>6. ASSUME NEW k \in 1..n PROVE At(k) \in 1..n /\ PlaceIn(s, At(k)) = k
  <2>1. \E i \in 1..n : place[i] = k
    BY <1>5 DEF Surjection
  <2>2. \E i \in DOMAIN s : PlaceIn(s, i) = k
    BY <1>1, <2>1
  <2>. QED
    BY <1>1, <2>2
<1>. HIDE DEF place
<1>7. SortedLines(s) = [k \in 1..n |-> s[At(k)]]
  BY <1>1, SortedLinesAre
<1>. HIDE DEF At
<1>8. SortedLines(s) \in Seq(ALine) /\ Len(SortedLines(s)) = n
  BY <1>1, <1>6, <1>7
<1>9. ASSUME NEW k \in 2..n PROVE SortedLines(s)[k - 1].start <= SortedLines(s)[k].start
  <2>1. k \in 1..n /\ k - 1 \in 1..n /\ ~(k < k - 1)
    BY <1>1
  <2>2. SortedLines(s)[k] = s[At(k)] /\ SortedLines(s)[k - 1] = s[At(k - 1)]
    BY <1>7, <2>1
  <2>3. /\ At(k) \in 1..n /\ At(k - 1) \in 1..n
        /\ PlaceIn(s, At(k)) = k /\ PlaceIn(s, At(k - 1)) = k - 1
    BY <1>6, <2>1
  <2>4. ~Before(s, At(k), At(k - 1))
    BY <1>2, <2>1, <2>3
  <2>5. ~(s[At(k)].start < s[At(k - 1)].start)
    BY <2>4 DEF Before
  <2>6. s[At(k)].start \in Nat /\ s[At(k - 1)].start \in Nat
    BY <1>1, <2>3
  <2>. QED
    BY <2>2, <2>5, <2>6
<1>. QED
  BY <1>8, <1>9 DEF InOrder

-----------------------------------------------------------------------------
(* One chunk behind the other.                                             *)

LEMMA PackGoesOn ==
    ASSUME Packing, ChunksGoOn, ~closed, NEW frames \in Seq(Frame), PackedTo < frames[1],
           NEW up \in BOOLEAN, Pack(frames, up)
    PROVE  /\ \A k \in 2..Len(chunks') : Follows(chunks'[k - 1], chunks'[k])
           /\ chunks' # <<>> => Follows(chunks'[Len(chunks')], chunk')
           /\ chunk' # <<>>
<1>1. chunk \in Seq(Placed) /\ chunks \in Seq(Seq(Placed)) /\ (chunk = <<>> => chunks = <<>>)
  BY DEF Packing, ChunksGoOn
<1>2. /\ \A k \in 2..Len(chunks) : Follows(chunks[k - 1], chunks[k])
      /\ chunk # <<>> /\ chunks # <<>> => Follows(chunks[Len(chunks)], chunk)
  BY DEF ChunksGoOn
<1>3. CASE /\ chunk # <<>> /\ chunks' = Append(chunks, chunk)
           /\ chunk' = <<[at |-> 0, frames |-> frames]>>
  <2>1. /\ Len(chunks) \in Nat /\ Len(chunks') = Len(chunks) + 1
        /\ \A i \in 1..Len(chunks) : chunks'[i] = chunks[i]
        /\ chunks'[Len(chunks) + 1] = chunk
        /\ DOMAIN chunks = 1..Len(chunks)
    BY <1>1, <1>3, AppendFacts
  <2>2. chunk' # <<>> /\ chunk'[1].frames = frames
    BY <1>3
  <2>3. Follows(chunk, chunk')
    <3>1. LastFrame(chunk[Len(chunk)]) < frames[1]
      BY <1>3 DEF PackedTo
    <3>. QED
      BY <2>2, <3>1 DEF Follows
  <2>4. ASSUME NEW k \in 2..Len(chunks') PROVE Follows(chunks'[k - 1], chunks'[k])
    <3>1. CASE k \in 2..Len(chunks)
      <4>1. k \in 1..Len(chunks) /\ k - 1 \in 1..Len(chunks)
        BY <2>1, <3>1
      <4>. QED
        BY <1>2, <2>1, <3>1, <4>1
    <3>2. CASE k \notin 2..Len(chunks)
      <4>1. k = Len(chunks) + 1 /\ k - 1 = Len(chunks) /\ Len(chunks) \in 1..Len(chunks)
            /\ Len(chunks) # 0
        BY <2>1, <3>2
      <4>2. chunks # <<>>
        BY <4>1
      <4>. QED
        BY <1>2, <1>3, <2>1, <4>1, <4>2
    <3>. QED
      BY <3>1, <3>2
  <2>5. Follows(chunks'[Len(chunks')], chunk')
    BY <2>1, <2>3
  <2>. QED
    BY <2>2, <2>4, <2>5
<1>4. CASE chunk' = Append(chunk, [at |-> Cursor, frames |-> frames]) /\ chunks' = chunks
  <2>. DEFINE p == [at |-> Cursor, frames |-> frames]
  <2>1. chunk' = Append(chunk, p) /\ Len(chunk) \in Nat
    BY <1>1, <1>4
  <2>. HIDE DEF p
  <2>2. chunk' # <<>>
    BY <1>1, <2>1
  <2>3. ASSUME chunks # <<>> PROVE Follows(chunks[Len(chunks)], chunk')
    <3>1. chunk # <<>> /\ Follows(chunks[Len(chunks)], chunk)
      BY <1>1, <1>2, <2>3
    <3>2. chunk'[1] = chunk[1]
      BY <1>1, <2>1, <3>1
    <3>. QED
      BY <3>1, <3>2 DEF Follows
  <2>. QED
    BY <1>2, <1>4, <2>2, <2>3
<1>. QED
  BY <1>3, <1>4 DEF Pack

\* What is closed takes no further step.
LEMMA ClosedIsTheEnd ==
    ASSUME VadInv, KeptInv, VadNext
    PROVE  ~closed
  BY DEF VadInv, RunsGoOn, KeptInv, VadNext, Listen, Listening, EndOfAudio, CutFrame, CutRest, Close

LEMMA ChunksStayInOrder ==
    ASSUME VadInv, KeptInv, ChunksGoOn, VadNext
    PROVE  ChunksGoOn'
<1>1. ~closed /\ Packing /\ chunk \in Seq(Placed) /\ chunks \in Seq(Seq(Placed))
  BY ClosedIsTheEnd, PackingOfInv DEF VadInv, VadTypeOK
<1>2. ASSUME UNCHANGED <<chunk, chunks, closed>> PROVE ChunksGoOn'
  BY <1>2 DEF ChunksGoOn
<1>3. ASSUME piece # <<>>, NEW up \in BOOLEAN, Pack(piece, up) PROVE ChunksGoOn'
  <2>1. piece \in Seq(Frame) /\ PackedTo < piece[1]
    BY <1>3 DEF VadInv, VadTypeOK, PackedFirst
  <2>2. /\ \A k \in 2..Len(chunks') : Follows(chunks'[k - 1], chunks'[k])
        /\ chunks' # <<>> => Follows(chunks'[Len(chunks')], chunk')
        /\ chunk' # <<>>
    BY <1>1, <1>3, <2>1, PackGoesOn
  <2>. QED
    BY <2>2 DEF ChunksGoOn
<1>4. ASSUME NEW up \in BOOLEAN, CutFrame(up) PROVE ChunksGoOn'
  BY <1>2, <1>3, <1>4 DEF CutFrame, packVars
<1>5. ASSUME NEW up \in BOOLEAN, CutRest(up) PROVE ChunksGoOn'
  BY <1>3, <1>5 DEF CutRest
<1>6. CASE Close
  <2>1. CASE chunk = <<>>
    <3>1. chunks = <<>> /\ chunks' = <<>>
      BY <1>1, <1>6, <2>1 DEF ChunksGoOn, Close
    <3>2. Len(<<>>) = 0 /\ 2..0 = {}
      OBVIOUS
    <3>. QED
      BY <3>1, <3>2 DEF ChunksGoOn
  <2>2. CASE chunk # <<>>
    <3>1. chunks' = Append(chunks, chunk) /\ chunk' = <<>> /\ closed' = TRUE
      BY <1>6, <2>2 DEF Close
    <3>2. /\ Len(chunks) \in Nat /\ Len(chunks') = Len(chunks) + 1
          /\ \A i \in 1..Len(chunks) : chunks'[i] = chunks[i]
          /\ chunks'[Len(chunks) + 1] = chunk
      BY <1>1, <3>1, AppendFacts
    <3>3. ASSUME NEW k \in 2..Len(chunks') PROVE Follows(chunks'[k - 1], chunks'[k])
      <4>1. CASE k \in 2..Len(chunks)
        <5>1. k \in 1..Len(chunks) /\ k - 1 \in 1..Len(chunks)
          BY <3>2, <4>1
        <5>2. Follows(chunks[k - 1], chunks[k])
          BY <4>1 DEF ChunksGoOn
        <5>. QED
          BY <3>2, <5>1, <5>2
      <4>2. CASE k \notin 2..Len(chunks)
        <5>1. k = Len(chunks) + 1 /\ k - 1 = Len(chunks) /\ Len(chunks) \in 1..Len(chunks)
              /\ Len(chunks) # 0
          BY <3>2, <4>2
        <5>2. chunks # <<>>
          BY <5>1
        <5>3. Follows(chunks[Len(chunks)], chunk)
          BY <2>2, <5>2 DEF ChunksGoOn
        <5>. QED
          BY <3>2, <5>1, <5>3
      <4>. QED
        BY <4>1, <4>2
    <3>. QED
      BY <3>1, <3>3 DEF ChunksGoOn
  <2>. QED
    BY <2>1, <2>2
<1>. QED
  BY <1>2, <1>4, <1>5, <1>6 DEF VadNext, Listen, EndOfAudio, packVars

LEMMA StoredAreOrdered ==
    ASSUME VadInv, ChunksGoOn, Store
    PROVE  StoredInOrder' /\ Len(stored') \in Nat \ {0} /\ DOMAIN stored' = 1..Len(stored')
<1>. DEFINE n == Len(chunks)
<1>1. /\ chunks \in Seq(Seq(Placed)) /\ n \in Nat \ {0} /\ DOMAIN chunks = 1..n
      /\ \A k \in 1..n : chunks[k] \in Seq(Placed) /\ chunks[k] # <<>> /\ Fits(chunks[k])
  <2>1. chunks \in Seq(Seq(Placed)) /\ chunks # <<>>
    BY DEF Store, VadInv, VadTypeOK
  <2>. QED
    BY <2>1 DEF VadInv, SumsAgree, Writable
<1>2. stored' = [k \in 1..n |-> MappingsOf(chunks[k])]
  BY <1>1 DEF Store, Mappings, MappingsOf
<1>3. Len(stored') = n /\ DOMAIN stored' = 1..n /\ \A k \in 1..n : stored'[k] = MappingsOf(chunks[k])
  BY <1>1, <1>2
<1>4. \A k \in 1..n : Orderly(stored'[k])
  BY <1>1, <1>3, MappingsOrderly
<1>5. ASSUME NEW k \in 2..n
      PROVE  stored'[k - 1][Len(stored'[k - 1])].sourceEnd <= stored'[k][1].sourceStart
  <2>1. k \in 1..n /\ k - 1 \in 1..n
    BY <1>1
  <2>. DEFINE c == chunks[k - 1]
              d == chunks[k]
  <2>2. /\ c \in Seq(Placed) /\ c # <<>> /\ Fits(c) /\ d \in Seq(Placed) /\ d # <<>> /\ Fits(d)
        /\ stored'[k - 1] = MappingsOf(c) /\ stored'[k] = MappingsOf(d) /\ Follows(c, d)
    BY <1>1, <1>3, <2>1 DEF ChunksGoOn
  <2>. HIDE DEF c, d
  <2>. DEFINE p == c[Len(c)]
              q == d[1]
  <2>3. /\ Len(c) \in DOMAIN c /\ 1 \in DOMAIN d /\ p \in Placed /\ q \in Placed
        /\ DOMAIN c = 1..Len(c)
    BY <2>2, NonEmptyFacts
  <2>4. /\ Len(MappingsOf(c)) = Len(c)
        /\ MappingsOf(c)[Len(c)] = SourceMapping(p) /\ MappingsOf(d)[1] = SourceMapping(q)
    BY <2>2, <2>3 DEF MappingsOf
  <2>5. p.frames # <<>> /\ IsRun(p.frames) /\ q.frames # <<>> /\ IsRun(q.frames)
    BY <2>2, <2>3 DEF Fits
  <2>6. LastFrame(p) < q.frames[1]
    BY <2>2 DEF Follows
  <2>. HIDE DEF p, q
  <2>7. LastFrame(p) \in Nat /\ q.frames[1] \in Nat
    BY <2>3, <2>5, RunGrows
  <2>8. /\ SourceMapping(p).sourceEnd = FrameTicks * LastFrame(p)
        /\ SourceMapping(q).sourceStart = FrameTicks * (q.frames[1] - 1)
    BY <2>3, <2>5, MappingFacts DEF LastFrame
  <2>9. q.frames[1] - 1 \in Nat /\ LastFrame(p) <= q.frames[1] - 1
    BY <2>6, <2>7
  <2>10. FrameTicks * LastFrame(p) <= FrameTicks * (q.frames[1] - 1)
    BY <2>7, <2>9, ProductsGrow
  <2>. QED
    BY <2>2, <2>4, <2>8, <2>10
<1>. QED
  BY <1>1, <1>3, <1>4, <1>5 DEF StoredInOrder

-----------------------------------------------------------------------------
(* One line behind the other.                                              *)

Echoless(s) ==
    \A i \in 2..Len(s) :
       \/ s[i].said.word # s[i - 1].said.word
       \/ s[i].start > s[i - 1].end + EchoTicks

LEMMA MergedFacts ==
    ASSUME NEW s \in Seq(ALine), NEW l \in ALine
    PROVE  /\ Merged(s, l) \in Seq(ALine) /\ Len(Merged(s, l)) \in Nat \ {0}
           /\ \/ /\ Len(Merged(s, l)) = Len(s) + 1
                 /\ \A i \in 1..Len(s) : Merged(s, l)[i] = s[i]
                 /\ Merged(s, l)[Len(s) + 1] = l
                 /\ s # <<>> => ~IsDuplicate(s[Len(s)], l)
              \/ /\ Len(Merged(s, l)) = Len(s) /\ s # <<>>
                 /\ \A i \in 1..(Len(s) - 1) : Merged(s, l)[i] = s[i]
                 /\ Merged(s, l)[Len(s)] \in {s[Len(s)], l}
                 /\ l.said.word = s[Len(s)].said.word
<1>1. Len(s) \in Nat /\ DOMAIN s = 1..Len(s)
  OBVIOUS
<1>2. CASE s # <<>> /\ IsDuplicate(Last(s), l)
  <2>. DEFINE n == Len(s)
              x == Preferred(Last(s), l)
  <2>1. n \in 1..n /\ Last(s) = s[n] /\ s[n] \in ALine
    BY <1>2 DEF Last
  <2>2. x \in {s[n], l} /\ l.said.word = s[n].said.word
    <3>1. x \in {Last(s), l}
      BY DEF Preferred
    <3>2. l.said.word = Last(s).said.word
      BY <1>2 DEF IsDuplicate
    <3>. QED
      BY <2>1, <3>1, <3>2
  <2>3. Merged(s, l) = [s EXCEPT ![n] = x]
    BY <1>2 DEF Merged
  <2>. HIDE DEF x
  <2>4. x \in ALine
    BY <2>1, <2>2
  <2>5. /\ Merged(s, l) \in Seq(ALine) /\ Len(Merged(s, l)) = n
        /\ \A i \in 1..(n - 1) : Merged(s, l)[i] = s[i]
        /\ Merged(s, l)[n] = x
    BY <1>1, <2>1, <2>3, <2>4
  <2>. QED
    BY <1>1, <1>2, <2>1, <2>2, <2>5
<1>3. CASE ~(s # <<>> /\ IsDuplicate(Last(s), l))
  <2>1. Merged(s, l) = Append(s, l)
    BY <1>3 DEF Merged
  <2>2. s # <<>> => ~IsDuplicate(s[Len(s)], l)
    BY <1>3 DEF Last
  <2>3. /\ Append(s, l) \in Seq(ALine) /\ Len(Append(s, l)) = Len(s) + 1
        /\ \A i \in 1..Len(s) : Append(s, l)[i] = s[i]
        /\ Append(s, l)[Len(s) + 1] = l
    BY AppendFacts
  <2>4. Len(s) + 1 \in Nat \ {0}
    BY <1>1
  <2>. QED
    BY <2>1, <2>2, <2>3, <2>4, Zenon
<1>. QED
  BY <1>2, <1>3

LEMMA MergedKeepsOrder ==
    ASSUME NEW s \in Seq(ALine), NEW l \in ALine, InOrder(s),
           s # <<>> => s[Len(s)].start <= l.start
    PROVE  /\ InOrder(Merged(s, l))
           /\ Merged(s, l)[Len(Merged(s, l))].start <= l.start
           /\ Echoless(s) => Echoless(Merged(s, l))
<1>. DEFINE r == Merged(s, l)
            n == Len(s)
<1>1. /\ r \in Seq(ALine) /\ Len(r) \in Nat \ {0}
      /\ \/ /\ Len(r) = n + 1
            /\ \A i \in 1..n : r[i] = s[i]
            /\ r[n + 1] = l
            /\ s # <<>> => ~IsDuplicate(s[n], l)
         \/ /\ Len(r) = n /\ s # <<>>
            /\ \A i \in 1..(n - 1) : r[i] = s[i]
            /\ r[n] \in {s[n], l}
            /\ l.said.word = s[n].said.word
  BY MergedFacts
<1>2. /\ n \in Nat /\ l.start \in Nat /\ (n # 0 => s # <<>>)
      /\ \A i \in 1..n : s[i].start \in Nat /\ s[i].end \in Nat
  <2>1. l.start \in Nat
    BY DEF ALine
  <2>2. n \in Nat /\ \A i \in 1..n : s[i].start \in Nat /\ s[i].end \in Nat
    BY LineFacts
  <2>3. n # 0 => s # <<>>
    OBVIOUS
  <2>. QED
    BY <2>1, <2>2, <2>3
<1>3. EchoTicks \in Nat
  BY EchoAssumption
<1>. HIDE DEF r, n
<1>4. CASE /\ Len(r) = n + 1
           /\ \A i \in 1..n : r[i] = s[i]
           /\ r[n + 1] = l
           /\ s # <<>> => ~IsDuplicate(s[n], l)
  <2>1. ASSUME NEW i \in 2..Len(r), i \notin 2..n
        PROVE  i = n + 1 /\ n \in 1..n /\ r[i] = l /\ r[i - 1] = s[n] /\ s # <<>>
    BY <1>1, <1>2, <1>4, <2>1
  <2>2. \A i \in 2..n : i \in 1..n /\ i - 1 \in 1..n /\ r[i] = s[i] /\ r[i - 1] = s[i - 1]
    BY <1>2, <1>4
  <2>3. InOrder(r)
    <3>1. ASSUME NEW i \in 2..Len(r) PROVE r[i - 1].start <= r[i].start
      <4>1. CASE i \in 2..n
        BY <2>2, <4>1 DEF InOrder, n
      <4>2. CASE i \notin 2..n
        BY <2>1, <4>2 DEF n
      <4>. QED
        BY <4>1, <4>2
    <3>. QED
      BY <3>1 DEF InOrder
  <2>4. ASSUME Echoless(s) PROVE Echoless(r)
    <3>1. ASSUME NEW i \in 2..Len(r)
          PROVE  r[i].said.word # r[i - 1].said.word \/ r[i].start > r[i - 1].end + EchoTicks
      <4>1. CASE i \in 2..n
        BY <2>2, <2>4, <4>1 DEF Echoless, n
      <4>2. CASE i \notin 2..n
        <5>1. r[i] = l /\ r[i - 1] = s[n] /\ ~IsDuplicate(s[n], l) /\ n \in 1..n
          BY <1>4, <2>1, <4>2
        <5>2. \/ s[n].said.word # l.said.word
              \/ ~(l.start <= s[n].end + EchoTicks)
          BY <5>1 DEF IsDuplicate
        <5>3. ~(l.start <= s[n].end + EchoTicks) => l.start > s[n].end + EchoTicks
          BY <1>2, <1>3, <5>1
        <5>. QED
          BY <5>1, <5>2, <5>3
      <4>. QED
        BY <4>1, <4>2
    <3>. QED
      BY <3>1 DEF Echoless
  <2>. QED
    BY <1>2, <1>4, <2>3, <2>4 DEF r
<1>5. CASE /\ Len(r) = n /\ s # <<>>
           /\ \A i \in 1..(n - 1) : r[i] = s[i]
           /\ r[n] \in {s[n], l}
           /\ l.said.word = s[n].said.word
  <2>1. n \in 1..n
    BY <1>1, <1>2, <1>5
  <2>2. r[n].said.word = s[n].said.word
    BY <1>5
  <2>3. r[n].start \in Nat /\ s[n].start <= r[n].start /\ r[n].start <= l.start
    <3>1. s[n].start \in Nat /\ s[n].start <= l.start
      BY <1>2, <1>5, <2>1 DEF n
    <3>. QED
      BY <1>2, <1>5, <3>1
  <2>4. \A i \in 2..n : i \in 1..n /\ i - 1 \in 1..n /\ r[i - 1] = s[i - 1] /\ (i # n => r[i] = s[i])
    BY <1>2, <1>5
  <2>5. InOrder(r)
    <3>1. ASSUME NEW i \in 2..Len(r) PROVE r[i - 1].start <= r[i].start
      <4>1. i \in 2..n /\ s[i - 1].start <= s[i].start
        BY <1>5, <3>1 DEF InOrder, n
      <4>2. CASE i = n
        <5>1. s[i - 1].start \in Nat /\ s[i].start \in Nat /\ r[i - 1] = s[i - 1]
          BY <1>2, <2>4, <4>1
        <5>. QED
          BY <2>3, <4>1, <4>2, <5>1
      <4>3. CASE i # n
        BY <2>4, <4>1, <4>3
      <4>. QED
        BY <4>2, <4>3
    <3>. QED
      BY <3>1 DEF InOrder
  <2>6. ASSUME Echoless(s) PROVE Echoless(r)
    <3>1. ASSUME NEW i \in 2..Len(r)
          PROVE  r[i].said.word # r[i - 1].said.word \/ r[i].start > r[i - 1].end + EchoTicks
      <4>1. i \in 2..n
        BY <1>5
      <4>2. s[i].said.word # s[i - 1].said.word \/ s[i].start > s[i - 1].end + EchoTicks
        BY <2>6, <4>1 DEF Echoless, n
      <4>3. CASE i = n
        <5>1. /\ s[i - 1].end \in Nat /\ s[i].start \in Nat /\ r[i - 1] = s[i - 1]
              /\ r[i].said.word = s[i].said.word
          BY <1>2, <2>2, <2>4, <4>1, <4>3
        <5>2. s[i].start > s[i - 1].end + EchoTicks => r[i].start > s[i - 1].end + EchoTicks
          BY <1>3, <2>3, <4>3, <5>1, SMTT(60)
        <5>. QED
          BY <4>2, <5>1, <5>2
      <4>4. CASE i # n
        BY <2>4, <4>1, <4>2, <4>4
      <4>. QED
        BY <4>3, <4>4
    <3>. QED
      BY <3>1 DEF Echoless
  <2>. QED
    BY <1>5, <2>3, <2>5, <2>6 DEF r
<1>. QED
  BY <1>1, <1>4, <1>5

LEMMA LineIsMapped ==
    ASSUME NEW ms, Orderly(ms), NEW start \in Nat, NEW end \in Nat, NEW said \in Said
    PROVE  Line(ms, start, end, said) \in ALine
           /\ Line(ms, start, end, said).start = MapChunkTime(start, ms)
<1>1. MapChunkTime(start, ms) \in Nat /\ MapChunkTime(end, ms) \in Nat
  BY MapFacts
<1>. QED
  BY <1>1 DEF Line, ALine

LEMMA MergeInvStarts == Init => MergeInv
<1>1. SUFFICES ASSUME Init PROVE MergeInv
  OBVIOUS
<1>2. /\ chunks = <<>> /\ chunk = <<>> /\ stored = <<>> /\ at = 0 /\ last = 0 /\ lines = <<>>
      /\ inOrder = TRUE /\ sorted = FALSE
  BY <1>1 DEF Init, VadInit
<1>3. Len(<<>>) = 0 /\ 1..0 = {} /\ 2..0 = {} /\ DOMAIN <<>> = {} /\ <<>> \in Seq(ALine)
  OBVIOUS
<1>4. ChunksGoOn /\ StoredInOrder
  BY <1>2, <1>3 DEF ChunksGoOn, StoredInOrder
<1>5. Progress
  BY <1>2, <1>3 DEF Progress
<1>6. InOrder(lines) /\ LinesBehind /\ NoEcho
  BY <1>2, <1>3 DEF InOrder, LinesBehind, NoEcho
<1>. QED
  BY <1>4, <1>5, <1>6 DEF MergeInv

\* While the audio is split there are no lines.
LEMMA MergeInvSplit ==
    ASSUME VadInv, KeptInv, MergeInv, Split
    PROVE  MergeInv'
<1>1. ~closed /\ ChunksGoOn'
  BY ClosedIsTheEnd, ChunksStayInOrder DEF Split, MergeInv
<1>2. UNCHANGED <<stored, at, last, answered, lines, inOrder, sorted>>
  BY DEF Split, mergeVars
<1>3. stored = <<>>
  BY <1>1 DEF MergeInv, Progress
<1>4. StoredInOrder' /\ LinesBehind' /\ NoEcho' /\ (inOrder' => InOrder(lines'))
  BY <1>2 DEF MergeInv, StoredInOrder, LinesBehind, NoEcho
<1>5. Progress'
  BY <1>2, <1>3 DEF MergeInv, Progress
<1>. QED
  BY <1>1, <1>4, <1>5 DEF MergeInv

LEMMA MergeInvStore ==
    ASSUME VadInv, MergeInv, Store
    PROVE  MergeInv'
<1>1. StoredInOrder' /\ Len(stored') \in Nat \ {0} /\ DOMAIN stored' = 1..Len(stored')
  BY StoredAreOrdered DEF MergeInv
<1>2. /\ at' = 1 /\ chunks' = <<>> /\ closed' /\ chunk' = chunk
      /\ last' = last /\ lines' = lines /\ inOrder' = inOrder /\ sorted' = sorted
  BY DEF Store
<1>3. stored = <<>> /\ lines = <<>> /\ ~sorted
  BY DEF Store, MergeInv, Progress
<1>4. Len(<<>>) = 0 /\ 2..0 = {} /\ <<>> \in Seq(ALine)
  OBVIOUS
<1>5. stored' # <<>>
  BY <1>1, <1>4
<1>6. ChunksGoOn'
  BY <1>2, <1>4 DEF ChunksGoOn
<1>7. Progress'
  <2>1. at' \in Nat /\ at' > 0 /\ last' \in Nat /\ inOrder' \in BOOLEAN /\ sorted' \in BOOLEAN
    BY <1>2 DEF MergeInv, Progress
  <2>. QED
    BY <1>1, <1>2, <1>3, <1>4, <1>5, <2>1 DEF Progress
<1>8. LinesBehind' /\ NoEcho' /\ InOrder(lines')
  BY <1>2, <1>3, <1>4 DEF LinesBehind, NoEcho, InOrder
<1>. QED
  BY <1>1, <1>6, <1>7, <1>8 DEF MergeInv

LEMMA MergeInvRecognize ==
    ASSUME MergeInv, NEW start \in Times, NEW said \in Said, NEW end \in {0, start + FrameTicks},
           Recognize(start, end, said)
    PROVE  MergeInv'
<1>. DEFINE ms == stored[at]
            l == Line(ms, start, end, said)
<1>1. /\ Progress /\ StoredInOrder /\ ChunksGoOn /\ at \in DOMAIN stored
      /\ lines' = Merged(lines, l) /\ last' = start /\ inOrder' = (inOrder /\ last <= start)
      /\ UNCHANGED <<vadVars, stored, at, sorted>>
  BY DEF MergeInv, Recognize
<1>2. start \in Nat /\ end \in Nat /\ last \in Nat
  BY <1>1, VadAssumption DEF Times, Progress
<1>3. Orderly(ms)
  BY <1>1 DEF StoredInOrder, Progress
<1>4. l \in ALine /\ l.start = MapChunkTime(start, ms)
  BY <1>2, <1>3, LineIsMapped
<1>5. lines \in Seq(ALine) /\ at \in 1..Len(stored) /\ stored # <<>> /\ ~sorted
  <2>1. /\ DOMAIN stored = 1..Len(stored) /\ Len(stored) \in Nat /\ lines \in Seq(ALine)
        /\ at \in Nat /\ (sorted => at = Len(stored) + 1)
    BY <1>1 DEF Progress
  <2>2. at \in 1..Len(stored)
    BY <1>1, <2>1
  <2>3. at # Len(stored) + 1 /\ Len(stored) # 0
    BY <2>1, <2>2
  <2>. QED
    BY <2>1, <2>2, <2>3
<1>. HIDE DEF l, ms
<1>6. lines' \in Seq(ALine) /\ Len(lines') \in Nat \ {0}
  BY <1>1, <1>4, <1>5, MergedFacts
<1>7. ASSUME inOrder'
      PROVE  InOrder(lines') /\ lines'[Len(lines')].start <= MapChunkTime(start, ms) /\ Echoless(lines')
  <2>1. inOrder /\ last <= start
    BY <1>1, <1>7
  <2>2. InOrder(lines) /\ Echoless(lines)
    BY <1>5, <2>1 DEF MergeInv, NoEcho, Echoless
  <2>3. ASSUME lines # <<>> PROVE lines[Len(lines)].start <= l.start
    <3>1. lines[Len(lines)].start <= MapChunkTime(last, ms)
      BY <1>1, <2>1, <2>3 DEF MergeInv, LinesBehind, ms
    <3>2. MapChunkTime(last, ms) <= MapChunkTime(start, ms) /\ MapChunkTime(last, ms) \in Nat
          /\ MapChunkTime(start, ms) \in Nat
      BY <1>2, <1>3, <2>1, MapFacts
    <3>3. lines[Len(lines)].start \in Nat
      <4>1. Len(lines) \in 1..Len(lines)
        BY <1>5, <2>3
      <4>. QED
        BY <1>5, <4>1, LineFacts
    <3>. QED
      BY <1>4, <3>1, <3>2, <3>3
  <2>. QED
    BY <1>1, <1>4, <1>5, <2>2, <2>3, MergedKeepsOrder
<1>8. ChunksGoOn'
  BY <1>1 DEF ChunksGoOn, vadVars, packVars
<1>9. StoredInOrder'
  BY <1>1 DEF StoredInOrder
<1>10. Progress'
  <2>1. inOrder' \in BOOLEAN
    BY <1>1
  <2>2. /\ at' = at /\ stored' = stored /\ sorted' = sorted /\ closed' = closed /\ chunks' = chunks
        /\ last' \in Nat
    BY <1>1, <1>2 DEF vadVars, packVars
  <2>. QED
    BY <1>1, <1>5, <1>6, <2>1, <2>2 DEF Progress
<1>11. LinesBehind'
  BY <1>1, <1>7 DEF LinesBehind, ms
<1>12. NoEcho'
  BY <1>7 DEF NoEcho, Echoless
<1>. QED
  BY <1>7, <1>8, <1>9, <1>10, <1>11, <1>12 DEF MergeInv

\* What a chunk was heard to say lies before all that is heard in the next one.
LEMMA MergeInvNextChunk ==
    ASSUME MergeInv, NextChunk
    PROVE  MergeInv'
<1>1. /\ at \in 1..Len(stored) /\ Len(stored) \in Nat /\ at \in Nat /\ last \in Nat
      /\ lines \in Seq(ALine) /\ DOMAIN stored = 1..Len(stored) /\ at \in DOMAIN stored
  BY DEF MergeInv, Progress, NextChunk
<1>2. at' = at + 1 /\ last' = 0 /\ UNCHANGED <<vadVars, stored, answered, lines, inOrder, sorted>>
  BY DEF NextChunk
<1>3. ChunksGoOn' /\ StoredInOrder' /\ NoEcho' /\ (inOrder' => InOrder(lines'))
  BY <1>2 DEF MergeInv, ChunksGoOn, StoredInOrder, NoEcho, vadVars, packVars
<1>4. stored # <<>> /\ ~sorted /\ at # Len(stored) + 1
  BY <1>1 DEF MergeInv, Progress
<1>5. Progress'
  <2>1. at' \in Nat /\ at' > 0 /\ last' \in Nat /\ closed' = closed /\ chunks' = chunks
    BY <1>1, <1>2 DEF vadVars, packVars
  <2>. QED
    BY <1>2, <1>4, <2>1 DEF MergeInv, Progress
<1>6. ASSUME inOrder, lines # <<>>, at + 1 \in DOMAIN stored
      PROVE  lines[Len(lines)].start <= MapChunkTime(0, stored[at + 1])
  <2>. DEFINE k == at + 1
              a == stored[at]
              b == stored[k]
  <2>1. k \in 2..Len(stored) /\ k - 1 = at /\ k \in 1..Len(stored)
    BY <1>1, <1>6
  <2>2. Orderly(a) /\ Orderly(b)
    BY <1>1, <2>1 DEF MergeInv, StoredInOrder
  <2>3. stored[k - 1][Len(stored[k - 1])].sourceEnd <= stored[k][1].sourceStart
    BY <2>1 DEF MergeInv, StoredInOrder
  <2>4. a[Len(a)].sourceEnd <= b[1].sourceStart
    BY <2>1, <2>3
  <2>5. lines[Len(lines)].start <= MapChunkTime(last, a)
    BY <1>1, <1>6 DEF MergeInv, LinesBehind
  <2>. HIDE DEF a, b
  <2>6. /\ MapChunkTime(last, a) \in Nat /\ MapChunkTime(last, a) <= a[Len(a)].sourceEnd
        /\ MapChunkTime(0, b) \in Nat /\ b[1].sourceStart <= MapChunkTime(0, b)
    BY <1>1, <2>2, MapFacts
  <2>7. a[Len(a)].sourceEnd \in Nat /\ b[1].sourceStart \in Nat
    BY <2>2 DEF Orderly
  <2>8. lines[Len(lines)].start \in Nat
    <3>1. Len(lines) \in 1..Len(lines)
      BY <1>1, <1>6
    <3>. QED
      BY <1>1, <3>1, LineFacts
  <2>9. lines[Len(lines)].start <= MapChunkTime(0, b)
    BY <2>4, <2>5, <2>6, <2>7, <2>8
  <2>. QED
    BY <2>9 DEF b
<1>7. LinesBehind'
  BY <1>2, <1>6 DEF LinesBehind
<1>. QED
  BY <1>3, <1>5, <1>7 DEF MergeInv

LEMMA MergeInvSort ==
    ASSUME MergeInv, Sort
    PROVE  MergeInv'
<1>1. /\ at = Len(stored) + 1 /\ stored # <<>> /\ lines' = SortedLines(lines) /\ sorted' = TRUE
      /\ UNCHANGED <<vadVars, stored, at, last, answered, inOrder>>
  BY DEF Sort
<1>2. lines \in Seq(ALine)
  BY DEF MergeInv, Progress
<1>3. lines' \in Seq(ALine) /\ InOrder(lines')
  BY <1>1, <1>2, SortingOrders
<1>4. ChunksGoOn' /\ StoredInOrder'
  BY <1>1 DEF MergeInv, ChunksGoOn, StoredInOrder, vadVars, packVars
<1>5. Progress'
  BY <1>1, <1>3 DEF MergeInv, Progress, vadVars, packVars
<1>6. NoEcho'
  BY <1>1 DEF NoEcho
<1>7. LinesBehind'
  <2>1. Len(stored) \in Nat /\ DOMAIN stored = 1..Len(stored)
    BY DEF MergeInv, Progress
  <2>2. Len(stored) + 1 \notin 1..Len(stored)
    BY <2>1
  <2>3. at' \notin DOMAIN stored'
    BY <1>1, <2>1, <2>2
  <2>. QED
    BY <2>3 DEF LinesBehind
<1>. QED
  BY <1>3, <1>4, <1>5, <1>6, <1>7 DEF MergeInv

LEMMA MergeInvStays == VadInv /\ KeptInv /\ MergeInv /\ [Next]_vars => MergeInv'
<1>1. SUFFICES ASSUME VadInv, KeptInv, MergeInv, [Next]_vars PROVE MergeInv'
  OBVIOUS
<1>2. ASSUME UNCHANGED vars PROVE MergeInv'
  BY <1>1, <1>2 DEF vars, vadVars, packVars, mergeVars, MergeInv, ChunksGoOn, StoredInOrder,
     Progress, LinesBehind, NoEcho
<1>3. ASSUME NEW start \in Times, NEW said \in Said, NEW end \in {0, start + FrameTicks},
             Recognize(start, end, said)
      PROVE  MergeInv'
  BY <1>1, <1>3, MergeInvRecognize
<1>. QED
  BY <1>1, <1>2, <1>3, MergeInvSplit, MergeInvStore, MergeInvNextChunk, MergeInvSort DEF Next

\* If the provider answers in order, the merged lines are in the order of the source,
\* across chunks and merged repetitions, and no line echoes the one before it; the
\* sorted transcript is in order whatever was answered (merger.py:15-78).
THEOREM MergeKeepsOrder == Spec => []MergeIsOrderly
<1>1. Spec => []MergeInv
  BY MergeInvStarts, MergeInvStays, SpecVadInv, SpecKeptInv, PTL DEF Spec
<1>2. MergeInv => MergeIsOrderly
  BY DEF MergeInv, MergeIsOrderly, LinesInSourceOrder, InOrder
<1>. QED
  BY <1>1, <1>2, PTL
=============================================================================
