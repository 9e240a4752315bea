---------------------------- MODULE ReceptionProofs ----------------------------
(***************************************************************************)
(* Theorems about the three ways packets come in and go out by: IGate, for *)
(* every set of packets and stations and every window and limit that       *)
(* IGateConstants allows; Ftm200, for every set of packets and length of   *)
(* the history; Kiss, for every set of bytes, every chunk and payload.     *)
(***************************************************************************)
EXTENDS IGate, Kiss, Ftm200, FiniteSetTheorems, SequenceTheorems, TLAPS

-----------------------------------------------------------------------------
\* IGate: the inductive invariant

Log == [age: Nat, heard: Nat]

Types ==
    /\ rfHeard \in [Stations -> 0..Never] /\ rfDirect \in [Stations -> 0..Never]
    /\ channel \in [Stations -> {"none", "rf", "is"}]
    /\ toIs \in [Copies -> 0..Never] /\ toRf \in [Messages -> 0..Never]
    /\ onRf \in [OnAir -> 0..Never]
    /\ sent \in Seq(Nat) /\ Len(sent) <= MaxSent
    /\ isLog \in [Packets -> Seq(Nat)]
    /\ rfLog \in Seq(Log)

\* The row of a station is as young as each of its packets on RF.
HeardInv ==
    /\ \A s \in Stations: rfHeard[s] <= rfDirect[s] /\ (channel[s] = "is" => rfHeard[s] > Sticky)
    /\ \A p \in OnAir: rfHeard[p.from] <= onRf[p]

\* The Deduper remembers the one line of the window.
PlainCopy(p) == [packet |-> p, relayed |-> FALSE]

GatedInv ==
    \A p \in Packets:
        \/ isLog[p] = <<>>
        \/ p \in OnAir /\ Len(isLog[p]) = 1 /\ isLog[p][1] = toIs[PlainCopy(p)] /\ isLog[p][1] < GateDupe

\* The limiter's entries, the newest first, are as far apart as each limit says; our
\* transmissions are no younger than as many of them.
Sorted(ages) == \A i, j \in DOMAIN ages: i <= j => ages[i] <= ages[j]

Spaced(ages) == \A l \in Limits, i, j \in DOMAIN ages:
                    j = i + l.most => ages[j] >= ages[i] + l.window

SentInv == Sorted(sent) /\ Spaced(sent)

LogInv ==
    /\ Sorted(Ages(rfLog))
    /\ Len(rfLog) <= Len(sent)
    /\ \A i \in DOMAIN rfLog: sent[i] <= rfLog[i].age /\ rfLog[i].age < Longest

IInv == HeardInv /\ GatedInv /\ SentInv /\ LogInv /\ NoEcho

Inv == Types /\ IInv

-----------------------------------------------------------------------------
\* IGate: the constants, and sequences of ages

LEMMA Constants ==
  ASSUME IGateConstants
  PROVE  /\ GateDupe \in Nat /\ Local \in Nat /\ Sticky \in Nat /\ MaxSent \in Nat
         /\ Never \in Nat /\ Never > GateDupe /\ Never > Local /\ Never > Sticky
         /\ GateDupe > 0
  <1> DEFINE Three == {Local, Sticky, GateDupe}
  <1>1. GateDupe \in Nat \ {0} /\ Local \in Nat \ {0} /\ Sticky \in Nat \ {0} /\ MaxSent \in Nat
    BY DEF IGateConstants
  <1>2. \E n \in Three: \A m \in Three: m <= n
    <2>1. CASE Local >= Sticky /\ Local >= GateDupe
      BY <1>1, <2>1
    <2>2. CASE Sticky >= Local /\ Sticky >= GateDupe
      BY <1>1, <2>2
    <2>3. CASE GateDupe >= Local /\ GateDupe >= Sticky
      BY <1>1, <2>3
    <2>4. QED
      BY <1>1, <2>1, <2>2, <2>3
  <1>3. Past \in Three /\ \A m \in Three: m <= Past
    BY <1>2 DEF Past
  <1>4. QED
    BY <1>1, <1>3 DEF Never

LEMMA LimitsInOrder ==
  ASSUME IGateConstants
  PROVE  /\ Longest \in Nat
         /\ \A l \in Limits: /\ l.window \in Nat /\ l.window > 0 /\ l.window <= Longest
                             /\ l.most \in Nat /\ l.most > 0
  <1>1. \A l \in Limits: l.window \in Nat \ {0} /\ l.most \in Nat \ {0}
    BY DEF IGateConstants
  <1>2. PICK l \in Limits: \A k \in Limits: k.window <= l.window
    BY DEF IGateConstants
  <1>3. l.window \in Windows /\ \A v \in Windows: v <= l.window
    BY <1>2 DEF Windows
  <1>4. Longest \in Windows /\ \A v \in Windows: v <= Longest
    BY <1>3 DEF Longest
  <1>5. \A k \in Limits: k.window \in Windows
    BY DEF Windows
  <1>6. Longest \in Nat
    BY <1>1, <1>4 DEF Windows
  <1>7. QED
    BY <1>1, <1>4, <1>5, <1>6

\* A part of 1..n that has, with each number, those below it.
LEMMA Prefix ==
  ASSUME NEW n \in Nat, NEW W \in SUBSET (1..n), \A i \in W: \A j \in 1..i: j \in W
  PROVE  Cardinality(W) \in 0..n /\ W = 1..Cardinality(W)
  <1> DEFINE k == Cardinality(W)
  <1>0. IsFiniteSet(1..n) /\ Cardinality(1..n) = n
    BY FS_Interval
  <1>1. IsFiniteSet(W) /\ k \in Nat /\ k <= n
    BY ZenonT(60), <1>0, FS_Subset, FS_CardinalityType
  <1>2. ASSUME NEW i \in W PROVE i <= k
    <2>1. 1..i \subseteq W
      OBVIOUS
    <2>2. Cardinality(1..i) = i
      BY FS_Interval
    <2>3. Cardinality(1..i) <= k
      BY <1>1, <2>1, FS_Subset
    <2>4. QED
      BY <2>2, <2>3
  <1>3. W \in SUBSET (1..k)
    BY <1>1, <1>2
  <1>4. IsFiniteSet(1..k) /\ Cardinality(1..k) = k
    BY <1>1, FS_Interval
  <1>5. 1..k = W
    BY <1>3, <1>4, FS_Subset
  <1>6. QED
    BY <1>1, <1>5

\* Of sorted ages, those within a window come first.
LEMMA WithinFirst ==
  ASSUME NEW ages \in Seq(Nat), Sorted(ages), NEW w \in Int
  PROVE  /\ Within(ages, w) \in Nat /\ Within(ages, w) <= Len(ages)
         /\ \A i \in 1..Len(ages): i <= Within(ages, w) <=> ages[i] < w
  <1> DEFINE W == {i \in DOMAIN ages: ages[i] < w}
  <1>1. Len(ages) \in Nat /\ DOMAIN ages = 1..Len(ages) /\ \A i \in 1..Len(ages): ages[i] \in Nat
    OBVIOUS
  <1>2. W \in SUBSET (1..Len(ages))
    BY <1>1
  <1>3. \A i \in W: \A j \in 1..i: j \in W
    BY SMTT(40), <1>1 DEF Sorted
  <1>4. Cardinality(W) \in 0..Len(ages) /\ W = 1..Cardinality(W)
    BY <1>1, <1>2, <1>3, Prefix
  <1>5. Within(ages, w) = Cardinality(W)
    BY DEF Within
  <1> HIDE DEF W
  <1>6. \A i \in 1..Len(ages): i \in W <=> ages[i] < w
    BY <1>1 DEF W
  <1>7. QED
    BY <1>1, <1>4, <1>5, <1>6

LEMMA FunSeq ==
  ASSUME NEW S, NEW n \in Nat, NEW f \in [1..n -> S]
  PROVE  f \in Seq(S) /\ Len(f) = n /\ DOMAIN f = 1..n
  OBVIOUS

\* Time passes over sorted ages.
LEMMA Aged ==
  ASSUME IGateConstants, NEW ages \in Seq(Nat), Sorted(ages), NEW most \in Nat
  PROVE  LET old == OlderIn(ages, most) IN
         /\ old \in Seq(Nat) /\ Len(old) \in Nat /\ Len(old) <= Len(ages)
         /\ \A i \in 1..Len(old): old[i] = ages[i] + 1 /\ old[i] < most
         /\ \A i \in 1..Len(ages): i > Len(old) => ages[i] + 1 >= most
         /\ Sorted(old)
         /\ Spaced(ages) => Spaced(old)
  <1> DEFINE n == Within(ages, most - 1)
             old == OlderIn(ages, most)
  <1>1. Len(ages) \in Nat /\ DOMAIN ages = 1..Len(ages) /\ \A i \in 1..Len(ages): ages[i] \in Nat
    OBVIOUS
  <1>2. n \in Nat /\ n <= Len(ages) /\ \A i \in 1..Len(ages): i <= n <=> ages[i] < most - 1
    <2>1. most - 1 \in Int
      OBVIOUS
    <2>2. QED
      BY <2>1, WithinFirst
  <1> HIDE DEF n
  <1>3. old = [i \in 1..n |-> ages[i] + 1]
    BY DEF OlderIn, n
  <1>4. old \in [1..n -> Nat]
    BY SMTT(40), <1>1, <1>2, <1>3
  <1>5. old \in Seq(Nat) /\ Len(old) = n /\ DOMAIN old = 1..n
    BY <1>2, <1>4, FunSeq
  <1>6. \A i \in 1..n: old[i] = ages[i] + 1 /\ old[i] < most
    BY <1>1, <1>2, <1>3
  <1> HIDE DEF old
  <1>7. Sorted(old)
    <2> SUFFICES ASSUME NEW i \in 1..n, NEW j \in 1..n, i <= j PROVE old[i] <= old[j]
      BY <1>5 DEF Sorted
    <2>1. i \in DOMAIN ages /\ j \in DOMAIN ages
      BY <1>1, <1>2
    <2>2. ages[i] <= ages[j]
      BY <2>1 DEF Sorted
    <2> QED
      BY <1>1, <1>6, <2>1, <2>2
  <1>8. Spaced(ages) => Spaced(old)
    <2> SUFFICES ASSUME Spaced(ages), NEW l \in Limits, NEW i \in 1..n, NEW j \in 1..n,
                        j = i + l.most
                 PROVE  old[j] >= old[i] + l.window
      BY <1>5 DEF Spaced
    <2>1. i \in DOMAIN ages /\ j \in DOMAIN ages
      BY <1>1, <1>2
    <2>2. ages[j] >= ages[i] + l.window
      BY <2>1 DEF Spaced
    <2>3. l.window \in Nat
      BY LimitsInOrder
    <2> QED
      BY SMTT(40), <1>1, <1>6, <2>1, <2>2, <2>3
  <1>9. QED
    BY <1>1, <1>2, <1>5, <1>6, <1>7, <1>8 DEF old

LEMMA UpTo ==
  ASSUME NEW n \in Nat
  PROVE  IsFiniteSet(1..n) /\ Cardinality(1..n) = n
  BY FS_Interval

\* One line of a packet at most is in the window, and the Deduper has its age.
LEMMA LogShort ==
  ASSUME GatedInv, NEW p \in Packets
  PROVE  /\ Len(isLog[p]) \in Nat /\ Len(isLog[p]) <= 1
         /\ isLog[p] = <<>> \/ p \in OnAir
         /\ Len(isLog[p]) = 1 => /\ p \in OnAir /\ isLog[p][1] = toIs[PlainCopy(p)]
                                 /\ isLog[p][1] < GateDupe
  <1>1. \/ isLog[p] = <<>>
        \/ /\ p \in OnAir /\ Len(isLog[p]) = 1 /\ isLog[p][1] = toIs[PlainCopy(p)]
           /\ isLog[p][1] < GateDupe
    BY DEF GatedInv
  <1>2. Len(<<>>) = 0
    OBVIOUS
  <1>3. CASE isLog[p] = <<>>
    BY <1>2, <1>3
  <1>4. CASE isLog[p] # <<>>
    <2>1. p \in OnAir /\ Len(isLog[p]) = 1 /\ isLog[p][1] = toIs[PlainCopy(p)] /\ isLog[p][1] < GateDupe
      BY <1>1, <1>4, Zenon
    <2>2. QED
      BY <2>1
  <1>5. QED
    BY <1>3, <1>4

\* An entry put before ages.
LEMMA PutFirst ==
  ASSUME NEW S, NEW e \in S, NEW s \in Seq(S)
  PROVE  LET new == <<e>> \o s IN
         /\ new \in Seq(S) /\ Len(new) = Len(s) + 1 /\ new[1] = e
         /\ \A i \in 1..Len(s): new[i + 1] = s[i]
         /\ \A i \in 2..Len(new): new[i] = s[i - 1] /\ i - 1 \in 1..Len(s)
  <1>1. <<e>> \in Seq(S) /\ Len(<<e>>) = 1 /\ <<e>>[1] = e /\ Len(s) \in Nat
    OBVIOUS
  <1> DEFINE new == <<e>> \o s
  <1>2. /\ new \in Seq(S) /\ Len(new) = 1 + Len(s)
        /\ \A i \in 1..1 + Len(s): new[i] = IF i <= 1 THEN <<e>>[i] ELSE s[i - 1]
    BY <1>1, ConcatProperties
  <1> HIDE DEF new
  <1>3. QED
    BY <1>1, <1>2 DEF new

\* An entry of now, when every limit has room for it.
LEMMA Added ==
  ASSUME IGateConstants, NEW ages \in Seq(Nat), Sorted(ages), Spaced(ages),
         \A l \in Limits: Within(ages, l.window) < l.most
  PROVE  Sorted(<<0>> \o ages) /\ Spaced(<<0>> \o ages)
  <1> DEFINE new == <<0>> \o ages
  <1>1. Len(ages) \in Nat /\ DOMAIN ages = 1..Len(ages) /\ \A i \in 1..Len(ages): ages[i] \in Nat
    OBVIOUS
  <1>2. /\ new \in Seq(Nat) /\ Len(new) = Len(ages) + 1 /\ new[1] = 0
        /\ \A i \in 2..Len(new): new[i] = ages[i - 1] /\ i - 1 \in 1..Len(ages)
    BY PutFirst
  <1> HIDE DEF new
  <1>3. DOMAIN new = 1..Len(ages) + 1 /\ \A i \in 1..Len(ages) + 1: new[i] \in Nat
    BY <1>1, <1>2
  <1>4. Sorted(new)
    <2> SUFFICES ASSUME NEW i \in 1..Len(ages) + 1, NEW j \in 1..Len(ages) + 1, i <= j
                 PROVE  new[i] <= new[j]
      BY <1>3 DEF Sorted
    <2>1. CASE i = 1
      BY <1>2, <1>3, <2>1
    <2>2. CASE i # 1
      <3>1. i \in 2..Len(new) /\ j \in 2..Len(new)
        BY <1>1, <1>2, <2>2
      <3>2. new[i] = ages[i - 1] /\ new[j] = ages[j - 1]
            /\ i - 1 \in DOMAIN ages /\ j - 1 \in DOMAIN ages /\ i - 1 <= j - 1
        BY <1>1, <1>2, <3>1
      <3>3. QED
        BY <3>2 DEF Sorted
    <2>3. QED
      BY <2>1, <2>2
  <1>5. Spaced(new)
    <2> SUFFICES ASSUME NEW l \in Limits, NEW i \in 1..Len(ages) + 1, NEW j \in 1..Len(ages) + 1,
                        j = i + l.most
                 PROVE  new[j] >= new[i] + l.window
      BY <1>3 DEF Spaced
    <2>1. l.window \in Nat /\ l.most \in Nat /\ l.most > 0
      BY LimitsInOrder
    <2>2. CASE i = 1
      <3>1. l.most \in 1..Len(ages) /\ new[j] = ages[l.most]
        BY <1>1, <1>2, <2>1, <2>2
      <3>2. ~ (ages[l.most] < l.window)
        <4>1. l.window \in Int
          BY <2>1
        <4>2. /\ Within(ages, l.window) \in Nat
              /\ l.most <= Within(ages, l.window) <=> ages[l.most] < l.window
          BY <3>1, <4>1, WithinFirst
        <4>3. Within(ages, l.window) < l.most
          OBVIOUS
        <4>4. QED
          BY <2>1, <4>2, <4>3
      <3>3. QED
        BY SMTT(30), <1>1, <1>2, <2>1, <2>2, <3>1, <3>2
    <2>3. CASE i # 1
      <3>0. Len(new) = Len(ages) + 1 /\ Len(ages) \in Nat
        BY <1>1, <1>2
      <3>1. i \in 2..Len(new) /\ j \in 2..Len(new)
        <4>1. i \in Int /\ i >= 2 /\ i <= Len(new)
          BY <2>3, <3>0
        <4>2. j \in Int /\ j >= 2 /\ j <= Len(new)
          BY <2>1, <3>0, <4>1
        <4>3. Len(new) \in Int
          BY <3>0
        <4>4. QED
          BY <4>1, <4>2, <4>3
      <3>2. new[i] = ages[i - 1] /\ new[j] = ages[j - 1]
            /\ i - 1 \in DOMAIN ages /\ j - 1 \in DOMAIN ages
        BY <1>1, <1>2, <3>1
      <3>3. j - 1 = (i - 1) + l.most
        BY <2>1
      <3>4. QED
        BY <3>2, <3>3 DEF Spaced
    <2>4. QED
      BY <2>2, <2>3
  <1>6. QED
    BY <1>4, <1>5 DEF new

\* What the limiter keeps is the first part of what it has.
LEMMA KeptFirst ==
  ASSUME IGateConstants, sent \in Seq(Nat), SentInv
  PROVE  /\ Kept \in Seq(Nat) /\ Len(Kept) <= Len(sent)
         /\ \A i \in 1..Len(Kept): Kept[i] = sent[i]
         /\ \A i \in 1..Len(sent): sent[i] < Longest => i <= Len(Kept)
         /\ Sorted(Kept) /\ Spaced(Kept)
  <1> DEFINE n == Within(sent, Longest)
  <1>1. Len(sent) \in Nat /\ DOMAIN sent = 1..Len(sent) /\ \A i \in 1..Len(sent): sent[i] \in Nat
    OBVIOUS
  <1>2. n \in Nat /\ n <= Len(sent) /\ \A i \in 1..Len(sent): i <= n <=> sent[i] < Longest
    <2>1. Longest \in Int /\ Sorted(sent)
      BY LimitsInOrder DEF SentInv
    <2>2. QED
      BY <2>1, WithinFirst
  <1> HIDE DEF n
  <1>3. Kept = SubSeq(sent, 1, n)
    BY DEF Kept, n
  <1>4. \A i \in 1..n: sent[i] \in Nat
    BY <1>1, <1>2
  <1>5. /\ Kept \in Seq(Nat) /\ Len(Kept) = n
        /\ \A i \in 1..n: Kept[i] = sent[i]
    BY <1>2, <1>3, <1>4, SubSeqProperties
  <1>6. DOMAIN Kept = 1..n
    BY <1>5
  <1>7. \A i \in 1..n: i \in DOMAIN sent
    BY <1>1, <1>2
  <1>8. Sorted(Kept)
    BY <1>5, <1>6, <1>7 DEF SentInv, Sorted
  <1>9. Spaced(Kept)
    BY <1>5, <1>6, <1>7 DEF SentInv, Spaced
  <1>10. QED
    BY <1>1, <1>2, <1>5, <1>8, <1>9

\* The ages of a log of transmissions, and what time does to them.
LEMMA AgesOf ==
  ASSUME NEW log \in Seq(Log)
  PROVE  /\ Ages(log) \in Seq(Nat) /\ Len(Ages(log)) = Len(log)
         /\ DOMAIN Ages(log) = 1..Len(log) /\ DOMAIN log = 1..Len(log) /\ Len(log) \in Nat
         /\ \A i \in 1..Len(log): Ages(log)[i] = log[i].age /\ log[i] \in Log
                                  /\ log[i].age \in Nat
  <1>1. Len(log) \in Nat /\ DOMAIN log = 1..Len(log) /\ \A i \in 1..Len(log): log[i] \in Log
    OBVIOUS
  <1>2. \A i \in 1..Len(log): log[i].age \in Nat
    BY <1>1 DEF Log
  <1>3. Ages(log) = [i \in 1..Len(log) |-> log[i].age]
    BY <1>1 DEF Ages
  <1>4. Ages(log) \in [1..Len(log) -> Nat]
    BY <1>2, <1>3
  <1>5. QED
    BY <1>1, <1>2, <1>3, <1>4, FunSeq

LEMMA YoungFirst ==
  ASSUME IGateConstants, NEW log \in Seq(Log), Sorted(Ages(log))
  PROVE  /\ Young(log) \in Seq(Log) /\ Len(Young(log)) <= Len(log)
         /\ \A i \in 1..Len(Young(log)):
               /\ Young(log)[i].age = log[i].age + 1 /\ Young(log)[i].heard = log[i].heard
               /\ Young(log)[i].age < Longest
         /\ Sorted(Ages(Young(log)))
  <1> DEFINE n == Within(Ages(log), Longest - 1)
             young == Young(log)
  <1>1. /\ Ages(log) \in Seq(Nat) /\ Len(Ages(log)) = Len(log) /\ Len(log) \in Nat
        /\ DOMAIN Ages(log) = 1..Len(log) /\ DOMAIN log = 1..Len(log)
        /\ \A i \in 1..Len(log): Ages(log)[i] = log[i].age /\ log[i] \in Log
                                 /\ log[i].age \in Nat
    BY AgesOf
  <1>2. Longest - 1 \in Int /\ Longest \in Nat
    BY LimitsInOrder
  <1>3. n \in Nat /\ n <= Len(log) /\ \A i \in 1..Len(log): i <= n <=> Ages(log)[i] < Longest - 1
    BY <1>1, <1>2, WithinFirst
  <1> HIDE DEF n
  <1>4. young = [i \in 1..n |-> [log[i] EXCEPT !.age = @ + 1]]
    BY DEF Young, n
  <1>5. \A i \in 1..n: i \in 1..Len(log)
    BY <1>1, <1>3
  <1>6. \A i \in 1..n: /\ young[i] \in Log /\ young[i].age = log[i].age + 1
                       /\ young[i].heard = log[i].heard
    <2>1. ASSUME NEW r \in Log, NEW o, o = [r EXCEPT !.age = @ + 1]
          PROVE  o \in Log /\ o.age = r.age + 1 /\ o.heard = r.heard
      BY <2>1 DEF Log
    <2>2. \A i \in 1..n: log[i] \in Log /\ young[i] = [log[i] EXCEPT !.age = @ + 1]
      BY <1>1, <1>4, <1>5
    <2>3. QED
      BY <2>1, <2>2
  <1>7. young \in [1..n -> Log]
    BY <1>4, <1>6
  <1>8. young \in Seq(Log) /\ Len(young) = n
    BY <1>3, <1>7, FunSeq
  <1> HIDE DEF young
  <1>9. \A i \in 1..n: young[i].age < Longest
    BY SMTT(40), <1>1, <1>2, <1>3, <1>5, <1>6
  <1>10. /\ DOMAIN Ages(young) = 1..n
         /\ \A i \in 1..n: Ages(young)[i] = Ages(log)[i] + 1 /\ Ages(log)[i] \in Nat
    BY <1>1, <1>5, <1>6, <1>8, AgesOf
  <1>11. Sorted(Ages(young))
    <2> SUFFICES ASSUME NEW i \in 1..n, NEW j \in 1..n, i <= j
                 PROVE  Ages(young)[i] <= Ages(young)[j]
      BY <1>10 DEF Sorted
    <2>1. Ages(log)[i] <= Ages(log)[j]
      BY <1>1, <1>5 DEF Sorted
    <2> QED
      BY <1>10, <2>1
  <1>12. QED
    BY <1>3, <1>6, <1>8, <1>9, <1>11 DEF young

-----------------------------------------------------------------------------
\* IGate: the invariant holds from the start, and through every step

LEMMA InitInv == ASSUME IGateConstants, Init PROVE Inv
  <1>1. sent = <<>> /\ rfLog = <<>> /\ \A p \in Packets: isLog[p] = <<>>
    BY DEF Init
  <1>2. Types
    BY Constants DEF Init, Types
  <1>3. HeardInv
    BY Constants DEF Init, HeardInv, IGateConstants
  <1>4. GatedInv
    BY <1>1 DEF GatedInv
  <1>5. SentInv
    BY <1>1 DEF SentInv, Sorted, Spaced
  <1>6. LogInv
    BY <1>1 DEF LogInv, Sorted, Ages
  <1>7. NoEcho
    BY <1>1 DEF NoEcho
  <1>8. QED
    BY <1>2, <1>3, <1>4, <1>5, <1>6, <1>7 DEF Inv, IInv

\* A packet heard on RF is gated when its last line is out of the window; what a relay sent
\* is not.
LEMMA GatedStep ==
  ASSUME IGateConstants, Inv, NEW p \in Packets, NEW form, NEW on,
         p \in OnAir \/ form = "thirdparty", Gated(p, form, on)
  PROVE  /\ toIs' \in [Copies -> 0..Never] /\ isLog' \in [Packets -> Seq(Nat)]
         /\ GatedInv'
  <1>1. /\ toIs \in [Copies -> 0..Never] /\ isLog \in [Packets -> Seq(Nat)]
        /\ GatedInv
    BY DEF Inv, IInv, Types
  <1>2. CASE UNCHANGED <<toIs, isLog>>
    BY <1>1, <1>2 DEF GatedInv
  <1>3. CASE ~UNCHANGED <<toIs, isLog>>
    <2>1. form = "plain" /\ p \in OnAir
      BY <1>3 DEF Gated, MayBeGated
    <2>2. [packet |-> p, relayed |-> form = "thirdparty"] = PlainCopy(p)
      BY <2>1 DEF PlainCopy
    <2>3. /\ toIs[PlainCopy(p)] >= GateDupe
          /\ toIs' = [toIs EXCEPT ![PlainCopy(p)] = 0]
          /\ isLog' = [isLog EXCEPT ![p] = <<0>> \o @]
      BY <1>3, <2>2 DEF Gated, New
    <2>4. PlainCopy(p) \in Copies /\ \A q \in Packets: PlainCopy(q) = PlainCopy(p) => q = p
      BY DEF PlainCopy, Copies
    <2>5. isLog[p] = <<>>
      BY <1>1, <2>3, <2>4, Constants DEF GatedInv
    <2>6. isLog'[p] = <<0>> /\ \A q \in Packets: q # p => isLog'[q] = isLog[q]
      BY <1>1, <2>3, <2>5
    <2>7. toIs'[PlainCopy(p)] = 0 /\ \A q \in Packets: q # p => toIs'[PlainCopy(q)] = toIs[PlainCopy(q)]
      BY <1>1, <2>3, <2>4 DEF PlainCopy, Copies
    <2>8. toIs' \in [Copies -> 0..Never] /\ isLog' \in [Packets -> Seq(Nat)]
      <3>1. toIs' \in [Copies -> 0..Never]
        <4>1. toIs' = [toIs EXCEPT ![PlainCopy(p)] = 0] /\ toIs \in [Copies -> 0..Never]
          BY <1>1, <2>3
        <4>2. 0 \in 0..Never
          BY Constants
        <4>3. QED
          BY <4>1, <4>2
      <3>2. isLog' = [isLog EXCEPT ![p] = <<0>>]
        BY <1>1, <2>3, <2>6
      <3>3. <<0>> \in Seq(Nat)
        OBVIOUS
      <3>4. QED
        BY <1>1, <3>1, <3>2, <3>3
    <2>9. GatedInv'
      <3>1. Len(<<0>>) = 1 /\ <<0>>[1] = 0 /\ 0 < GateDupe
        BY Constants
      <3>2. ASSUME NEW q \in Packets
            PROVE  \/ isLog'[q] = <<>>
                   \/ /\ q \in OnAir /\ Len(isLog'[q]) = 1 /\ isLog'[q][1] = toIs'[PlainCopy(q)]
                      /\ isLog'[q][1] < GateDupe
        <4>1. CASE q = p
          BY <2>1, <2>6, <2>7, <3>1, <4>1
        <4>2. CASE q # p
          <5>1. isLog'[q] = isLog[q] /\ toIs'[PlainCopy(q)] = toIs[PlainCopy(q)]
            BY <2>6, <2>7, <4>2
          <5>2. QED
            BY <1>1, <5>1 DEF GatedInv
        <4>3. QED
          BY <4>1, <4>2
      <3>3. QED
        BY <3>2 DEF GatedInv
    <2>10. QED
      BY <2>8, <2>9
  <1>4. QED
    BY <1>2, <1>3

LEMMA PacketInv ==
  ASSUME IGateConstants, Inv, NEW p \in OnAir, NEW form \in {"plain", "nogate"},
         NEW direct \in BOOLEAN, NEW on \in BOOLEAN, HandlePacket(p, form, direct, on)
  PROVE  Inv'
  <1>1. p \in Packets /\ p.from \in Stations /\ \A q \in OnAir: q.from \in Stations
    BY DEF IGateConstants
  <1>2. /\ rfHeard' = [rfHeard EXCEPT ![p.from] = 0]
        /\ rfDirect' = IF direct THEN [rfDirect EXCEPT ![p.from] = 0] ELSE rfDirect
        /\ channel' = [channel EXCEPT ![p.from] = "rf"]
        /\ onRf' = [onRf EXCEPT ![p] = 0]
        /\ Gated(p, form, on)
        /\ UNCHANGED <<toRf, sent, rfLog>>
    BY DEF HandlePacket
  <1>3. /\ toIs' \in [Copies -> 0..Never] /\ isLog' \in [Packets -> Seq(Nat)]
        /\ GatedInv'
    BY <1>1, <1>2, GatedStep
  <1>4. Types /\ HeardInv /\ SentInv /\ LogInv /\ NoEcho
    BY DEF Inv, IInv
  <1>5. Types'
    BY SMTT(40), <1>1, <1>2, <1>3, <1>4, Constants DEF Types
  <1>6. HeardInv'
    BY SMTT(40), <1>1, <1>2, <1>4, Constants DEF Types, HeardInv
  <1>7. SentInv' /\ LogInv' /\ NoEcho'
    BY <1>2, <1>4 DEF SentInv, LogInv, NoEcho
  <1>8. QED
    BY <1>3, <1>5, <1>6, <1>7 DEF Inv, IInv

LEMMA ThirdPartyInv ==
  ASSUME IGateConstants, Inv, NEW p \in Packets, NEW on \in BOOLEAN, HandleThirdParty(p, on)
  PROVE  Inv'
  <1>1. Gated(p, "thirdparty", on) /\ UNCHANGED <<heard, toRf, sent, rfLog, onRf>>
    BY DEF HandleThirdParty
  <1>2. /\ toIs' \in [Copies -> 0..Never] /\ isLog' \in [Packets -> Seq(Nat)]
        /\ GatedInv'
    BY <1>1, GatedStep
  <1>3. QED
    BY <1>1, <1>2 DEF Inv, IInv, Types, HeardInv, SentInv, LogInv, NoEcho, heard

\* A message that goes to RF was not on RF within the window, nor was it refused.
LEMMA TransmitInv ==
  ASSUME IGateConstants, Inv, NEW p \in Packets, NEW radio \in BOOLEAN,
         rfHeard[p.from] > Local, Allowed, sent' = << 0 >> \o Kept, Transmit(p, radio),
         Len(sent) < MaxSent
  PROVE  /\ sent' \in Seq(Nat) /\ Len(sent') <= MaxSent /\ rfLog' \in Seq(Log)
         /\ SentInv' /\ LogInv' /\ NoEcho'
  <1>1. Types /\ HeardInv /\ SentInv /\ LogInv /\ NoEcho
    BY DEF Inv, IInv
  <1>2. sent \in Seq(Nat) /\ rfLog \in Seq(Log) /\ Len(sent) \in Nat
    BY <1>1 DEF Types
  <1>3. /\ Kept \in Seq(Nat) /\ Len(Kept) <= Len(sent)
        /\ \A i \in 1..Len(Kept): Kept[i] = sent[i]
        /\ \A i \in 1..Len(sent): sent[i] < Longest => i <= Len(Kept)
        /\ Sorted(Kept) /\ Spaced(Kept)
    BY <1>1, <1>2, KeptFirst
  <1>4. /\ sent' \in Seq(Nat) /\ Len(sent') = Len(Kept) + 1 /\ sent'[1] = 0
        /\ \A i \in 2..Len(sent'): sent'[i] = Kept[i - 1] /\ i - 1 \in 1..Len(Kept)
    BY <1>3, PutFirst
  <1>5. SentInv'
    BY <1>3, Added DEF SentInv, Allowed
  <1>6. Len(sent') <= MaxSent
    BY <1>2, <1>3, <1>4, Constants
  <1>7. PICK h \in Nat: /\ h > Local
                        /\ rfLog' = IF radio THEN <<[age |-> 0, heard |-> h]>> \o rfLog ELSE rfLog
    <2> DEFINE h == IF p \in OnAir THEN onRf[p] ELSE Never
    <2>1. h \in Nat /\ h > Local
      BY SMTT(40), <1>1, Constants DEF Types, HeardInv, IGateConstants
    <2>2. rfLog' = IF radio THEN <<[age |-> 0, heard |-> h]>> \o rfLog ELSE rfLog
      BY DEF Transmit
    <2>3. QED
      BY <2>1, <2>2
  <1>8. /\ Len(rfLog) \in Nat /\ DOMAIN rfLog = 1..Len(rfLog) /\ Len(rfLog) <= Len(sent)
        /\ \A i \in 1..Len(rfLog): /\ rfLog[i] \in Log /\ rfLog[i].age \in Nat
                                   /\ sent[i] <= rfLog[i].age /\ rfLog[i].age < Longest
                                   /\ rfLog[i].heard > Local
        /\ \A i, j \in 1..Len(rfLog): i <= j => rfLog[i].age <= rfLog[j].age
    BY ZenonT(60), <1>1, <1>2, AgesOf DEF LogInv, NoEcho, Sorted
  <1>9. /\ \A i \in 1..Len(rfLog): i \in 1..Len(Kept) /\ Kept[i] = sent[i] /\ sent[i] \in Nat
        /\ Len(rfLog) <= Len(Kept)
    <2>1. Longest \in Nat /\ Len(Kept) \in Nat
      BY <1>3, LimitsInOrder
    <2>2. ASSUME NEW i \in 1..Len(rfLog)
          PROVE  i \in 1..Len(Kept) /\ Kept[i] = sent[i] /\ sent[i] \in Nat
      <3>1. i \in 1..Len(sent) /\ sent[i] \in Nat
        BY <1>2, <1>8
      <3>2. sent[i] < Longest
        BY <1>8, <2>1, <3>1
      <3>3. QED
        BY <1>3, <2>1, <3>1, <3>2
    <2>3. Len(rfLog) <= Len(Kept)
      BY <1>8, <2>1, <2>2
    <2>4. QED
      BY <2>2, <2>3
  <1>10. CASE ~radio
    <2>1. rfLog' = rfLog
      BY <1>7, <1>10
    <2>2. \A i \in 1..Len(rfLog): sent'[i] <= rfLog[i].age
      <3> SUFFICES ASSUME NEW i \in 1..Len(rfLog) PROVE sent'[i] <= rfLog[i].age
        OBVIOUS
      <3>1. CASE i = 1
        BY <1>4, <1>8, <3>1
      <3>2. CASE i # 1
        <4>1. i \in 2..Len(sent') /\ i - 1 \in 1..Len(rfLog) /\ i \in 1..Len(rfLog)
          BY <1>3, <1>4, <1>8, <1>9, <3>2
        <4>2. sent'[i] = sent[i - 1] /\ sent[i - 1] \in Nat /\ sent[i - 1] <= rfLog[i - 1].age
          BY <1>4, <1>8, <1>9, <4>1
        <4>3. rfLog[i - 1].age <= rfLog[i].age
          BY <1>8, <4>1
        <4>4. QED
          BY <1>8, <4>1, <4>2, <4>3
      <3>3. QED
        BY <3>1, <3>2
    <2>3. LogInv'
      <3>1. Sorted(Ages(rfLog'))
        BY <1>1, <2>1 DEF LogInv
      <3>2. Len(rfLog') <= Len(sent') /\ DOMAIN rfLog' = 1..Len(rfLog)
        BY <1>3, <1>4, <1>8, <1>9, <2>1
      <3>3. QED
        BY <1>8, <2>1, <2>2, <3>1, <3>2 DEF LogInv
    <2>4. NoEcho'
      BY <1>1, <2>1 DEF NoEcho
    <2>5. QED
      BY <1>2, <1>4, <1>5, <1>6, <2>1, <2>3, <2>4
  <1>11. CASE radio
    <2> DEFINE e == [age |-> 0, heard |-> h]
    <2>1. e \in Log /\ e.age = 0 /\ e.heard = h
      BY DEF Log
    <2>2. rfLog' = <<e>> \o rfLog
      BY <1>7, <1>11
    <2> HIDE DEF e
    <2>3. /\ rfLog' \in Seq(Log) /\ Len(rfLog') = Len(rfLog) + 1 /\ rfLog'[1] = e
          /\ \A i \in 2..Len(rfLog'): rfLog'[i] = rfLog[i - 1] /\ i - 1 \in 1..Len(rfLog)
      BY <1>2, <2>1, <2>2, PutFirst
    <2>4. Len(rfLog') <= Len(sent')
      BY <1>3, <1>4, <1>8, <1>9, <2>3
    <2>5. DOMAIN rfLog' = 1..Len(rfLog) + 1 /\ Longest > 0
      <3>1. Longest > 0
        BY LimitsInOrder DEF IGateConstants
      <3>2. QED
        BY <1>8, <2>3, <3>1
    <2>6. \A i \in 1..Len(rfLog) + 1: /\ sent'[i] <= rfLog'[i].age /\ rfLog'[i].age < Longest
                                      /\ rfLog'[i].heard > Local /\ rfLog'[i].age \in Nat
      <3> SUFFICES ASSUME NEW i \in 1..Len(rfLog) + 1
                   PROVE  /\ sent'[i] <= rfLog'[i].age /\ rfLog'[i].age < Longest
                          /\ rfLog'[i].heard > Local /\ rfLog'[i].age \in Nat
        OBVIOUS
      <3>1. CASE i = 1
        BY <1>4, <1>7, <2>1, <2>3, <2>5, <3>1
      <3>2. CASE i # 1
        <4>1. i \in 2..Len(rfLog') /\ i \in 2..Len(sent') /\ i - 1 \in 1..Len(rfLog)
          BY <1>3, <1>4, <1>8, <2>3, <2>4, <3>2
        <4>2. rfLog'[i] = rfLog[i - 1] /\ sent'[i] = sent[i - 1]
          BY <1>4, <1>9, <2>3, <4>1
        <4>3. QED
          BY <1>8, <4>1, <4>2
      <3>3. QED
        BY <3>1, <3>2
    <2>7. \A i, j \in 1..Len(rfLog) + 1: i <= j => rfLog'[i].age <= rfLog'[j].age
      <3> SUFFICES ASSUME NEW i \in 1..Len(rfLog) + 1, NEW j \in 1..Len(rfLog) + 1, i <= j
                   PROVE  rfLog'[i].age <= rfLog'[j].age
        OBVIOUS
      <3>1. CASE i = 1
        BY <2>1, <2>3, <2>6, <3>1
      <3>2. CASE i # 1
        <4>1. i \in 2..Len(rfLog') /\ j \in 2..Len(rfLog')
          BY <1>8, <2>3, <3>2
        <4>2. /\ rfLog'[i] = rfLog[i - 1] /\ rfLog'[j] = rfLog[j - 1]
              /\ i - 1 \in 1..Len(rfLog) /\ j - 1 \in 1..Len(rfLog) /\ i - 1 <= j - 1
          BY <2>3, <4>1
        <4>3. QED
          BY <1>8, <4>2
      <3>3. QED
        BY <3>1, <3>2
    <2>8. Sorted(Ages(rfLog'))
      <3>1. /\ DOMAIN Ages(rfLog') = 1..Len(rfLog) + 1
            /\ \A i \in 1..Len(rfLog) + 1: Ages(rfLog')[i] = rfLog'[i].age
        BY <2>3, AgesOf
      <3>2. QED
        BY <2>7, <3>1 DEF Sorted
    <2>9. LogInv' /\ NoEcho'
      BY <2>4, <2>5, <2>6, <2>8 DEF LogInv, NoEcho
    <2>10. QED
      BY <1>4, <1>5, <1>6, <2>3, <2>9
  <1>12. QED
    BY <1>10, <1>11

LEMMA IsLineInv ==
  ASSUME IGateConstants, Inv, NEW p \in Packets, NEW may \in BOOLEAN, NEW radio \in BOOLEAN,
         HandleIsLine(p, may, radio)
  PROVE  Inv'
  <1> DEFINE gated == ToBeGated(p, may) /\ New(toRf[p])
  <1>1. /\ Len(sent) < MaxSent
        /\ rfHeard' = rfHeard
        /\ channel' = [channel EXCEPT ![p.from] = IF rfHeard[p.from] <= Sticky THEN channel[p.from]
                                                  ELSE "is"]
        /\ UNCHANGED <<rfDirect, toIs, isLog, onRf>>
        /\ gated => /\ toRf' = [toRf EXCEPT ![p] = 0]
                    /\ Allowed => sent' = <<0>> \o Kept /\ Transmit(p, radio)
                    /\ ~Allowed => sent' = Kept /\ UNCHANGED rfLog
        /\ ~gated => UNCHANGED <<toRf, sent, rfLog>>
    BY DEF HandleIsLine, RfHeardAfterIs, StickyChannel
  <1>2. Types /\ HeardInv /\ GatedInv /\ SentInv /\ LogInv /\ NoEcho
    BY DEF Inv, IInv
  <1>3. p.from \in Stations
    BY DEF IGateConstants
  <1>4. gated => p \in Messages /\ rfHeard[p.from] > Local
    BY DEF ToBeGated, RfHeardAfterIs
  <1> HIDE DEF gated
  <1>5. HeardInv' /\ GatedInv'
    BY <1>1, <1>2, <1>3, Constants DEF Types, HeardInv, GatedInv
  <1>6. /\ sent' \in Seq(Nat) /\ Len(sent') <= MaxSent /\ rfLog' \in Seq(Log)
        /\ SentInv' /\ LogInv' /\ NoEcho'
    <2>1. CASE gated /\ Allowed
      BY <1>1, <1>4, <2>1, TransmitInv
    <2>2. CASE gated /\ ~Allowed
      <3>1. sent' = Kept /\ rfLog' = rfLog
        BY <1>1, <2>2
      <3>2. sent \in Seq(Nat) /\ rfLog \in Seq(Log) /\ Len(sent) \in Nat /\ Len(sent) <= MaxSent
        BY <1>2 DEF Types
      <3>3. /\ Kept \in Seq(Nat) /\ Len(Kept) <= Len(sent)
            /\ \A i \in 1..Len(Kept): Kept[i] = sent[i]
            /\ \A i \in 1..Len(sent): sent[i] < Longest => i <= Len(Kept)
            /\ Sorted(Kept) /\ Spaced(Kept)
        BY <1>2, <3>2, KeptFirst
      <3>4. Len(Kept) \in Nat /\ Longest \in Nat
        BY <3>3, LimitsInOrder
      <3>5. /\ Len(rfLog) \in Nat /\ DOMAIN rfLog = 1..Len(rfLog) /\ Len(rfLog) <= Len(sent)
            /\ \A i \in 1..Len(rfLog): /\ rfLog[i].age \in Nat
                                       /\ sent[i] <= rfLog[i].age /\ rfLog[i].age < Longest
        BY <1>2, <3>2, AgesOf DEF LogInv
      <3>6. ASSUME NEW i \in 1..Len(rfLog)
            PROVE  i \in 1..Len(Kept) /\ Kept[i] <= rfLog[i].age
        <4>1. i \in 1..Len(sent) /\ sent[i] \in Nat
          BY <3>2, <3>5
        <4>2. sent[i] < Longest
          BY <3>4, <3>5, <4>1
        <4>3. QED
          BY <3>3, <3>4, <3>5, <4>1, <4>2
      <3>7. Len(rfLog) <= Len(Kept)
        BY <3>4, <3>5, <3>6
      <3>8. LogInv'
        <4>1. Sorted(Ages(rfLog'))
          BY <1>2, <3>1 DEF LogInv
        <4>2. QED
          BY <3>1, <3>5, <3>6, <3>7, <4>1 DEF LogInv
      <3>9. SentInv' /\ NoEcho' /\ Len(sent') <= MaxSent
        BY <1>2, <3>1, <3>2, <3>3, <3>4, Constants DEF SentInv, NoEcho
      <3>10. QED
        BY <3>1, <3>2, <3>3, <3>8, <3>9
    <2>3. CASE ~gated
      BY <1>1, <1>2, <2>3 DEF Types, SentInv, LogInv, NoEcho
    <2>4. QED
      BY <2>1, <2>2, <2>3
  <1>7. toRf' \in [Messages -> 0..Never]
    <2>1. 0 \in 0..Never /\ toRf \in [Messages -> 0..Never]
      BY <1>2, Constants DEF Types
    <2>2. toRf' = toRf \/ toRf' = [toRf EXCEPT ![p] = 0]
      BY <1>1
    <2>3. QED
      BY <2>1, <2>2
  <1>8. Types'
    BY <1>1, <1>2, <1>3, <1>6, <1>7 DEF Types
  <1>9. QED
    BY <1>5, <1>6, <1>8 DEF Inv, IInv

LEMMA OlderType ==
  ASSUME IGateConstants, NEW a \in 0..Never
  PROVE  Older(a) \in 0..Never /\ Older(a) >= a /\ (a < Never => Older(a) = a + 1)
  BY Constants DEF Older

\* Time keeps the order of the ages, and what it drops is out of every window.
LEMMA AdvanceInv ==
  ASSUME IGateConstants, Inv, Advance
  PROVE  Inv'
  <1>1. Types /\ HeardInv /\ GatedInv /\ SentInv /\ LogInv /\ NoEcho
    BY DEF Inv, IInv
  <1>2. /\ sent \in Seq(Nat) /\ rfLog \in Seq(Log) /\ Len(sent) \in Nat /\ Longest \in Nat
        /\ Sorted(sent) /\ Spaced(sent) /\ Sorted(Ages(rfLog))
    BY <1>1, LimitsInOrder DEF Types, SentInv, LogInv
  <1>3. /\ sent' = OlderIn(sent, Longest + 1) /\ rfLog' = Young(rfLog)
        /\ isLog' = [p \in Packets |-> OlderIn(isLog[p], GateDupe)]
    BY DEF Advance
  <1>4. /\ sent' \in Seq(Nat) /\ Len(sent') \in Nat /\ Len(sent') <= Len(sent)
        /\ \A i \in 1..Len(sent'): sent'[i] = sent[i] + 1
        /\ \A i \in 1..Len(sent): i > Len(sent') => sent[i] + 1 >= Longest + 1
        /\ SentInv'
    <2>1. Longest + 1 \in Nat
      BY <1>2
    <2>2. QED
      BY <1>2, <1>3, <2>1, Aged DEF SentInv
  <1>5. /\ rfLog' \in Seq(Log) /\ Len(rfLog') <= Len(rfLog)
        /\ \A i \in 1..Len(rfLog'):
              /\ rfLog'[i].age = rfLog[i].age + 1 /\ rfLog'[i].heard = rfLog[i].heard
              /\ rfLog'[i].age < Longest
        /\ Sorted(Ages(rfLog'))
    BY <1>2, <1>3, YoungFirst
  <1>6. /\ Len(rfLog) \in Nat /\ Len(rfLog) <= Len(sent)
        /\ \A i \in 1..Len(rfLog): /\ rfLog[i].age \in Nat /\ sent[i] <= rfLog[i].age
                                   /\ rfLog[i].heard > Local /\ i \in 1..Len(sent)
                                   /\ sent[i] \in Nat
    BY SMTT(40), <1>1, <1>2, AgesOf DEF LogInv, NoEcho
  <1>7. /\ DOMAIN rfLog' = 1..Len(rfLog') /\ Len(rfLog') \in Nat
        /\ \A i \in 1..Len(rfLog'): i \in 1..Len(rfLog)
    BY <1>5, <1>6
  <1>8. ASSUME NEW i \in 1..Len(rfLog') PROVE i \in 1..Len(sent') /\ sent'[i] <= rfLog'[i].age
    <2>1. i \in Nat /\ i >= 1 /\ i \in 1..Len(rfLog)
      BY <1>7
    <2>2. /\ rfLog[i].age \in Nat /\ sent[i] \in Nat /\ sent[i] <= rfLog[i].age
          /\ i \in 1..Len(sent)
      BY <1>6, <2>1
    <2>3. rfLog'[i].age = rfLog[i].age + 1 /\ rfLog'[i].age < Longest
      BY <1>5
    <2>4. sent[i] + 1 < Longest
      BY SMTT(30), <1>2, <2>2, <2>3
    <2>5. i <= Len(sent')
      <3>1. i > Len(sent') => sent[i] + 1 >= Longest + 1
        BY <1>4, <2>2
      <3>2. Len(sent') \in Nat /\ Longest \in Nat
        BY <1>2, <1>4
      <3>3. QED
        BY <2>1, <2>2, <2>4, <3>1, <3>2
    <2>6. i \in 1..Len(sent')
      BY <1>4, <2>1, <2>5
    <2>7. QED
      BY SMTT(40), <1>4, <2>2, <2>3, <2>6
  <1>9. Len(rfLog') <= Len(sent')
    BY <1>4, <1>7, <1>8
  <1>10. LogInv' /\ NoEcho'
    BY <1>5, <1>6, <1>7, <1>8, <1>9 DEF LogInv, NoEcho
  <1>11. ASSUME NEW p \in Packets
         PROVE  /\ isLog'[p] \in Seq(Nat)
                /\ \/ isLog'[p] = <<>>
                   \/ /\ p \in OnAir /\ Len(isLog'[p]) = 1 /\ isLog'[p][1] = toIs'[PlainCopy(p)]
                      /\ isLog'[p][1] < GateDupe
    <2>1. isLog[p] \in Seq(Nat) /\ isLog'[p] = OlderIn(isLog[p], GateDupe) /\ GateDupe \in Nat
      BY <1>1, <1>3, Constants DEF Types
    <2>2. Len(isLog[p]) <= 1 /\ Len(isLog[p]) \in Nat
      BY <1>1, <2>1, LogShort
    <2>3. Sorted(isLog[p])
      BY <2>1, <2>2 DEF Sorted
    <2>4. /\ isLog'[p] \in Seq(Nat) /\ Len(isLog'[p]) \in Nat /\ Len(isLog'[p]) <= Len(isLog[p])
          /\ \A i \in 1..Len(isLog'[p]): isLog'[p][i] = isLog[p][i] + 1 /\ isLog'[p][i] < GateDupe
      BY <2>1, <2>3, Aged
    <2>5. CASE Len(isLog'[p]) = 0
      BY <2>4, <2>5
    <2>6. CASE Len(isLog'[p]) # 0
      <3>1. Len(isLog'[p]) = 1 /\ Len(isLog[p]) = 1
        <4>1. Len(isLog'[p]) \in Nat /\ Len(isLog'[p]) <= Len(isLog[p])
          BY <2>4
        <4>2. \A m, n: m \in Nat /\ n \in Nat /\ m <= n /\ n <= 1 /\ m # 0 => m = 1 /\ n = 1
          OBVIOUS
        <4>3. QED
          BY <2>2, <2>6, <4>1, <4>2, Zenon
      <3>2. p \in OnAir /\ isLog[p][1] = toIs[PlainCopy(p)] /\ isLog[p][1] < GateDupe
        BY <1>1, <3>1, LogShort
      <3>3. isLog'[p][1] = isLog[p][1] + 1 /\ isLog'[p][1] < GateDupe
        BY <2>4, <3>1
      <3>4. PlainCopy(p) \in Copies /\ toIs[PlainCopy(p)] \in 0..Never
        BY <1>1 DEF Types, PlainCopy, Copies
      <3>5. toIs'[PlainCopy(p)] = Older(toIs[PlainCopy(p)])
        BY <3>4 DEF Advance
      <3>6. toIs'[PlainCopy(p)] = toIs[PlainCopy(p)] + 1
        BY <3>2, <3>4, <3>5, OlderType, Constants
      <3>7. QED
        BY <2>4, <3>1, <3>2, <3>3, <3>6
    <2>7. QED
      BY <2>5, <2>6
  <1>12. GatedInv'
    BY <1>11 DEF GatedInv
  <1>13. /\ rfHeard' = [s \in Stations |-> Older(rfHeard[s])]
         /\ rfDirect' = [s \in Stations |-> Older(rfDirect[s])]
         /\ toIs' = [c \in Copies |-> Older(toIs[c])]
         /\ toRf' = [p \in Messages |-> Older(toRf[p])]
         /\ onRf' = [p \in OnAir |-> Older(onRf[p])]
         /\ channel' = channel
    BY DEF Advance
  <1>14. HeardInv'
    <2>1. ASSUME NEW a \in 0..Never, NEW b \in 0..Never, a <= b PROVE Older(a) <= Older(b)
      BY <2>1, Constants DEF Older
    <2>2. \A s \in Stations: rfHeard[s] \in 0..Never /\ rfDirect[s] \in 0..Never
      BY <1>1 DEF Types
    <2>3. \A p \in OnAir: onRf[p] \in 0..Never /\ p.from \in Stations
      BY <1>1 DEF Types, IGateConstants
    <2>4. ASSUME NEW s \in Stations
          PROVE  rfHeard'[s] <= rfDirect'[s] /\ (channel'[s] = "is" => rfHeard'[s] > Sticky)
      <3>1. rfHeard[s] <= rfDirect[s] /\ (channel[s] = "is" => rfHeard[s] > Sticky)
        BY <1>1 DEF HeardInv
      <3>2. rfHeard'[s] = Older(rfHeard[s]) /\ rfDirect'[s] = Older(rfDirect[s])
        BY <1>13
      <3>3. Older(rfHeard[s]) <= Older(rfDirect[s])
        BY <2>1, <2>2, <3>1
      <3>4. Older(rfHeard[s]) \in 0..Never /\ Older(rfHeard[s]) >= rfHeard[s]
        BY <2>2, OlderType
      <3>5. rfHeard[s] > Sticky => Older(rfHeard[s]) > Sticky
        BY <2>2, <3>4, Constants
      <3>6. QED
        BY <1>13, <3>1, <3>2, <3>3, <3>5
    <2>5. ASSUME NEW p \in OnAir PROVE rfHeard'[p.from] <= onRf'[p]
      BY <1>1, <1>13, <2>1, <2>2, <2>3 DEF HeardInv
    <2>6. QED
      BY <2>4, <2>5 DEF HeardInv
  <1>15. Types'
    <2>1. /\ rfHeard' \in [Stations -> 0..Never] /\ rfDirect' \in [Stations -> 0..Never]
          /\ toIs' \in [Copies -> 0..Never] /\ toRf' \in [Messages -> 0..Never]
          /\ onRf' \in [OnAir -> 0..Never] /\ channel' \in [Stations -> {"none", "rf", "is"}]
      BY <1>1, <1>13, OlderType DEF Types
    <2>2. isLog' \in [Packets -> Seq(Nat)]
      BY <1>3, <1>11
    <2>3. Len(sent') <= MaxSent
      BY <1>1, <1>2, <1>4, Constants DEF Types
    <2>4. QED
      BY <1>4, <1>5, <2>1, <2>2, <2>3 DEF Types
  <1>16. QED
    BY <1>4, <1>10, <1>12, <1>14, <1>15 DEF Inv, IInv

-----------------------------------------------------------------------------
\* IGate: the theorems

LEMMA NextInv == ASSUME IGateConstants, Inv, [Next]_vars PROVE Inv'
  <1>1. CASE UNCHANGED vars
    BY <1>1 DEF vars, heard, gates, logs, Inv, IInv, Types, HeardInv, GatedInv, SentInv, LogInv,
                NoEcho
  <1>2. CASE Next
    BY <1>2, PacketInv, ThirdPartyInv, IsLineInv, AdvanceInv DEF Next
  <1>3. QED
    BY <1>1, <1>2

LEMMA Invariance == ASSUME IGateConstants PROVE Spec => []Inv
  <1>1. Init => Inv
    BY InitInv
  <1>2. Inv /\ [Next]_vars => Inv'
    BY NextInv
  <1>3. QED
    BY <1>1, <1>2, PTL DEF Spec

\* The columns of a station's row go together, whatever copies it is updated from
\* (store.py:272-320).
THEOREM TypeCorrect == ASSUME IGateConstants PROVE Spec => []TypeOK
  <1>1. Inv => TypeOK
    BY DEF Inv, IInv, Types, HeardInv, TypeOK
  <1>2. QED
    BY <1>1, Invariance, PTL

\* A message that was on RF here within the window does not come back to RF through us: the
\* row of its station is as young as the message, and no copy from APRS-IS makes it older
\* (service.py:424-473).
THEOREM NothingEchoed == ASSUME IGateConstants PROVE Spec => []NoEcho
  <1>1. Inv => NoEcho
    BY DEF Inv, IInv
  <1>2. QED
    BY <1>1, Invariance, PTL

\* A packet goes to APRS-IS once in the window, and never what came from there
\* (aprsis.py:59-99).
THEOREM GatesOnce == ASSUME IGateConstants PROVE Spec => []GatedOnce
  <1>1. Inv => GatedOnce
    <2> SUFFICES ASSUME Inv PROVE GatedOnce
      OBVIOUS
    <2>1. GatedInv
      BY DEF Inv, IInv
    <2>2. QED
      BY <2>1, LogShort DEF GatedOnce
  <1>2. QED
    BY <1>1, Invariance, PTL

\* The rate of our transmissions keeps every limit: each entry of the limiter is as far from
\* the one that makes the limit full as the window is long (aprsis.py:102-116).
THEOREM KeepsRate == ASSUME IGateConstants PROVE Spec => []RateKept
  <1>1. ASSUME Inv PROVE RateKept
    <2> SUFFICES ASSUME NEW l \in Limits
                 PROVE  Cardinality({i \in DOMAIN rfLog: rfLog[i].age < l.window}) <= l.most
      BY DEF RateKept
    <2> DEFINE W == {i \in DOMAIN rfLog: rfLog[i].age < l.window}
    <2>1. /\ l.window \in Nat /\ l.most \in Nat /\ l.most > 0
      BY LimitsInOrder
    <2>2. /\ sent \in Seq(Nat) /\ rfLog \in Seq(Log) /\ Len(sent) \in Nat
          /\ Spaced(sent) /\ Sorted(Ages(rfLog)) /\ Len(rfLog) <= Len(sent)
          /\ \A i \in DOMAIN rfLog: sent[i] <= rfLog[i].age
      BY <1>1 DEF Inv, IInv, Types, SentInv, LogInv
    <2>3. /\ Len(rfLog) \in Nat /\ DOMAIN rfLog = 1..Len(rfLog)
          /\ \A i \in DOMAIN rfLog: rfLog[i].age \in Nat
      BY <2>2, AgesOf
    <2>4. ASSUME NEW i \in DOMAIN rfLog, i > l.most PROVE rfLog[i].age >= l.window
      <3>1. i \in DOMAIN sent /\ i - l.most \in DOMAIN sent /\ i = (i - l.most) + l.most
        BY SMTT(30), <2>1, <2>2, <2>3, <2>4
      <3>2. sent[i] >= sent[i - l.most] + l.window
        BY <2>2, <3>1 DEF Spaced
      <3>3. sent[i] \in Nat /\ sent[i - l.most] \in Nat
        BY <2>2, <3>1
      <3>4. sent[i] <= rfLog[i].age /\ rfLog[i].age \in Nat
        BY <2>2, <2>3
      <3>5. QED
        BY <2>1, <3>2, <3>3, <3>4
    <2>5. W \in SUBSET (1..l.most)
      BY <2>1, <2>3, <2>4
    <2>6. IsFiniteSet(1..l.most) /\ Cardinality(1..l.most) = l.most
      BY <2>1, UpTo
    <2>7. QED
      BY <2>5, <2>6, FS_Subset
  <1>2. QED
    BY <1>1, Invariance, PTL

-----------------------------------------------------------------------------
\* Ftm200: the folds

AddStep(none, acc, x) == Add(acc, x)
WholeStep(none, kept, packet) == KeepWhole(kept, packet)
Reads == INSTANCE FoldFacts WITH Op <- AddStep
Wholes == INSTANCE FoldFacts WITH Op <- WholeStep

\* What a parser makes of data.
Parsed(prs, data) == Reads!Folded(0, [buf |-> prs.buf, header |-> prs.header, out |-> <<>>], data)

LEMMA ParserIs == \A data: FeedParser(data) = Parsed(parser, data)
  BY DEF FeedParser, Parsed, AddStep, Reads!Folded, FoldLeft, Reads!FoldLeft, MapThenFoldSet,
         Reads!MapThenFoldSet, Max, Reads!Max

LEMMA WholeIs == \A packets: Whole(packets) = Wholes!Folded(0, <<>>, packets)
  BY DEF Whole, WholeStep, Wholes!Folded, FoldLeft, Wholes!FoldLeft, MapThenFoldSet,
         Wholes!MapThenFoldSet, Max, Wholes!Max

Piece == {Newline} \cup (RadioPackets \X {"header", "info"} \X {1, 2})
Handed == [header: Seq(Piece), info: Seq(Piece)]
Headers == {Line(p, "header"): p \in RadioPackets} \cup {Tail(Line(p, "header")): p \in RadioPackets}

WholePacket(p) == [header |-> Line(p, "header"), info |-> Line(p, "info")]
CutPacket(p) == [header |-> Tail(Line(p, "header")), info |-> Line(p, "info")]

\* PacketsWhole, of what is handed on and what is to be.
Matches(handed, packets) ==
    /\ Whole(handed) = [i \in DOMAIN packets |-> WholePacket(packets[i])]
    /\ \A i \in DOMAIN handed: \E p \in RadioPackets: handed[i] \in {WholePacket(p), CutPacket(p)}

LEMMA Lines ==
    ASSUME NEW p
    PROVE  /\ Line(p, "header") = <<<<p, "header", 1>>, <<p, "header", 2>>>>
           /\ Tail(Line(p, "header")) = <<<<p, "header", 2>>>>
           /\ Line(p, "info") = <<<<p, "info", 1>>, <<p, "info", 2>>>>
           /\ Len(Line(p, "header")) = 2 /\ Len(Tail(Line(p, "header"))) = 1
  <1>1. /\ Line(p, "header") = <<<<p, "header", 1>>, <<p, "header", 2>>>>
        /\ Line(p, "info") = <<<<p, "info", 1>>, <<p, "info", 2>>>>
    BY DEF Line
  <1>2. \A x, y: Tail(<<x, y>>) = <<y>> /\ Len(<<x, y>>) = 2 /\ Len(<<y>>) = 1
    OBVIOUS
  <1>3. QED
    BY <1>1, <1>2

\* What is written at each place of a packet.
At(p, k) ==
    CASE k = 1 -> <<p, "header", 1>>
      [] k = 2 -> <<p, "header", 2>>
      [] k = 3 -> Newline
      [] k = 4 -> <<p, "info", 1>>
      [] k = 5 -> <<p, "info", 2>>
      [] k = 6 -> Newline

LEMMA WrittenIs ==
    ASSUME NEW p \in RadioPackets
    PROVE  /\ Written(p) \in Seq(Piece) /\ Len(Written(p)) = 6
           /\ \A k \in 1..6: Written(p)[k] = At(p, k)
  <1> DEFINE h == Line(p, "header")
             i == Line(p, "info")
             n == <<Newline>>
  <1>1. /\ h \in Seq(Piece) /\ i \in Seq(Piece) /\ n \in Seq(Piece)
        /\ Len(h) = 2 /\ Len(i) = 2 /\ Len(n) = 1
        /\ h[1] = At(p, 1) /\ h[2] = At(p, 2) /\ n[1] = Newline
        /\ i[1] = At(p, 4) /\ i[2] = At(p, 5) /\ At(p, 3) = Newline /\ At(p, 6) = Newline
    <2>1. \A a, b \in Piece: /\ <<a, b>> \in Seq(Piece) /\ Len(<<a, b>>) = 2
                            /\ <<a, b>>[1] = a /\ <<a, b>>[2] = b
                            /\ <<a>> \in Seq(Piece) /\ Len(<<a>>) = 1 /\ <<a>>[1] = a
      OBVIOUS
    <2>2. /\ At(p, 1) \in Piece /\ At(p, 2) \in Piece /\ At(p, 4) \in Piece /\ At(p, 5) \in Piece
          /\ Newline \in Piece
      BY DEF At, Piece
    <2>3. h = <<At(p, 1), At(p, 2)>> /\ i = <<At(p, 4), At(p, 5)>>
      BY Lines DEF At
    <2>4. At(p, 3) = Newline /\ At(p, 6) = Newline
      BY DEF At
    <2>5. h \in Seq(Piece) /\ Len(h) = 2 /\ h[1] = At(p, 1) /\ h[2] = At(p, 2)
      <3> HIDE DEF h
      <3>1. QED
        BY <2>1, <2>2, <2>3
    <2>6. i \in Seq(Piece) /\ Len(i) = 2 /\ i[1] = At(p, 4) /\ i[2] = At(p, 5)
      <3> HIDE DEF i
      <3>1. QED
        BY <2>1, <2>2, <2>3
    <2>7. n \in Seq(Piece) /\ Len(n) = 1 /\ n[1] = Newline
      BY <2>1, <2>2
    <2>8. QED
      BY <2>4, <2>5, <2>6, <2>7
  <1>2. Written(p) = ((h \o n) \o i) \o n
    BY DEF Written
  <1> HIDE DEF h, i, n
  <1>3. h \o n \in Seq(Piece) /\ Len(h \o n) = 3
        /\ \A k \in 1..3: (h \o n)[k] = At(p, k)
    <2>1. /\ h \o n \in Seq(Piece) /\ Len(h \o n) = Len(h) + Len(n)
          /\ \A k \in 1..(Len(h) + Len(n)): (h \o n)[k] = IF k <= Len(h) THEN h[k] ELSE n[k - Len(h)]
      BY <1>1, ConcatProperties
    <2>2. \A k \in 1..3: k = 1 \/ k = 2 \/ k = 3
      OBVIOUS
    <2>3. QED
      BY <1>1, <2>1, <2>2
  <1>4. (h \o n) \o i \in Seq(Piece) /\ Len((h \o n) \o i) = 5
        /\ \A k \in 1..5: ((h \o n) \o i)[k] = At(p, k)
    <2> DEFINE s == h \o n
    <2>1. /\ s \o i \in Seq(Piece) /\ Len(s \o i) = Len(s) + Len(i)
          /\ \A k \in 1..(Len(s) + Len(i)): (s \o i)[k] = IF k <= Len(s) THEN s[k] ELSE i[k - Len(s)]
      BY <1>1, <1>3, ConcatProperties
    <2> HIDE DEF s
    <2>2. \A k \in 1..5: k \in 1..3 \/ k = 4 \/ k = 5
      OBVIOUS
    <2>3. Len(s) = 3 /\ \A k \in 1..3: s[k] = At(p, k)
      BY <1>3 DEF s
    <2>4. s \o i \in Seq(Piece) /\ Len(s \o i) = 5 /\ \A k \in 1..5: (s \o i)[k] = At(p, k)
      BY <1>1, <2>1, <2>2, <2>3
    <2>5. QED
      BY <2>4 DEF s
  <1>5. QED
    <2> DEFINE s == (h \o n) \o i
    <2>1. /\ s \o n \in Seq(Piece) /\ Len(s \o n) = Len(s) + Len(n)
          /\ \A k \in 1..(Len(s) + Len(n)): (s \o n)[k] = IF k <= Len(s) THEN s[k] ELSE n[k - Len(s)]
      BY <1>1, <1>4, ConcatProperties
    <2>2. Len(s) = 5 /\ \A k \in 1..5: s[k] = At(p, k)
      BY <1>4
    <2>3. Written(p) = s \o n
      BY <1>2
    <2> HIDE DEF s
    <2>4. \A k \in 1..6: k \in 1..5 \/ k = 6
      OBVIOUS
    <2>5. QED
      BY <1>1, <2>1, <2>2, <2>3, <2>4

-----------------------------------------------------------------------------
\* Ftm200: what a feed does

Acc == [buf: Seq(Piece), header: Seq(Piece), out: Seq(Handed)]

LEMMA AccIs ==
    \A b, h \in Seq(Piece), o \in Seq(Handed): [buf |-> b, header |-> h, out |-> o] \in Acc
  BY DEF Acc

LEMMA AccHas ==
    ASSUME NEW acc \in Acc
    PROVE  /\ acc.buf \in Seq(Piece) /\ acc.header \in Seq(Piece) /\ acc.out \in Seq(Handed)
           /\ NoHeader \in Seq(Piece) /\ <<>> \in Seq(Piece)
  BY DEF Acc, NoHeader

LEMMA WithHeader ==
    ASSUME NEW acc \in Acc, NEW line
    PROVE  [acc EXCEPT !.header = line] = [buf |-> acc.buf, header |-> line, out |-> acc.out]
  <1>1. DOMAIN acc = {"buf", "header", "out"}
    BY DEF Acc
  <1>2. [acc EXCEPT !.header = line] =
           [x \in {"buf", "header", "out"} |-> IF x = "header" THEN line ELSE acc[x]]
    BY <1>1, Zenon
  <1>3. [buf |-> acc.buf, header |-> line, out |-> acc.out] =
           [x \in {"buf", "header", "out"} |-> IF x = "header" THEN line ELSE acc[x]]
    OBVIOUS
  <1>4. QED
    BY <1>2, <1>3

\* A piece of a line is kept; ...
LEMMA AddPiece ==
    ASSUME NEW acc \in Acc, NEW x \in Piece, x # Newline
    PROVE  Add(acc, x) = [buf |-> Append(acc.buf, x), header |-> acc.header, out |-> acc.out]
  BY DEF Add, Acc

\* ... at the end of one, a header waits, a line under a header is handed on with it, and
\* another is dropped.
LEMMA AddNewline ==
    ASSUME NEW acc \in Acc
    PROVE  Add(acc, Newline) =
              IF IsHeader(acc.buf) THEN [buf |-> <<>>, header |-> acc.buf, out |-> acc.out]
              ELSE IF acc.buf = <<>> \/ acc.header = NoHeader
                   THEN [buf |-> <<>>, header |-> acc.header, out |-> acc.out]
              ELSE [buf |-> <<>>, header |-> NoHeader,
                    out |-> Append(acc.out, [header |-> acc.header, info |-> acc.buf])]
  <1>1. [acc EXCEPT !.buf = <<>>] = [buf |-> <<>>, header |-> acc.header, out |-> acc.out]
    BY DEF Acc
  <1>2. [acc EXCEPT !.buf = <<>>, !.header = acc.buf] =
           [buf |-> <<>>, header |-> acc.buf, out |-> acc.out]
    <2> DEFINE r == [buf |-> <<>>, header |-> acc.header, out |-> acc.out]
    <2>1. r \in Acc
      BY AccIs, AccHas
    <2>2. [r EXCEPT !.header = acc.buf] = [buf |-> r.buf, header |-> acc.buf, out |-> r.out]
      <3> HIDE DEF r
      <3>1. QED
        BY <2>1, WithHeader
    <2>3. [acc EXCEPT !.buf = <<>>, !.header = acc.buf] = [r EXCEPT !.header = acc.buf]
      BY <1>1
    <2>4. QED
      BY <2>1, <2>2, <2>3
  <1>3. Add(acc, Newline) = TakeLine(acc)
    BY DEF Add
  <1>4. QED
    BY <1>1, <1>2, <1>3 DEF TakeLine

LEMMA AddType ==
    ASSUME NEW acc \in Acc, NEW x \in Piece
    PROVE  Add(acc, x) \in Acc
  <1>1. /\ acc.buf \in Seq(Piece) /\ acc.header \in Seq(Piece) /\ acc.out \in Seq(Handed)
        /\ NoHeader \in Seq(Piece) /\ <<>> \in Seq(Piece)
    BY AccHas
  <1>2. CASE x # Newline
    <2>1. Append(acc.buf, x) \in Seq(Piece)
      BY <1>1
    <2>2. [buf |-> Append(acc.buf, x), header |-> acc.header, out |-> acc.out] \in Acc
      BY <1>1, <2>1, AccIs
    <2>3. QED
      BY <1>2, <2>2, AddPiece
  <1>3. CASE x = Newline
    <2>1. Append(acc.out, [header |-> acc.header, info |-> acc.buf]) \in Seq(Handed)
      BY <1>1 DEF Handed
    <2>2. QED
      BY <1>1, <1>3, <2>1, AddNewline, AccIs
  <1>4. QED
    BY <1>2, <1>3

LEMMA ParsedType ==
    ASSUME NEW prs \in [buf: Seq(Piece), header: Seq(Piece)], NEW data \in Seq(Piece)
    PROVE  Parsed(prs, data) \in Acc
  <1> DEFINE b == [buf |-> prs.buf, header |-> prs.header, out |-> <<>>]
  <1>1. b \in Acc
    BY DEF Acc
  <1>2. \A a \in Acc, x \in Piece: AddStep(0, a, x) \in Acc
    BY AddType DEF AddStep
  <1> HIDE DEF b
  <1>3. Reads!Folded(0, b, data) \in Acc
    BY <1>1, <1>2, Reads!FoldKeeps
  <1>4. QED
    BY <1>3 DEF Parsed, b

\* What is written is fed after what was.
LEMMA ParsedMore ==
    ASSUME NEW prs, NEW data \in Seq(Piece), NEW x
    PROVE  Parsed(prs, Append(data, x)) = Add(Parsed(prs, data), x)
  BY Reads!FoldAppend DEF Parsed, AddStep

LEMMA ParsedNothing ==
    ASSUME NEW prs
    PROVE  Parsed(prs, <<>>) = [buf |-> prs.buf, header |-> prs.header, out |-> <<>>]
  BY Reads!FoldEmpty DEF Parsed

-----------------------------------------------------------------------------
\* Ftm200: what is handed on

LEMMA HandedTypes ==
    ASSUME NEW p \in RadioPackets
    PROVE  /\ Line(p, "header") \in Seq(Piece) /\ Line(p, "info") \in Seq(Piece)
           /\ Tail(Line(p, "header")) \in Seq(Piece)
           /\ WholePacket(p) \in Handed /\ CutPacket(p) \in Handed
  <1>1. /\ <<p, "header", 1>> \in Piece /\ <<p, "header", 2>> \in Piece
        /\ <<p, "info", 1>> \in Piece /\ <<p, "info", 2>> \in Piece
    BY DEF Piece
  <1>2. \A a, b \in Piece: <<a, b>> \in Seq(Piece) /\ <<a>> \in Seq(Piece)
    OBVIOUS
  <1>3. /\ Line(p, "header") \in Seq(Piece) /\ Line(p, "info") \in Seq(Piece)
        /\ Tail(Line(p, "header")) \in Seq(Piece)
    BY <1>1, <1>2, Lines
  <1>4. QED
    BY <1>3 DEF WholePacket, CutPacket, Handed

LEMMA MatchesNone == Matches(<<>>, <<>>)
  <1>1. Whole(<<>>) = <<>>
    BY WholeIs, Wholes!FoldEmpty
  <1>2. QED
    BY <1>1 DEF Matches

\* A whole packet more ...
LEMMA MatchesWhole ==
    ASSUME NEW handed \in Seq(Handed), NEW packets \in Seq(RadioPackets),
           Matches(handed, packets), NEW p \in RadioPackets
    PROVE  Matches(Append(handed, WholePacket(p)), Append(packets, p))
  <1> DEFINE more == Append(handed, WholePacket(p))
             all == Append(packets, p)
  <1>1. Whole(more) = Append(Whole(handed), WholePacket(p))
    <2>1. Whole(more) = WholeStep(0, Whole(handed), WholePacket(p))
      BY WholeIs, Wholes!FoldAppend
    <2>2. WholeHeader(WholePacket(p))
      BY DEF WholeHeader, WholePacket
    <2>3. QED
      BY <2>1, <2>2 DEF WholeStep, KeepWhole
  <1>2. Append([i \in DOMAIN packets |-> WholePacket(packets[i])], WholePacket(p)) =
           [i \in DOMAIN all |-> WholePacket(all[i])]
    <2> DEFINE n == Len(packets)
               s == [i \in DOMAIN packets |-> WholePacket(packets[i])]
               t == [i \in DOMAIN all |-> WholePacket(all[i])]
    <2>1. /\ n \in Nat /\ DOMAIN packets = 1..n /\ DOMAIN all = 1..(n + 1)
          /\ all[n + 1] = p /\ \A i \in 1..n: all[i] = packets[i] /\ packets[i] \in RadioPackets
      OBVIOUS
    <2>2. \A q \in RadioPackets: WholePacket(q) \in Handed
      BY HandedTypes
    <2>3. s \in Seq(Handed) /\ Len(s) = n /\ \A i \in 1..n: s[i] = WholePacket(packets[i])
      BY <2>1, <2>2
    <2>4. t \in Seq(Handed) /\ Len(t) = n + 1 /\ \A i \in 1..(n + 1): t[i] = WholePacket(all[i])
      BY <2>1, <2>2
    <2> HIDE DEF s, t
    <2>5. LET u == Append(s, WholePacket(p))
          IN  /\ u \in Seq(Handed) /\ Len(u) = n + 1 /\ u[n + 1] = WholePacket(p)
              /\ \A i \in 1..n: u[i] = s[i]
      BY <2>2, <2>3, AppendProperties
    <2>6. Append(s, WholePacket(p)) = t
      <3> DEFINE u == Append(s, WholePacket(p))
      <3>1. /\ u \in Seq(Handed) /\ Len(u) = n + 1 /\ u[n + 1] = WholePacket(p)
            /\ \A i \in 1..n: u[i] = s[i]
        BY <2>5
      <3> HIDE DEF u
      <3>2. \A i \in 1..(n + 1): u[i] = t[i]
        <4>1. \A i \in 1..(n + 1): i \in 1..n \/ i = n + 1
          BY <2>1
        <4>2. QED
          BY <2>1, <2>3, <2>4, <3>1, <4>1
      <3>3. u = t
        BY <2>1, <2>4, <3>1, <3>2, SeqEqual
      <3>4. QED
        BY <3>3 DEF u
    <2>7. QED
      BY <2>6 DEF s, t
  <1>3. ASSUME NEW i \in DOMAIN more PROVE \E q \in RadioPackets: more[i] \in {WholePacket(q), CutPacket(q)}
    <2>1. /\ Len(handed) \in Nat /\ DOMAIN handed = 1..Len(handed) /\ DOMAIN more = 1..(Len(handed) + 1)
          /\ more[Len(handed) + 1] = WholePacket(p) /\ \A j \in 1..Len(handed): more[j] = handed[j]
      OBVIOUS
    <2>2. i \in 1..Len(handed) \/ i = Len(handed) + 1
      BY <2>1
    <2>3. QED
      BY <2>1, <2>2 DEF Matches
  <1>4. QED
    BY <1>1, <1>2, <1>3 DEF Matches

\* ... or one whose header lacks its beginning.
LEMMA MatchesCut ==
    ASSUME NEW handed \in Seq(Handed), NEW packets \in Seq(RadioPackets),
           Matches(handed, packets), NEW p \in RadioPackets
    PROVE  Matches(Append(handed, CutPacket(p)), packets)
  <1> DEFINE more == Append(handed, CutPacket(p))
  <1>1. Whole(more) = Whole(handed)
    <2>1. Whole(more) = WholeStep(0, Whole(handed), CutPacket(p))
      BY WholeIs, Wholes!FoldAppend
    <2>2. ~WholeHeader(CutPacket(p))
      BY Lines DEF WholeHeader, CutPacket
    <2>3. QED
      BY <2>1, <2>2 DEF WholeStep, KeepWhole
  <1>2. ASSUME NEW i \in DOMAIN more PROVE \E q \in RadioPackets: more[i] \in {WholePacket(q), CutPacket(q)}
    <2>1. /\ Len(handed) \in Nat /\ DOMAIN handed = 1..Len(handed) /\ DOMAIN more = 1..(Len(handed) + 1)
          /\ more[Len(handed) + 1] = CutPacket(p) /\ \A j \in 1..Len(handed): more[j] = handed[j]
      OBVIOUS
    <2>2. i \in 1..Len(handed) \/ i = Len(handed) + 1
      BY <2>1
    <2>3. QED
      BY <2>1, <2>2 DEF Matches
  <1>3. QED
    BY <1>1, <1>2 DEF Matches

-----------------------------------------------------------------------------
\* Ftm200: the inductive invariant: had all been read that is written, the parser had of the packet that
\* is being written what is not lost of it, and had handed on what is due.

\* How much of the packet is written.
At0 == 6 - Len(writing.rest)

\* The info line as far as it is written, ...
InfoSoFar(p, k) == CASE k = 3 -> <<>> [] k = 4 -> <<At(p, 4)>> [] k = 5 -> Line(p, "info")

\* ... what the parser has of a packet nothing is lost of, ...
HasRead(acc, p, k) ==
    \/ k = 1 /\ acc.buf = <<At(p, 1)>>
    \/ k = 2 /\ acc.buf = Line(p, "header")
    \/ k \in 3..5 /\ acc.header = Line(p, "header") /\ acc.buf = InfoSoFar(p, k)

\* ... and of one of which something is: a header without its beginning at most, and under it
\* only a whole line.
HasReadCut(acc, p, k) ==
    \/ acc.header = NoHeader /\ acc.buf = <<>>
    \/ acc.header = NoHeader /\ k \in {2, 5} /\ acc.buf = <<At(p, k)>>
    \/ acc.header \in {NoHeader, Tail(Line(p, "header"))} /\ k \in 3..5 /\ acc.buf = InfoSoFar(p, k)

InStep(acc, p, k, cut) ==
    /\ acc.header \in {NoHeader} \cup Headers
    /\ k \in {0, 6} => acc.buf = <<>>
    /\ k = 0 => ~cut
    /\ k \in 1..5 => IF cut THEN HasReadCut(acc, p, k) ELSE HasRead(acc, p, k)

FtmTypes ==
    /\ writing.of \in RadioPackets /\ writing.rest \in Seq(Piece)
    /\ writing = [of |-> writing.of, rest |-> writing.rest]
    /\ tty \in Seq(Piece)
    /\ parser \in [buf: Seq(Piece), header: Seq(Piece)]
    /\ cutOff \in BOOLEAN
    /\ due \in Seq(RadioPackets) /\ expected \in Seq(RadioPackets)
    /\ out \in Seq(Handed)

FtmInv ==
    /\ FtmTypes
    /\ At0 \in 0..6
    /\ \A k \in 1..Len(writing.rest): writing.rest[k] = At(writing.of, At0 + k)
    /\ InStep(Parsed(parser, tty), writing.of, At0, cutOff)
    /\ Matches(Parsed(parser, tty).out, due)
    /\ Matches(out, expected)

-----------------------------------------------------------------------------
\* Ftm200: each step keeps it

LEMMA FtmInitInv == ASSUME FtmConstants, FtmInit PROVE FtmInv
  <1>1. writing.of \in RadioPackets /\ writing.rest = <<>> /\ At0 = 6
    BY DEF FtmInit, FtmConstants, At0
  <1>2. FtmTypes
    <2>1. writing = [of |-> writing.of, rest |-> writing.rest]
      BY DEF FtmInit
    <2>2. parser \in [buf: Seq(Piece), header: Seq(Piece)]
      BY DEF FtmInit, NewParser, NoHeader
    <2>3. /\ tty \in Seq(Piece) /\ cutOff \in BOOLEAN /\ out \in Seq(Handed)
          /\ due \in Seq(RadioPackets) /\ expected \in Seq(RadioPackets)
      <3>1. tty = <<>> /\ cutOff = FALSE /\ out = <<>> /\ due = <<>> /\ expected = <<>>
        BY DEF FtmInit
      <3>2. \A S: <<>> \in Seq(S)
        OBVIOUS
      <3>3. QED
        BY <3>1, <3>2, Zenon
    <2>4. writing.rest \in Seq(Piece)
      BY <1>1
    <2>5. QED
      BY <1>1, <2>1, <2>2, <2>3, <2>4 DEF FtmTypes
  <1>3. Parsed(parser, tty) = [buf |-> <<>>, header |-> NoHeader, out |-> <<>>]
    BY ParsedNothing DEF FtmInit, NewParser
  <1>4. InStep(Parsed(parser, tty), writing.of, At0, cutOff)
    BY <1>1, <1>3 DEF InStep
  <1>5. Matches(Parsed(parser, tty).out, due) /\ Matches(out, expected)
    BY <1>3, MatchesNone DEF FtmInit
  <1>6. QED
    BY <1>1, <1>2, <1>4, <1>5 DEF FtmInv

LEMMA StartsInv == ASSUME FtmInv, NEW p \in RadioPackets, Starts(p) PROVE FtmInv'
  <1>1. /\ writing.rest = <<>> /\ writing'.of = p /\ writing'.rest = Written(p) /\ cutOff' = FALSE
        /\ writing' = [of |-> p, rest |-> Written(p)]
        /\ UNCHANGED <<tty, parser, due, out, expected>>
    BY DEF Starts
  <1>2. At0 = 6 /\ At0' = 0 /\ Len(writing'.rest) = 6
    BY <1>1, WrittenIs DEF At0
  <1>3. FtmTypes'
    <2>1. Written(p) \in Seq(Piece)
      BY WrittenIs
    <2>2. writing' = [of |-> writing'.of, rest |-> writing'.rest]
      BY <1>1
    <2>3. QED
      BY <1>1, <2>1, <2>2 DEF FtmInv, FtmTypes
  <1>4. \A k \in 1..Len(writing'.rest): writing'.rest[k] = At(writing'.of, At0' + k)
    <2>1. \A k \in 1..6: Written(p)[k] = At(p, 0 + k)
      BY WrittenIs
    <2>2. QED
      BY <1>1, <1>2, <2>1
  <1>5. Parsed(parser, tty)' = Parsed(parser, tty)
    BY <1>1
  <1>6. InStep(Parsed(parser, tty), writing.of, At0, cutOff)'
    BY <1>1, <1>2, <1>5 DEF FtmInv, InStep
  <1>7. QED
    BY <1>1, <1>2, <1>3, <1>4, <1>5, <1>6 DEF FtmInv

\* What a line leaves when it ends, and what a newline makes of nothing.
LEMMA HeaderEnds ==
    ASSUME NEW p
    PROVE  /\ IsHeader(Line(p, "header")) /\ IsHeader(<<At(p, 2)>>)
           /\ ~IsHeader(Line(p, "info")) /\ ~IsHeader(<<At(p, 5)>>) /\ ~IsHeader(<<>>)
           /\ Line(p, "info") # <<>> /\ <<At(p, 5)>> # <<>>
           /\ Line(p, "header") # NoHeader /\ Tail(Line(p, "header")) # NoHeader
           /\ <<At(p, 2)>> = Tail(Line(p, "header"))
           /\ Append(<<At(p, 1)>>, At(p, 2)) = Line(p, "header")
           /\ Append(<<At(p, 4)>>, At(p, 5)) = Line(p, "info")
           /\ \A x: Append(<<>>, x) = <<x>>
  <1>1. /\ At(p, 1) = <<p, "header", 1>> /\ At(p, 2) = <<p, "header", 2>>
        /\ At(p, 4) = <<p, "info", 1>> /\ At(p, 5) = <<p, "info", 2>>
    BY DEF At
  <1>2. \A a, b: Last(<<a, b>>) = b /\ Last(<<a>>) = a /\ <<a, b>> # <<>> /\ <<a>> # <<>>
    BY DEF Last
  <1>3. ASSUME NEW a, NEW b PROVE Append(<<a>>, b) = <<a, b>> /\ Append(<<>>, a) = <<a>>
    <2> DEFINE S == {a, b}
    <2>1. /\ <<>> \in Seq(S) /\ Len(<<>>) = 0
          /\ <<a>> \in Seq(S) /\ Len(<<a>>) = 1 /\ <<a>>[1] = a
          /\ <<a, b>> \in Seq(S) /\ Len(<<a, b>>) = 2 /\ <<a, b>>[1] = a /\ <<a, b>>[2] = b
      OBVIOUS
    <2>2. /\ Append(<<a>>, b) \in Seq(S) /\ Len(Append(<<a>>, b)) = 2
          /\ Append(<<a>>, b)[1] = a /\ Append(<<a>>, b)[2] = b
      BY <2>1, AppendProperties
    <2>3. /\ Append(<<>>, a) \in Seq(S) /\ Len(Append(<<>>, a)) = 1 /\ Append(<<>>, a)[1] = a
      BY <2>1, AppendProperties
    <2> HIDE DEF S
    <2>4. Append(<<a>>, b) = <<a, b>>
      <3>1. \A i \in 1..2: i = 1 \/ i = 2
        OBVIOUS
      <3>2. \A i \in 1..Len(<<a, b>>): Append(<<a>>, b)[i] = <<a, b>>[i]
        BY <2>1, <2>2, <3>1
      <3>3. QED
        BY <2>1, <2>2, <3>2, SeqEqual
    <2>5. Append(<<>>, a) = <<a>>
      <3>1. \A i \in 1..Len(<<a>>): Append(<<>>, a)[i] = <<a>>[i]
        BY <2>1, <2>3
      <3>2. QED
        BY <2>1, <2>3, <3>1, SeqEqual
    <2>6. QED
      BY <2>4, <2>5
  <1>4. QED
    BY SMTT(30), <1>1, <1>2, <1>3, Lines DEF IsHeader, NoHeader

\* What is known at each place.
LEMMA SoFar ==
    ASSUME NEW p
    PROVE  /\ InfoSoFar(p, 3) = <<>> /\ InfoSoFar(p, 4) = <<At(p, 4)>>
           /\ InfoSoFar(p, 5) = Line(p, "info")
  BY DEF InfoSoFar

\* A piece more of a line: ...
LEMMA PieceOfLine ==
    ASSUME NEW acc \in Acc, NEW p \in RadioPackets, NEW k \in {0, 1, 3, 4}, NEW cut \in BOOLEAN,
           InStep(acc, p, k, cut)
    PROVE  LET new == Add(acc, At(p, k + 1))
           IN  InStep(new, p, k + 1, cut) /\ new.out = acc.out
  <1> DEFINE After(x) == [buf |-> Append(acc.buf, x), header |-> acc.header, out |-> acc.out]
             Fit(x, n) == Add(acc, x) = After(x) /\ InStep(After(x), p, n, cut)
             known == acc.header \in {NoHeader} \cup Headers
  <1>1. /\ At(p, 1) = <<p, "header", 1>> /\ At(p, 2) = <<p, "header", 2>>
        /\ At(p, 4) = <<p, "info", 1>> /\ At(p, 5) = <<p, "info", 2>>
    BY DEF At
  <1>2. \A x \in {At(p, 1), At(p, 2), At(p, 4), At(p, 5)}: Add(acc, x) = After(x)
    <2>1. ASSUME NEW kind \in {"header", "info"}, NEW n \in {1, 2}
          PROVE  <<p, kind, n>> \in Piece /\ <<p, kind, n>> # Newline
      BY DEF Piece, Newline
    <2>2. \A x \in {At(p, 1), At(p, 2), At(p, 4), At(p, 5)}: x \in Piece /\ x # Newline
      BY <1>1, <2>1
    <2>3. QED
      BY <2>2, AddPiece
  <1>3. ASSUME k = 0 PROVE Fit(At(p, 1), 1)
    <2>1. acc.buf = <<>> /\ known /\ ~cut
      BY <1>3 DEF InStep
    <2>2. Append(acc.buf, At(p, 1)) = <<At(p, 1)>>
      BY <2>1, HeaderEnds
    <2>3. InStep(After(At(p, 1)), p, 1, cut)
      BY <2>1, <2>2 DEF InStep, HasRead
    <2>4. QED
      BY <1>2, <2>3
  <1>4. ASSUME k = 1 PROVE Fit(At(p, 2), 2)
    <2>1. known /\ IF cut THEN HasReadCut(acc, p, 1) ELSE HasRead(acc, p, 1)
      BY <1>4 DEF InStep
    <2>2. ~cut => Append(acc.buf, At(p, 2)) = Line(p, "header")
      <3>1. ~cut => acc.buf = <<At(p, 1)>>
        BY <2>1 DEF HasRead
      <3>2. QED
        BY <3>1, HeaderEnds
    <2>3. cut => Append(acc.buf, At(p, 2)) = <<At(p, 2)>> /\ acc.header = NoHeader
      <3>1. cut => acc.buf = <<>> /\ acc.header = NoHeader
        BY <2>1 DEF HasReadCut
      <3>2. QED
        BY <3>1, HeaderEnds
    <2>4. InStep(After(At(p, 2)), p, 2, cut)
      BY <2>1, <2>2, <2>3 DEF InStep, HasRead, HasReadCut
    <2>5. QED
      BY <1>2, <2>4
  <1>5. ASSUME k = 3 PROVE Fit(At(p, 4), 4)
    <2>1. known /\ IF cut THEN HasReadCut(acc, p, 3) ELSE HasRead(acc, p, 3)
      BY <1>5 DEF InStep
    <2>2. acc.buf = <<>>
      BY <2>1, SoFar DEF HasRead, HasReadCut
    <2>3. Append(acc.buf, At(p, 4)) = InfoSoFar(p, 4)
      BY <2>2, HeaderEnds, SoFar
    <2>4. InStep(After(At(p, 4)), p, 4, cut)
      BY <2>1, <2>3 DEF InStep, HasRead, HasReadCut
    <2>5. QED
      BY <1>2, <2>4
  <1>6. ASSUME k = 4 PROVE Fit(At(p, 5), 5)
    <2>1. known /\ IF cut THEN HasReadCut(acc, p, 4) ELSE HasRead(acc, p, 4)
      BY <1>6 DEF InStep
    <2>2. acc.buf = <<>> => Append(acc.buf, At(p, 5)) = <<At(p, 5)>>
      BY HeaderEnds
    <2>3. acc.buf = InfoSoFar(p, 4) => Append(acc.buf, At(p, 5)) = InfoSoFar(p, 5)
      BY HeaderEnds, SoFar
    <2>4. InStep(After(At(p, 5)), p, 5, cut)
      BY <2>1, <2>2, <2>3 DEF InStep, HasRead, HasReadCut
    <2>5. QED
      BY <1>2, <2>4
  <1>7. \A x, n: Fit(x, n) => InStep(Add(acc, x), p, n, cut) /\ Add(acc, x).out = acc.out
    OBVIOUS
  <1> HIDE DEF Fit
  <1>8. QED
    BY <1>3, <1>4, <1>5, <1>6, <1>7

\* ... what is lost stays lost, and at the end of a packet that is whole it is handed on.
LEMMA PieceMore ==
    ASSUME NEW acc \in Acc, NEW p \in RadioPackets, NEW k \in 0..5, NEW cut \in BOOLEAN,
           InStep(acc, p, k, cut), NEW packets \in Seq(RadioPackets), Matches(acc.out, packets)
    PROVE  LET new == Add(acc, At(p, k + 1))
           IN  /\ InStep(new, p, k + 1, cut)
               /\ Matches(new.out, IF k = 5 /\ ~cut THEN Append(packets, p) ELSE packets)
  <1> DEFINE new == Add(acc, At(p, k + 1))
  <1>1. /\ acc.buf \in Seq(Piece) /\ acc.header \in Seq(Piece) /\ acc.out \in Seq(Handed)
        /\ acc.header \in {NoHeader} \cup Headers
    BY DEF Acc, InStep
  <1>2. Line(p, "header") \in Headers /\ Tail(Line(p, "header")) \in Headers
    BY DEF Headers
  <1>3. CASE k \in {0, 1, 3, 4}
    BY <1>3, PieceOfLine
  <1>4. CASE k = 2
    <2> DEFINE line == Add(acc, Newline)
    <2>1. At(p, 3) = Newline /\ InStep(acc, p, 2, cut)
      BY <1>4 DEF At
    <2>2. CASE ~cut
      <3>1. acc.buf = Line(p, "header")
        BY <2>1, <2>2 DEF InStep, HasRead
      <3>2. line = [buf |-> <<>>, header |-> Line(p, "header"), out |-> acc.out]
        BY <3>1, HeaderEnds, AddNewline
      <3>3. InStep(line, p, 3, cut) /\ line.out = acc.out
        BY <1>2, <2>2, <3>2, SoFar DEF InStep, HasRead
      <3>4. QED
        BY <1>4, <2>1, <3>3
    <2>3. CASE cut /\ acc.buf = <<>>
      <3>1. acc.header = NoHeader
        BY <2>1, <2>3, SoFar DEF InStep, HasReadCut
      <3>2. line = [buf |-> <<>>, header |-> NoHeader, out |-> acc.out]
        BY <2>3, <3>1, HeaderEnds, AddNewline
      <3>3. InStep(line, p, 3, cut) /\ line.out = acc.out
        BY <2>3, <3>2 DEF InStep, HasReadCut
      <3>4. QED
        BY <1>4, <2>1, <3>3
    <2>4. CASE cut /\ acc.buf # <<>>
      <3>1. acc.buf = <<At(p, 2)>>
        BY <2>1, <2>4 DEF InStep, HasReadCut
      <3>2. line = [buf |-> <<>>, header |-> Tail(Line(p, "header")), out |-> acc.out]
        BY <3>1, HeaderEnds, AddNewline
      <3>3. InStep(line, p, 3, cut) /\ line.out = acc.out
        BY <1>2, <2>4, <3>2, SoFar DEF InStep, HasReadCut
      <3>4. QED
        BY <1>4, <2>1, <3>3
    <2>5. QED
      BY <2>2, <2>3, <2>4
  <1>5. CASE k = 5
    <2> DEFINE line == Add(acc, Newline)
    <2>1. InStep(acc, p, 5, cut)
      BY <1>5
    <2>5. new = line
      <3>1. At(p, 6) = Newline /\ k + 1 = 6
        BY <1>5 DEF At
      <3>2. QED
        BY <3>1
    <2>6. /\ (InStep(new, p, k + 1, cut) <=> InStep(line, p, 6, cut))
          /\ new.out = line.out
      BY <1>5, <2>5
    <2> HIDE DEF new
    <2>2. CASE ~cut
      <3>1. acc.buf = Line(p, "info") /\ acc.header = Line(p, "header")
        BY <2>1, <2>2, SoFar DEF InStep, HasRead
      <3>2. line = [buf |-> <<>>, header |-> NoHeader, out |-> Append(acc.out, WholePacket(p))]
        BY <3>1, HeaderEnds, AddNewline DEF WholePacket
      <3>3. InStep(line, p, 6, cut) /\ line.out = Append(acc.out, WholePacket(p))
        BY <3>2 DEF InStep
      <3>4. Matches(Append(acc.out, WholePacket(p)), Append(packets, p))
        BY <1>1, MatchesWhole
      <3>5. QED
        BY <1>5, <2>2, <3>3, <3>4, <2>6 DEF new
    <2>3. CASE cut /\ acc.header = NoHeader
      <3>1. ~IsHeader(acc.buf)
        <4>1. acc.buf = <<>> \/ acc.buf = <<At(p, 5)>> \/ acc.buf = Line(p, "info")
          BY <2>1, <2>3, SoFar DEF InStep, HasReadCut
        <4>2. QED
          BY <4>1, HeaderEnds
      <3>2. line = [buf |-> <<>>, header |-> NoHeader, out |-> acc.out]
        BY <2>3, <3>1, AddNewline
      <3>3. InStep(line, p, 6, cut) /\ line.out = acc.out
        BY <3>2 DEF InStep
      <3>4. QED
        BY <1>5, <2>3, <3>3, <2>6 DEF new
    <2>4. CASE cut /\ acc.header # NoHeader
      <3>1. acc.buf = Line(p, "info") /\ acc.header = Tail(Line(p, "header"))
        BY <2>1, <2>4, SoFar DEF InStep, HasReadCut
      <3>2. line = [buf |-> <<>>, header |-> NoHeader, out |-> Append(acc.out, CutPacket(p))]
        BY <3>1, HeaderEnds, AddNewline DEF CutPacket
      <3>3. InStep(line, p, 6, cut) /\ line.out = Append(acc.out, CutPacket(p))
        BY <3>2 DEF InStep
      <3>4. Matches(Append(acc.out, CutPacket(p)), packets)
        BY <1>1, MatchesCut
      <3>5. QED
        BY <1>5, <2>4, <3>3, <3>4, <2>6 DEF new
    <2>7. QED
      BY <2>2, <2>3, <2>4
  <1>6. QED
    BY <1>3, <1>4, <1>5

LEMMA WritesInv == ASSUME FtmInv, Writes PROVE FtmInv'
  <1> DEFINE p == writing.of
             k == At0
             x == Head(writing.rest)
             acc == Parsed(parser, tty)
  <1>1. /\ writing.rest # <<>> /\ writing.rest \in Seq(Piece) /\ p \in RadioPackets
        /\ tty' = Append(tty, x) /\ writing' = [writing EXCEPT !.rest = Tail(@)]
        /\ due' = IF Len(writing.rest) = 1 /\ ~cutOff THEN Append(due, p) ELSE due
        /\ UNCHANGED <<parser, cutOff, out, expected>>
    BY DEF Writes, FtmInv, FtmTypes
  <1>2. /\ Len(writing.rest) \in 1..6 /\ k \in 0..5 /\ Len(writing.rest) = 6 - k
        /\ x = At(p, k + 1) /\ x \in Piece
    <2>1. Len(writing.rest) \in Nat /\ Len(writing.rest) > 0
      BY <1>1
    <2>2. x = writing.rest[1] /\ x \in Piece
      BY <1>1
    <2>3. k \in 0..6 /\ k = 6 - Len(writing.rest)
      BY DEF FtmInv, At0
    <2>4. writing.rest[1] = At(p, k + 1)
      BY <2>1 DEF FtmInv
    <2> HIDE DEF x, k
    <2>5. Len(writing.rest) \in 1..6 /\ k \in 0..5 /\ Len(writing.rest) = 6 - k
      <3>1. \A l \in Nat: l > 0 /\ 6 - l \in 0..6 => l \in 1..6 /\ 6 - l \in 0..5 /\ l = 6 - (6 - l)
        OBVIOUS
      <3>2. QED
        BY <2>1, <2>3, <3>1
    <2>6. QED
      BY <2>2, <2>4, <2>5
  <1>3. /\ writing'.of = p /\ writing'.rest = Tail(writing.rest)
        /\ writing' = [of |-> writing'.of, rest |-> writing'.rest]
    BY <1>1 DEF FtmInv, FtmTypes
  <1>4. /\ Tail(writing.rest) \in Seq(Piece) /\ Len(Tail(writing.rest)) = 5 - k
        /\ \A i \in 1..(5 - k): Tail(writing.rest)[i] = writing.rest[i + 1]
    BY <1>1, <1>2, HeadTailProperties
  <1>5. At0' = k + 1
    BY <1>2, <1>3, <1>4 DEF At0
  <1>6. \A i \in 1..Len(writing'.rest): writing'.rest[i] = At(writing'.of, At0' + i)
    <2>1. ASSUME NEW i \in 1..(5 - k) PROVE Tail(writing.rest)[i] = At(p, (k + 1) + i)
      <3>1. i + 1 \in 1..Len(writing.rest) /\ k + (i + 1) = (k + 1) + i
        BY <1>2
      <3>2. QED
        BY <1>4, <3>1 DEF FtmInv
    <2>2. QED
      BY <1>3, <1>4, <1>5, <2>1
  <1>7. FtmTypes'
    <2>1. tty' \in Seq(Piece) /\ due' \in Seq(RadioPackets)
      BY <1>1, <1>2 DEF FtmInv, FtmTypes
    <2>2. QED
      BY <1>1, <1>3, <1>4, <2>1 DEF FtmInv, FtmTypes
  <1>8. acc \in Acc /\ acc' = Add(acc, x)
    <2>1. tty \in Seq(Piece) /\ parser \in [buf: Seq(Piece), header: Seq(Piece)]
      BY DEF FtmInv, FtmTypes
    <2>2. Parsed(parser, Append(tty, x)) = Add(Parsed(parser, tty), x)
      BY <2>1, ParsedMore
    <2>3. QED
      BY <1>1, <2>1, <2>2, ParsedType
  <1>9. InStep(acc, p, k, cutOff) /\ Matches(acc.out, due)
    BY DEF FtmInv
  <1>10. cutOff \in BOOLEAN /\ due \in Seq(RadioPackets)
    BY DEF FtmInv, FtmTypes
  <1>11. due' = IF k = 5 /\ ~cutOff THEN Append(due, p) ELSE due
    BY <1>1, <1>2
  <1> HIDE DEF acc, x, p, k
  <1>12. InStep(acc', p, k + 1, cutOff) /\ Matches(acc'.out, due')
    BY <1>1, <1>2, <1>8, <1>9, <1>10, <1>11, PieceMore
  <1>13. Matches(out', expected')
    BY <1>1 DEF FtmInv
  <1>14. InStep(Parsed(parser, tty), writing.of, At0, cutOff)'
    BY <1>1, <1>3, <1>5, <1>12 DEF acc, p
  <1>15. At0' \in 0..6
    BY <1>2, <1>5
  <1>16. QED
    BY <1>6, <1>7, <1>12, <1>13, <1>14, <1>15 DEF FtmInv, acc

\* What the invariant says of the unfinished line and of what was fed.
LEMMA ParsedNow ==
    ASSUME FtmInv
    PROVE  LET acc == Parsed(parser, tty)
           IN  /\ acc \in Acc /\ InStep(acc, writing.of, At0, cutOff) /\ Matches(acc.out, due)
               /\ tty \in Seq(Piece) /\ parser \in [buf: Seq(Piece), header: Seq(Piece)]
               /\ At0 \in 0..6 /\ (At0 = 6 <=> writing.rest = <<>>)
  <1>1. /\ tty \in Seq(Piece) /\ parser \in [buf: Seq(Piece), header: Seq(Piece)]
        /\ writing.rest \in Seq(Piece) /\ At0 \in 0..6
    BY DEF FtmInv, FtmTypes
  <1>2. At0 = 6 <=> writing.rest = <<>>
    <2>1. Len(writing.rest) \in Nat /\ (Len(writing.rest) = 0 <=> writing.rest = <<>>)
      BY <1>1
    <2>2. \A l \in Nat: 6 - l = 6 <=> l = 0
      OBVIOUS
    <2>3. QED
      BY <2>1, <2>2 DEF At0
  <1>3. QED
    BY <1>1, <1>2, ParsedType DEF FtmInv

LEMMA BlankInv == ASSUME FtmInv, Blank PROVE FtmInv'
  <1> DEFINE acc == Parsed(parser, tty)
  <1>1. /\ writing.rest = <<>> /\ tty' = Append(tty, Newline)
        /\ UNCHANGED <<writing, parser, cutOff, due, out, expected>>
    BY DEF Blank
  <1>2. /\ acc \in Acc /\ acc.buf = <<>> /\ tty \in Seq(Piece)
        /\ InStep(acc, writing.of, At0, cutOff) /\ Matches(acc.out, due)
    BY <1>1, ParsedNow DEF InStep
  <1>3. Parsed(parser, tty)' = Add(acc, Newline)
    BY <1>1, <1>2, ParsedMore
  <1>4. Add(acc, Newline) = acc
    <2>1. Add(acc, Newline) = [buf |-> <<>>, header |-> acc.header, out |-> acc.out]
      BY <1>2, AddNewline, HeaderEnds
    <2> HIDE DEF acc
    <2>2. acc = [buf |-> acc.buf, header |-> acc.header, out |-> acc.out]
      BY <1>2 DEF Acc
    <2>3. QED
      BY <1>2, <2>1, <2>2
  <1>5. FtmTypes'
    <2>1. tty' \in Seq(Piece)
      BY <1>1, <1>2 DEF Piece
    <2>2. QED
      BY <1>1, <2>1 DEF FtmInv, FtmTypes
  <1>6. At0' = At0
    BY <1>1 DEF At0
  <1>7. InStep(Parsed(parser, tty), writing.of, At0, cutOff)' /\ Matches(Parsed(parser, tty).out, due)'
    BY <1>1, <1>2, <1>3, <1>4, <1>6
  <1>8. QED
    BY <1>1, <1>5, <1>6, <1>7 DEF FtmInv

LEMMA ReadInv == ASSUME FtmInv, Read PROVE FtmInv'
  <1> DEFINE acc == Parsed(parser, tty)
  <1>1. /\ tty' = <<>> /\ parser' = [buf |-> acc.buf, header |-> acc.header] /\ out' = acc.out
        /\ expected' = due /\ due' = <<>>
        /\ UNCHANGED <<writing, cutOff>>
    BY ParserIs DEF Read
  <1>2. acc \in Acc /\ InStep(acc, writing.of, At0, cutOff) /\ Matches(acc.out, due)
    BY ParsedNow
  <1> HIDE DEF acc
  <1>3. Parsed(parser, tty)' = [buf |-> acc.buf, header |-> acc.header, out |-> <<>>]
    <2>1. Parsed(parser', <<>>) = [buf |-> parser'.buf, header |-> parser'.header, out |-> <<>>]
      BY ParsedNothing
    <2>2. QED
      BY <1>1, <2>1
  <1>4. FtmTypes'
    <2>1. acc.buf \in Seq(Piece) /\ acc.header \in Seq(Piece) /\ acc.out \in Seq(Handed)
      BY <1>2, AccHas
    <2>2. parser' \in [buf: Seq(Piece), header: Seq(Piece)]
      BY <1>1, <2>1
    <2>3. tty' \in Seq(Piece) /\ due' \in Seq(RadioPackets)
      BY <1>1
    <2>4. QED
      BY <1>1, <2>1, <2>2, <2>3 DEF FtmInv, FtmTypes
  <1>5. At0' = At0
    BY <1>1 DEF At0
  <1>6. InStep(Parsed(parser, tty), writing.of, At0, cutOff)'
    BY <1>1, <1>2, <1>3, <1>5 DEF InStep, HasRead, HasReadCut
  <1>7. Matches(Parsed(parser, tty).out, due)'
    BY <1>1, <1>3, MatchesNone
  <1>8. Matches(out, expected)'
    BY <1>1, <1>2
  <1>9. QED
    BY <1>1, <1>4, <1>5, <1>6, <1>7, <1>8 DEF FtmInv

\* A parser that has nothing, of a packet that may be cut off.
LEMMA FreshInStep ==
    ASSUME NEW acc, acc.buf = <<>>, acc.header = NoHeader, NEW p, NEW k \in 0..6, NEW cut \in BOOLEAN,
           k = 0 => ~cut, k \in 1..5 => cut
    PROVE  InStep(acc, p, k, cut)
  BY DEF InStep, HasReadCut

LEMMA SilenceInv == ASSUME FtmInv, Silence PROVE FtmInv'
  <1> DEFINE acc == Parsed(parser, tty)
             new == Parsed(parser, tty)'
  <1>1. /\ tty = <<>> /\ tty' = <<>> /\ parser' = IF Pending THEN NewParser ELSE parser
        /\ cutOff' = (cutOff \/ Pending)
        /\ writing' \in {writing, [writing EXCEPT !.rest = <<>>]}
        /\ UNCHANGED <<due, out, expected>>
    BY DEF Silence, Flushed
  <1>2. /\ acc \in Acc /\ InStep(acc, writing.of, At0, cutOff) /\ Matches(acc.out, due)
        /\ At0 \in 0..6 /\ (At0 = 6 <=> writing.rest = <<>>) /\ cutOff \in BOOLEAN
        /\ parser \in [buf: Seq(Piece), header: Seq(Piece)]
    BY ParsedNow DEF FtmInv, FtmTypes
  <1>3. acc = [buf |-> parser.buf, header |-> parser.header, out |-> <<>>]
    BY <1>1, ParsedNothing
  <1>4. new = [buf |-> parser'.buf, header |-> parser'.header, out |-> <<>>]
    BY <1>1, ParsedNothing
  <1> HIDE DEF acc, new
  <1>5. FtmTypes'
    <2>1. NewParser \in [buf: Seq(Piece), header: Seq(Piece)]
      BY DEF NewParser, NoHeader
    <2>2. writing' = [of |-> writing'.of, rest |-> writing'.rest] /\ writing'.of = writing.of
          /\ writing'.rest \in Seq(Piece)
      BY <1>1 DEF FtmInv, FtmTypes
    <2>3. parser' \in [buf: Seq(Piece), header: Seq(Piece)] /\ cutOff' \in BOOLEAN
      BY <1>1, <1>2, <2>1
    <2>4. QED
      BY <1>1, <2>2, <2>3 DEF FtmInv, FtmTypes
  <1>6. CASE writing' = writing
    <2>1. At0' = At0
      BY <1>6 DEF At0
    <2>2. InStep(new, writing.of, At0, cutOff')
      <3>1. CASE ~Pending
        BY <1>1, <1>2, <1>3, <1>4, <3>1
      <3>2. CASE Pending
        <4>1. new.buf = <<>> /\ new.header = NoHeader
          BY <1>1, <1>4, <3>2 DEF NewParser
        <4>2. At0 # 0
          BY <1>2, <1>3, <3>2 DEF InStep, Pending
        <4>3. cutOff' = TRUE
          BY <1>1, <3>2
        <4>4. QED
          BY <1>2, <4>1, <4>2, <4>3, FreshInStep
      <3>3. QED
        BY <3>1, <3>2
    <2>3. QED
      BY <1>1, <1>2, <1>3, <1>4, <1>5, <1>6, <2>1, <2>2 DEF FtmInv, new
  <1>7. CASE writing' = [writing EXCEPT !.rest = <<>>]
    <2>1. writing'.rest = <<>> /\ writing'.of = writing.of
      BY <1>7 DEF FtmInv, FtmTypes
    <2>2. At0' = 6
      BY <2>1 DEF At0
    <2>3. InStep(new, writing.of, 6, cutOff')
      <3>1. new.buf = <<>>
        BY <1>1, <1>4 DEF NewParser, Pending
      <3>2. new.header \in {NoHeader} \cup Headers
        BY <1>1, <1>2, <1>3, <1>4 DEF NewParser, InStep
      <3>3. QED
        BY <3>1, <3>2 DEF InStep
    <2>4. \A k \in 1..Len(writing'.rest): writing'.rest[k] = At(writing'.of, At0' + k)
      BY <2>1
    <2>5. QED
      BY <1>1, <1>2, <1>3, <1>4, <1>5, <2>1, <2>2, <2>3, <2>4 DEF FtmInv, new
  <1>8. QED
    BY <1>1, <1>6, <1>7

LEMMA OpensInv == ASSUME FtmInv, Opens PROVE FtmInv'
  <1> DEFINE new == Parsed(parser, tty)'
  <1>1. /\ parser' = NewParser /\ tty' = <<>>
        /\ cutOff' = (writing.rest \notin {<<>>, Written(writing.of)})
        /\ due' = <<>> /\ out' = <<>> /\ expected' = <<>>
        /\ writing' = writing
    BY DEF Opens
  <1>2. /\ At0 \in 0..6 /\ (At0 = 6 <=> writing.rest = <<>>) /\ writing.of \in RadioPackets
        /\ writing.rest \in Seq(Piece)
    BY ParsedNow DEF FtmInv, FtmTypes
  <1>3. new = [buf |-> <<>>, header |-> NoHeader, out |-> <<>>]
    BY <1>1, ParsedNothing DEF NewParser
  <1> HIDE DEF new
  <1>4. At0 = 0 <=> writing.rest = Written(writing.of)
    <2>1. ASSUME At0 = 0 PROVE writing.rest = Written(writing.of)
      <3>1. Len(writing.rest) = 6
        <4>1. Len(writing.rest) \in Nat
          BY <1>2
        <4>2. \A l \in Nat: 6 - l = 0 => l = 6
          OBVIOUS
        <4>3. QED
          BY <2>1, <4>1, <4>2 DEF At0
      <3>2. \A k \in 1..6: writing.rest[k] = At(writing.of, k)
        <4>1. \A k \in 1..6: 0 + k = k
          OBVIOUS
        <4>2. QED
          BY <2>1, <3>1, <4>1 DEF FtmInv
      <3>3. QED
        BY SMTT(30), <1>2, <3>1, <3>2, WrittenIs, SeqEqual
    <2>2. ASSUME writing.rest = Written(writing.of) PROVE At0 = 0
      BY <1>2, <2>2, WrittenIs DEF At0
    <2>3. QED
      BY <2>1, <2>2
  <1>5. InStep(new, writing.of, At0, cutOff')
    <2>1. cutOff' \in BOOLEAN /\ (cutOff' <=> At0 # 0 /\ At0 # 6)
      BY <1>1, <1>2, <1>4
    <2>2. new.buf = <<>> /\ new.header = NoHeader
      BY <1>3
    <2>3. (At0 = 0 => ~cutOff') /\ (At0 \in 1..5 => cutOff')
      BY <1>2, <2>1
    <2> DEFINE k == At0
               cut == cutOff'
    <2> HIDE DEF k, cut
    <2>4. k \in 0..6 /\ cut \in BOOLEAN /\ (k = 0 => ~cut) /\ (k \in 1..5 => cut)
      BY <1>2, <2>1, <2>3 DEF k, cut
    <2>5. InStep(new, writing.of, k, cut)
      BY <2>2, <2>4, FreshInStep
    <2>6. QED
      BY <2>5 DEF k, cut
  <1>6. FtmTypes'
    <2>1. parser' \in [buf: Seq(Piece), header: Seq(Piece)]
      BY <1>1 DEF NewParser, NoHeader
    <2>2. \A S: <<>> \in Seq(S)
      OBVIOUS
    <2>3. /\ tty' \in Seq(Piece) /\ cutOff' \in BOOLEAN /\ out' \in Seq(Handed)
          /\ due' \in Seq(RadioPackets) /\ expected' \in Seq(RadioPackets)
      BY <1>1, <2>2, Zenon
    <2>4. QED
      BY <1>1, <2>1, <2>3 DEF FtmInv, FtmTypes
  <1>7. At0' = At0
    BY <1>1 DEF At0
  <1>8. Matches(new.out, due') /\ Matches(out', expected')
    BY <1>1, <1>3, MatchesNone
  <1>9. QED
    BY <1>1, <1>2, <1>5, <1>6, <1>7, <1>8 DEF FtmInv, new

LEMMA FtmNextInv == ASSUME FtmInv, [FtmNext]_ftmVars PROVE FtmInv'
  <1>1. CASE UNCHANGED ftmVars
    BY <1>1 DEF FtmInv, FtmTypes, At0, ftmVars
  <1>2. CASE FtmNext
    BY <1>2, StartsInv, WritesInv, BlankInv, ReadInv, SilenceInv, OpensInv DEF FtmNext
  <1>3. QED
    BY <1>1, <1>2

\* However the lines are cut off, resumed, read in pieces and joined late, each packet that was
\* written whole is handed on once and in order, and nothing else but whole info lines under
\* what is left of their own header (ftm200.py:46-84, 146-181).
THEOREM WholePackets == ASSUME FtmConstants PROVE FtmSpec => []PacketsWhole
  <1>1. FtmInit => FtmInv
    BY FtmInitInv
  <1>2. FtmInv /\ [FtmNext]_ftmVars => FtmInv'
    BY FtmNextInv
  <1>3. FtmInv => PacketsWhole
    <2>1. ASSUME Matches(out, expected) PROVE PacketsWhole
      BY <2>1 DEF Matches, PacketsWhole, WholePacket, CutPacket
    <2>2. QED
      BY <2>1 DEF FtmInv
  <1>4. QED
    BY <1>1, <1>2, <1>3, PTL DEF FtmSpec

-----------------------------------------------------------------------------
\* Kiss: the folds, and the invariant

ByteStep(none, acc, b) == Byte(acc, b)
PutStep(none, sofar, b) == Put(sofar, b)
PlainStep(s, sofar, i) == sofar \o StandsFor(s, i)
FrameStep(w, sofar, i) == sofar \o FrameAt(w, i)

Feeds == INSTANCE FoldFacts WITH Op <- ByteStep
Puts == INSTANCE FoldFacts WITH Op <- PutStep
Plains == INSTANCE FoldFacts WITH Op <- PlainStep
Frames == INSTANCE FoldFacts WITH Op <- FrameStep

Octet == 0..255
Frame == [port: Nat, data: Seq(Octet)]
DecoderState == [buf: Seq(Octet), inFrame: BOOLEAN, escape: BOOLEAN]

\* The frame that is being read.
FendsIn(w) == FendsBefore(w, Len(w) + 1)
Current(w) == SubSeq(w, Max(FendsIn(w)) + 1, Len(w))

Decodes(w, d, f) ==
    /\ w \in Seq(Octet) /\ d \in DecoderState /\ f \in Seq(Frame)
    /\ f = Framed(w)
    /\ d.inFrame <=> FendsIn(w) # {}
    /\ ~d.inFrame => d = NewDecoder
    /\ d.inFrame => /\ d.buf = Plain(Current(w))
                    /\ d.escape <=> Escaped(Current(w), Len(Current(w)) + 1)

KissInv == Decodes(wire, decoder, frames)

-----------------------------------------------------------------------------
\* Kiss: the definitions as folds

LEMMA FeedIs ==
  \A d, chunk: Feed(d, chunk) = Feeds!Folded(0, [decoder |-> d, frames |-> <<>>], chunk)
  BY DEF Feed, ByteStep, Feeds!Folded, FoldLeft, Feeds!FoldLeft, MapThenFoldSet,
         Feeds!MapThenFoldSet, Max, Feeds!Max

LEMMA EncodeIs ==
  \A data: EncodeFrame(data) = Append(Puts!Folded(0, <<FEND, 0>>, data), FEND)
  BY DEF EncodeFrame, PutStep, Puts!Folded, FoldLeft, Puts!FoldLeft, MapThenFoldSet,
         Puts!MapThenFoldSet, Max, Puts!Max

LEMMA PlainIs == \A s: Plain(s) = Plains!Folded(s, <<>>, Indices(s))
  BY DEF Plain, PlainStep, Plains!Folded, FoldLeft, Plains!FoldLeft, MapThenFoldSet,
         Plains!MapThenFoldSet, Max, Plains!Max

LEMMA FramedIs == \A w: Framed(w) = Frames!Folded(w, <<>>, Indices(w))
  BY DEF Framed, FrameStep, Frames!Folded, FoldLeft, Frames!FoldLeft, MapThenFoldSet,
         Frames!MapThenFoldSet, Max, Frames!Max

LEMMA IndicesMore ==
  ASSUME NEW X, NEW s \in Seq(X), NEW b \in X
  PROVE  /\ Indices(s) \in Seq(Nat) /\ Len(Indices(s)) = Len(s)
         /\ \A i \in 1..Len(s): Indices(s)[i] = i
         /\ Indices(Append(s, b)) = Append(Indices(s), Len(s) + 1)
  <1>1. /\ Indices(s) \in Seq(Nat) /\ Len(Indices(s)) = Len(s)
        /\ \A i \in 1..Len(s): Indices(s)[i] = i
    BY DEF Indices
  <1>2. Indices(Append(s, b)) = Append(Indices(s), Len(s) + 1)
    <2>1. Len(Append(s, b)) = Len(s) + 1
      OBVIOUS
    <2>2. Indices(Append(s, b)) = [i \in 1..(Len(s) + 1) |-> i]
      BY <2>1 DEF Indices
    <2>3. Append(Indices(s), Len(s) + 1) =
             [i \in 1..(Len(s) + 1) |-> IF i = Len(s) + 1 THEN Len(s) + 1 ELSE Indices(s)[i]]
      BY <1>1
    <2>4. \A i \in 1..(Len(s) + 1): i # Len(s) + 1 => Indices(s)[i] = i
      BY <1>1
    <2>5. QED
      BY <2>2, <2>3, <2>4
  <1>3. QED
    BY <1>1, <1>2

-----------------------------------------------------------------------------
\* Kiss: runs of FESCs

Run(t, i, n) ==
    /\ n \in 0..(i - 1) /\ \A k \in (i - n)..(i - 1): t[k] = FESC
    /\ i - n = 1 \/ t[i - n - 1] # FESC

LEMMA EscapedIsRun ==
  ASSUME NEW t, NEW i \in Nat
  PROVE  Escaped(t, i) <=> \E n \in Nat: Run(t, i, n) /\ n % 2 = 1
  BY DEF Escaped, Run

\* Before each byte stands a run of FESCs, and only one that is as long as it gets.
LEMMA RunExists ==
  ASSUME NEW t, NEW i \in Nat, i >= 1
  PROVE  \E n \in Nat: Run(t, i, n)
  <1> DEFINE T == {j \in 1..i: \A k \in j..(i - 1): t[k] = FESC}
  <1>1. T \in SUBSET Nat /\ i \in T
    OBVIOUS
  <1>2. PICK j \in T: \A m \in T: j <= m
    BY <1>1, Feeds!Least
  <1>3. j = 1 \/ t[j - 1] # FESC
    <2> SUFFICES ASSUME j # 1, t[j - 1] = FESC PROVE FALSE
      OBVIOUS
    <2>1. j - 1 \in 1..i /\ \A k \in (j - 1)..(i - 1): k = j - 1 \/ k \in j..(i - 1)
      OBVIOUS
    <2>2. j - 1 \in T
      BY <2>1
    <2>3. QED
      BY <1>2, <2>2
  <1>4. i - j \in 0..(i - 1) /\ i - (i - j) = j /\ i - (i - j) - 1 = j - 1 /\ i - j \in Nat
    OBVIOUS
  <1>5. \A k \in (i - (i - j))..(i - 1): t[k] = FESC
    BY <1>4
  <1>6. Run(t, i, i - j)
    BY <1>3, <1>4, <1>5 DEF Run
  <1>7. QED
    BY <1>4, <1>6

LEMMA RunUnique ==
  ASSUME NEW t, NEW i \in Nat, NEW n \in Nat, NEW m \in Nat, Run(t, i, n), Run(t, i, m)
  PROVE  n = m
  <1>1. ASSUME NEW p \in Nat, NEW q \in Nat, Run(t, i, p), Run(t, i, q) PROVE ~(p < q)
    <2> SUFFICES ASSUME p < q PROVE FALSE
      OBVIOUS
    <2>1. i - p - 1 \in (i - q)..(i - 1) /\ i - p # 1
      BY <1>1 DEF Run
    <2>2. QED
      BY <1>1, <2>1 DEF Run
  <1>2. QED
    BY <1>1

\* A FESC that is not escaped escapes the next byte.
LEMMA EscapedNext ==
  ASSUME NEW t, NEW i \in Nat, i >= 1
  PROVE  Escaped(t, i + 1) <=> t[i] = FESC /\ ~Escaped(t, i)
  <1>1. ASSUME Escaped(t, i + 1) PROVE t[i] = FESC /\ ~Escaped(t, i)
    <2>1. PICK n \in Nat: Run(t, i + 1, n) /\ n % 2 = 1
      BY <1>1, EscapedIsRun
    <2>2. n >= 1 /\ n - 1 \in Nat /\ (n - 1) % 2 = 0
      BY <2>1
    <2>3. t[i] = FESC
      BY <2>1, <2>2 DEF Run
    <2>4. Run(t, i, n - 1)
      <3>1. n - 1 \in 0..(i - 1) /\ i - (n - 1) = i + 1 - n /\ i - (n - 1) - 1 = i + 1 - n - 1
        BY <2>1, <2>2 DEF Run
      <3>2. \A k \in (i - (n - 1))..(i - 1): k \in (i + 1 - n)..(i + 1 - 1)
        BY <3>1
      <3>3. QED
        BY <2>1, <3>1, <3>2 DEF Run
    <2>5. ASSUME Escaped(t, i) PROVE FALSE
      <3>1. PICK m \in Nat: Run(t, i, m) /\ m % 2 = 1
        BY <2>5, EscapedIsRun
      <3>2. m = n - 1
        BY <2>2, <2>4, <3>1, RunUnique
      <3>3. QED
        BY <2>2, <3>1, <3>2
    <2>6. QED
      BY <2>3, <2>5
  <1>2. ASSUME t[i] = FESC, ~Escaped(t, i) PROVE Escaped(t, i + 1)
    <2>1. PICK n \in Nat: Run(t, i, n)
      BY RunExists
    <2>2. n % 2 # 1
      BY <1>2, <2>1, EscapedIsRun
    <2>3. (n + 1) % 2 = 1 /\ n + 1 \in Nat
      BY <2>2
    <2>4. Run(t, i + 1, n + 1)
      <3>1. /\ n + 1 \in 0..(i + 1 - 1) /\ i + 1 - (n + 1) = i - n
            /\ i + 1 - (n + 1) - 1 = i - n - 1
        BY <2>1 DEF Run
      <3>2. \A k \in (i - n)..(i + 1 - 1): k = i \/ k \in (i - n)..(i - 1)
        BY <2>1 DEF Run
      <3>3. QED
        BY <1>2, <2>1, <3>1, <3>2 DEF Run
    <2>5. QED
      BY <2>3, <2>4, EscapedIsRun
  <1>3. QED
    BY <1>1, <1>2

\* It takes the bytes before it.
LEMMA EscapedSame ==
  ASSUME NEW s, NEW t, NEW i \in Nat, \A k \in 1..(i - 1): s[k] = t[k]
  PROVE  Escaped(s, i) <=> Escaped(t, i)
  <1>1. ASSUME NEW p, NEW q, \A k \in 1..(i - 1): p[k] = q[k], Escaped(p, i) PROVE Escaped(q, i)
    <2>1. PICK n \in 1..(i - 1):
             /\ n % 2 = 1 /\ \A k \in (i - n)..(i - 1): p[k] = FESC
             /\ i - n = 1 \/ p[i - n - 1] # FESC
      BY <1>1 DEF Escaped
    <2>2. /\ \A k \in (i - n)..(i - 1): k \in 1..(i - 1)
          /\ i - n # 1 => i - n - 1 \in 1..(i - 1)
      OBVIOUS
    <2>3. \A k \in 1..(i - 1): p[k] = q[k]
      BY <1>1
    <2>4. \A k \in (i - n)..(i - 1): q[k] = FESC
      BY <2>1, <2>2, <2>3
    <2>5. i - n = 1 \/ q[i - n - 1] # FESC
      BY <2>1, <2>2, <2>3
    <2>6. n \in 1..(i - 1) /\ n % 2 = 1
      BY <2>1
    <2>7. QED
      BY <2>4, <2>5, <2>6 DEF Escaped
  <1>2. QED
    BY <1>1

-----------------------------------------------------------------------------
\* Kiss: one byte more

LEMMA AppendAt ==
  ASSUME NEW X, NEW s \in Seq(X), NEW b \in X
  PROVE  /\ Append(s, b) \in Seq(X) /\ Len(Append(s, b)) = Len(s) + 1 /\ Len(s) \in Nat
         /\ Append(s, b)[Len(s) + 1] = b
         /\ \A i \in 1..Len(s): Append(s, b)[i] = s[i]
  OBVIOUS

\* What the last byte of s stands for.
Meaning(s, b) ==
    IF Escaped(s, Len(s) + 1) THEN Unescape(b) ELSE IF b = FESC THEN <<>> ELSE <<b>>

LEMMA PlainNone == Plain(<<>>) = <<>> /\ ~Escaped(<<>>, 1)
  <1>1. Indices(<<>>) = <<>>
    BY DEF Indices
  <1>2. QED
    BY <1>1, PlainIs, Plains!FoldEmpty DEF Escaped

\* One byte more of a frame: what it stands for is added, and the next one is escaped by it or not.
LEMMA PlainMore ==
  ASSUME NEW s \in Seq(Octet), NEW b \in Octet
  PROVE  /\ Plain(Append(s, b)) = Plain(s) \o Meaning(s, b)
         /\ Escaped(Append(s, b), Len(s) + 2) <=> b = FESC /\ ~Escaped(s, Len(s) + 1)
  <1> DEFINE t == Append(s, b)
             n == Len(s)
  <1>1. /\ t \in Seq(Octet) /\ Len(t) = n + 1 /\ n \in Nat /\ t[n + 1] = b
        /\ \A i \in 1..n: t[i] = s[i]
    BY AppendAt
  <1>2. /\ Indices(s) \in Seq(Nat) /\ Len(Indices(s)) = n /\ \A i \in 1..n: Indices(s)[i] = i
        /\ Indices(t) = Append(Indices(s), n + 1)
    BY IndicesMore
  <1>3. Plain(t) = Plains!Folded(t, <<>>, Indices(t)) /\ Plain(s) = Plains!Folded(s, <<>>, Indices(s))
    BY PlainIs
  <1> HIDE DEF t, n
  <1>4. ASSUME NEW i \in 1..(n + 1) PROVE Escaped(t, i) <=> Escaped(s, i)
    <2>1. i \in Nat /\ \A k \in 1..(i - 1): k \in 1..n
      BY <1>1
    <2>2. \A k \in 1..(i - 1): t[k] = s[k]
      BY <1>1, <2>1
    <2>3. QED
      BY <2>1, <2>2, EscapedSame
  <1>5. ASSUME NEW i \in 1..n PROVE StandsFor(t, i) = StandsFor(s, i)
    <2>1. i \in 1..(n + 1) /\ t[i] = s[i]
      BY <1>1
    <2>2. QED
      BY <1>4, <2>1 DEF StandsFor
  <1>6. Plains!Folded(t, <<>>, Indices(s)) = Plains!Folded(s, <<>>, Indices(s))
    <2>1. \A i \in 1..Len(Indices(s)): \A a:
             PlainStep(t, a, Indices(s)[i]) = PlainStep(s, a, Indices(s)[i])
      BY <1>2, <1>5 DEF PlainStep
    <2>2. QED
      BY <1>2, <2>1, Plains!FoldSame
  <1>7. Plains!Folded(t, <<>>, Append(Indices(s), n + 1)) =
           PlainStep(t, Plains!Folded(t, <<>>, Indices(s)), n + 1)
    BY <1>2, Plains!FoldAppend
  <1>8. StandsFor(t, n + 1) = Meaning(s, b)
    <2>1. n + 1 \in 1..(n + 1)
      BY <1>1
    <2>2. QED
      BY <1>1, <1>4, <2>1 DEF StandsFor, Meaning, n
  <1>9. Plain(t) = Plain(s) \o Meaning(s, b)
    BY <1>2, <1>3, <1>6, <1>7, <1>8 DEF PlainStep
  <1>10. Escaped(t, n + 2) <=> b = FESC /\ ~Escaped(s, n + 1)
    <2>1. n + 1 \in Nat /\ n + 1 >= 1 /\ n + 1 + 1 = n + 2 /\ n + 1 \in 1..(n + 1)
      BY <1>1
    <2>2. QED
      BY <1>1, <1>4, <2>1, EscapedNext
  <1>11. QED
    BY <1>9, <1>10 DEF t, n

LEMMA MaxIs ==
  ASSUME NEW n \in Nat, NEW T \in SUBSET (1..n), T # {}
  PROVE  Max(T) \in T /\ \A k \in T: k <= Max(T)
  <1>1. PICK m \in T: \A k \in T: k <= m
    BY Feeds!Greatest
  <1>2. \A k \in T: m >= k
    <2> SUFFICES ASSUME NEW k \in T PROVE m >= k
      OBVIOUS
    <2>1. k <= m /\ k \in Nat /\ m \in Nat
      BY <1>1
    <2>2. QED
      BY <2>1
  <1>3. Max(T) \in T /\ \A k \in T: Max(T) >= k
    BY <1>2 DEF Max
  <1>4. QED
    <2> SUFFICES ASSUME NEW k \in T PROVE k <= Max(T)
      BY <1>3
    <2>1. Max(T) \in 1..n /\ k \in 1..n
      BY <1>3
    <2>2. Max(T) >= k
      BY <1>3
    <2>3. QED
      BY <2>1, <2>2

\* One byte more: the FENDs before each of its bytes.
LEMMA FendsMore ==
  ASSUME NEW w \in Seq(Octet), NEW b \in Octet
  PROVE  /\ FendsIn(w) \in SUBSET (1..Len(w))
         /\ FendsBefore(Append(w, b), Len(w) + 1) = FendsIn(w)
         /\ \A i \in 1..Len(w): FendsBefore(Append(w, b), i) = FendsBefore(w, i)
         /\ b = FEND => FendsIn(Append(w, b)) = FendsIn(w) \cup {Len(w) + 1}
         /\ b # FEND => FendsIn(Append(w, b)) = FendsIn(w)
  <1> DEFINE t == Append(w, b)
             n == Len(w)
  <1>1. Len(t) = n + 1 /\ n \in Nat /\ t[n + 1] = b /\ \A i \in 1..n: t[i] = w[i]
    BY AppendAt
  <1>2. FendsIn(w) = {j \in 1..n: w[j] = FEND}
    BY <1>1 DEF FendsIn, FendsBefore
  <1>3. FendsIn(t) = {j \in 1..(n + 1): t[j] = FEND}
    BY <1>1 DEF FendsIn, FendsBefore
  <1> HIDE DEF t, n
  <1>4. \A i \in 1..(n + 1): FendsBefore(t, i) = FendsBefore(w, i)
    <2> SUFFICES ASSUME NEW i \in 1..(n + 1) PROVE FendsBefore(t, i) = FendsBefore(w, i)
      OBVIOUS
    <2>1. \A j \in 1..(i - 1): j \in 1..n
      BY <1>1
    <2>2. \A j \in 1..(i - 1): t[j] = w[j]
      BY <1>1, <2>1
    <2>3. QED
      BY <2>2 DEF FendsBefore
  <1>5. FendsBefore(w, n + 1) = FendsIn(w) /\ n + 1 \in 1..(n + 1)
    BY <1>1 DEF FendsIn, n
  <1>6. 1..(n + 1) = 1..n \cup {n + 1} /\ n + 1 \notin 1..n
    BY <1>1
  <1>7. \A j \in 1..n: (t[j] = FEND <=> w[j] = FEND)
    BY <1>1
  <1>8. b = FEND => FendsIn(t) = FendsIn(w) \cup {n + 1}
    BY <1>1, <1>2, <1>3, <1>6, <1>7
  <1>9. b # FEND => FendsIn(t) = FendsIn(w)
    BY <1>1, <1>2, <1>3, <1>6, <1>7
  <1>10. \A i \in 1..n: FendsBefore(t, i) = FendsBefore(w, i)
    BY <1>4, <1>6
  <1>11. QED
    BY <1>2, <1>4, <1>5, <1>8, <1>9, <1>10 DEF t, n

\* The frame that is being read goes on, or a new one begins.
LEMMA CurrentMore ==
  ASSUME NEW w \in Seq(Octet), NEW b \in Octet
  PROVE  /\ FendsIn(w) # {} => Current(w) \in Seq(Octet)
         /\ b = FEND => FendsIn(Append(w, b)) # {} /\ Current(Append(w, b)) = <<>>
         /\ b # FEND /\ FendsIn(w) # {} => Current(Append(w, b)) = Append(Current(w), b)
  <1> DEFINE t == Append(w, b)
             n == Len(w)
             m == Max(FendsIn(w))
  <1>1. t \in Seq(Octet) /\ Len(t) = n + 1 /\ n \in Nat /\ t[n + 1] = b /\ \A i \in 1..n: t[i] = w[i]
    BY AppendAt
  <1>2. FendsIn(w) # {} => m \in 1..n
    BY FendsMore, MaxIs, <1>1
  <1>3. FendsIn(w) # {} => Current(w) \in Seq(Octet)
    BY <1>2, SubSeqProperties DEF Current
  <1>4. CASE b = FEND
    <2>1. FendsIn(t) = FendsIn(w) \cup {n + 1} /\ FendsIn(w) \in SUBSET (1..n)
      BY <1>4, FendsMore
    <2>2. FendsIn(t) \in SUBSET (1..(n + 1)) /\ FendsIn(t) # {} /\ n + 1 \in Nat
      BY <1>1, <2>1
    <2>3. Max(FendsIn(t)) \in FendsIn(t) /\ n + 1 <= Max(FendsIn(t))
      BY <2>1, <2>2, MaxIs
    <2>4. Max(FendsIn(t)) = n + 1
      BY <1>1, <2>2, <2>3
    <2>5. SubSeq(t, n + 2, n + 1) = <<>>
      BY <1>1
    <2>6. Current(t) = <<>>
      BY <1>1, <2>4, <2>5 DEF Current
    <2>7. QED
      BY <1>3, <1>4, <2>2, <2>6 DEF t
  <1>5. CASE b # FEND
    <2> SUFFICES ASSUME FendsIn(w) # {} PROVE Current(t) = Append(Current(w), b)
      BY <1>3, <1>5
    <2>1. FendsIn(t) = FendsIn(w)
      BY <1>5, FendsMore
    <2>2. m \in 1..n
      BY <1>2
    <2> HIDE DEF m, t, n
    <2>3. SubSeq(t, m + 1, n + 1) = Append(SubSeq(w, m + 1, n), b)
      <3>1. w \in Seq(Octet) /\ n = Len(w)
        BY DEF n
      <3>2. /\ SubSeq(t, m + 1, n + 1) \in Seq(Octet) /\ Len(SubSeq(t, m + 1, n + 1)) = n + 1 - m
            /\ \A i \in 1..(n + 1 - m): SubSeq(t, m + 1, n + 1)[i] = t[m + i]
        <4>1. \A i \in 1..(n + 1 - m): m + 1 + i - 1 = m + i
          BY <1>1, <2>2
        <4>2. QED
          BY <1>1, <2>2, <4>1, SubSeqProperties
      <3>3. /\ SubSeq(w, m + 1, n) \in Seq(Octet) /\ Len(SubSeq(w, m + 1, n)) = n - m
            /\ \A i \in 1..(n - m): SubSeq(w, m + 1, n)[i] = w[m + i]
        <4>1. \A i \in 1..(n - m): m + 1 + i - 1 = m + i
          BY <1>1, <2>2
        <4>2. QED
          BY <1>1, <2>2, <3>1, <4>1, SubSeqProperties
      <3> DEFINE p == SubSeq(t, m + 1, n + 1)
                 q == SubSeq(w, m + 1, n)
      <3> HIDE DEF p, q
      <3>4. /\ Append(q, b) \in Seq(Octet) /\ Len(Append(q, b)) = n + 1 - m
            /\ Append(q, b)[n + 1 - m] = b /\ \A i \in 1..(n - m): Append(q, b)[i] = q[i]
        <4>1. q \in Seq(Octet) /\ Len(q) = n - m /\ n - m + 1 = n + 1 - m
          BY <1>1, <2>2, <3>3 DEF q
        <4>2. QED
          BY <4>1, AppendAt
      <3>5. ASSUME NEW i \in 1..(n + 1 - m) PROVE p[i] = Append(q, b)[i]
        <4>1. CASE i = n + 1 - m
          <5>1. m + i = n + 1
            BY <1>1, <2>2, <4>1
          <5>2. QED
            BY <1>1, <3>2, <3>4, <4>1, <5>1 DEF p
        <4>2. CASE i # n + 1 - m
          <5>1. i \in 1..(n - m) /\ m + i \in 1..n
            BY <1>1, <2>2, <4>2
          <5>2. QED
            BY <1>1, <3>2, <3>3, <3>4, <5>1 DEF p, q
        <4>3. QED
          BY <4>1, <4>2
      <3>6. p = Append(q, b)
        BY <3>2, <3>4, <3>5, SeqEqual DEF p
      <3>7. QED
        BY <3>6 DEF p, q
    <2>4. QED
      BY <1>1, <2>1, <2>3 DEF Current, m, n
  <1>6. QED
    BY <1>4, <1>5

LEMMA FramedNone == Framed(<<>>) = <<>>
  <1>1. Indices(<<>>) = <<>>
    BY DEF Indices
  <1>2. QED
    BY <1>1, FramedIs, Frames!FoldEmpty

\* One byte more on the wire: a FEND ends the frame that is being read.
LEMMA FramedMore ==
  ASSUME NEW w \in Seq(Octet), NEW b \in Octet
  PROVE  Framed(Append(w, b)) =
            Framed(w) \o (IF b = FEND /\ FendsIn(w) # {} THEN Finish(Plain(Current(w))) ELSE <<>>)
  <1> DEFINE t == Append(w, b)
             n == Len(w)
  <1>1. t \in Seq(Octet) /\ Len(t) = n + 1 /\ n \in Nat /\ t[n + 1] = b /\ \A i \in 1..n: t[i] = w[i]
    BY AppendAt
  <1>2. /\ Indices(w) \in Seq(Nat) /\ Len(Indices(w)) = n /\ \A i \in 1..n: Indices(w)[i] = i
        /\ Indices(t) = Append(Indices(w), n + 1)
    BY IndicesMore
  <1>3. Framed(t) = Frames!Folded(t, <<>>, Indices(t)) /\ Framed(w) = Frames!Folded(w, <<>>, Indices(w))
    BY FramedIs
  <1>4. /\ FendsBefore(t, n + 1) = FendsIn(w) /\ FendsIn(w) \in SUBSET (1..n)
        /\ \A i \in 1..n: FendsBefore(t, i) = FendsBefore(w, i)
        /\ \A i \in 1..n: FendsBefore(w, i) \in SUBSET (1..(i - 1))
    BY FendsMore DEF FendsBefore
  <1>5. w \in Seq(Octet) /\ n = Len(w)
    OBVIOUS
  <1> HIDE DEF t, n
  <1>6. ASSUME NEW m \in Nat, NEW i \in 1..(n + 1)
        PROVE  SubSeq(t, m + 1, i - 1) = SubSeq(w, m + 1, i - 1)
    <2>1. \A k \in (m + 1)..(i - 1): t[k] = w[k]
      BY <1>1
    <2>2. QED
      BY <1>1, <1>5, <2>1
  <1>7. ASSUME NEW i \in 1..(n + 1), FendsBefore(t, i) # {}, FendsBefore(w, i) = FendsBefore(t, i)
        PROVE  SubSeq(t, Max(FendsBefore(t, i)) + 1, i - 1) = SubSeq(w, Max(FendsBefore(w, i)) + 1, i - 1)
    <2>1. FendsBefore(t, i) \in SUBSET (1..(i - 1)) /\ i - 1 \in Nat
      BY DEF FendsBefore
    <2>2. Max(FendsBefore(t, i)) \in FendsBefore(t, i)
      BY <1>7, <2>1, MaxIs
    <2>3. Max(FendsBefore(t, i)) \in Nat
      BY <2>1, <2>2
    <2>4. QED
      BY <1>6, <1>7, <2>3
  <1>8. ASSUME NEW i \in 1..n PROVE FrameAt(t, i) = FrameAt(w, i)
    <2>1. i \in 1..(n + 1) /\ t[i] = w[i] /\ FendsBefore(t, i) = FendsBefore(w, i)
      BY <1>1, <1>4
    <2>2. QED
      BY <1>7, <2>1 DEF FrameAt
  <1>9. FrameAt(t, n + 1) = IF b = FEND /\ FendsIn(w) # {} THEN Finish(Plain(Current(w))) ELSE <<>>
    <2> DEFINE i == n + 1
    <2>1. i \in 1..(n + 1) /\ i - 1 = n /\ t[i] = b /\ i \in Nat
      BY <1>1
    <2>2. FendsBefore(w, i) = FendsIn(w) /\ FendsBefore(t, i) = FendsIn(w)
      BY <1>4 DEF FendsIn, n
    <2> HIDE DEF i
    <2>3. CASE b = FEND /\ FendsIn(w) # {}
      <3>1. SubSeq(t, Max(FendsBefore(t, i)) + 1, i - 1) = SubSeq(w, Max(FendsBefore(w, i)) + 1, i - 1)
        BY <1>7, <2>1, <2>2, <2>3
      <3>2. SubSeq(t, Max(FendsBefore(t, i)) + 1, i - 1) = Current(w)
        BY <2>1, <2>2, <3>1 DEF Current, n
      <3>3. FrameAt(t, i) = Finish(Plain(SubSeq(t, Max(FendsBefore(t, i)) + 1, i - 1)))
        BY <2>1, <2>2, <2>3 DEF FrameAt
      <3>4. QED
        BY <2>3, <3>2, <3>3 DEF i
    <2>4. CASE ~(b = FEND /\ FendsIn(w) # {})
      <3>1. FrameAt(t, i) = <<>>
        BY <2>1, <2>2, <2>4 DEF FrameAt
      <3>2. QED
        BY <2>4, <3>1 DEF i
    <2>5. QED
      BY <2>3, <2>4
  <1>10. Frames!Folded(t, <<>>, Indices(w)) = Frames!Folded(w, <<>>, Indices(w))
    <2>1. \A i \in 1..Len(Indices(w)): \A a:
             FrameStep(t, a, Indices(w)[i]) = FrameStep(w, a, Indices(w)[i])
      BY <1>2, <1>8 DEF FrameStep
    <2>2. QED
      BY <1>2, <2>1, Frames!FoldSame
  <1>11. Frames!Folded(t, <<>>, Append(Indices(w), n + 1)) =
           FrameStep(t, Frames!Folded(t, <<>>, Indices(w)), n + 1)
    BY <1>2, Frames!FoldAppend
  <1>12. QED
    BY <1>2, <1>3, <1>9, <1>10, <1>11 DEF FrameStep, t

-----------------------------------------------------------------------------
\* Kiss: the decoder's step, and what a chunk does

After(d, b) ==
    IF b = FEND THEN [buf |-> <<>>, inFrame |-> TRUE, escape |-> FALSE]
    ELSE IF ~d.inFrame THEN d
    ELSE IF d.escape THEN [buf |-> d.buf \o Unescape(b), inFrame |-> TRUE, escape |-> FALSE]
    ELSE IF b = FESC THEN [buf |-> d.buf, inFrame |-> TRUE, escape |-> TRUE]
    ELSE [buf |-> Append(d.buf, b), inFrame |-> TRUE, escape |-> FALSE]

Out(d, b) == IF b = FEND /\ d.inFrame THEN Finish(d.buf) ELSE <<>>

LEMMA Octets == FEND \in Octet /\ FESC \in Octet /\ TFEND \in Octet /\ TFESC \in Octet /\ 0 \in Octet
                /\ FEND # FESC /\ TFEND # FEND /\ TFESC # FEND /\ TFEND # TFESC
                /\ 0 # FEND /\ 0 # FESC
  BY DEF Octet, FEND, FESC, TFEND, TFESC

LEMMA FinishType ==
  ASSUME NEW buf \in Seq(Octet)
  PROVE  Finish(buf) \in Seq(Frame) /\ Len(Finish(buf)) \in 0..1
  <1>1. CASE buf # <<>> /\ buf[1] % 16 = 0
    <2>1. buf[1] \in Octet /\ Tail(buf) \in Seq(Octet)
      BY <1>1
    <2>2. buf[1] \div 16 \in Nat
      <3>1. \A x \in 0..255: x \div 16 \in Nat
        OBVIOUS
      <3>2. QED
        BY <2>1, <3>1 DEF Octet
    <2> DEFINE f == [port |-> buf[1] \div 16, data |-> Tail(buf)]
    <2>3. f \in Frame
      BY <2>1, <2>2 DEF Frame
    <2>4. Finish(buf) = <<f>>
      BY <1>1 DEF Finish
    <2> HIDE DEF f
    <2>5. QED
      BY <2>3, <2>4
  <1>2. CASE ~(buf # <<>> /\ buf[1] % 16 = 0)
    <2>1. Finish(buf) = <<>>
      BY <1>2 DEF Finish
    <2>2. QED
      BY <2>1
  <1>3. QED
    BY <1>1, <1>2

LEMMA UnescapeType == ASSUME NEW b PROVE Unescape(b) \in Seq(Octet)
  <1>1. <<FEND>> \in Seq(Octet) /\ <<FESC>> \in Seq(Octet) /\ <<>> \in Seq(Octet)
    BY Octets
  <1>2. QED
    BY <1>1 DEF Unescape

LEMMA StepType ==
  ASSUME NEW d \in DecoderState, NEW b \in Octet
  PROVE  After(d, b) \in DecoderState /\ Out(d, b) \in Seq(Frame) /\ Len(Out(d, b)) \in 0..1
  <1>1. d.buf \in Seq(Octet) /\ d.inFrame \in BOOLEAN /\ d.escape \in BOOLEAN
    BY DEF DecoderState
  <1>2. /\ <<>> \in Seq(Octet) /\ Append(d.buf, b) \in Seq(Octet)
        /\ d.buf \o Unescape(b) \in Seq(Octet)
    BY <1>1, UnescapeType, ConcatProperties
  <1>3. After(d, b) \in DecoderState
    BY <1>1, <1>2 DEF After, DecoderState
  <1>4. <<>> \in Seq(Frame) /\ Len(<<>>) \in 0..1
    OBVIOUS
  <1>5. QED
    BY <1>1, <1>3, <1>4, FinishType DEF Out

\* Byte, by its two results.
LEMMA ByteIs ==
  ASSUME NEW d \in DecoderState, NEW f \in Seq(Frame), NEW b \in Octet
  PROVE  Byte([decoder |-> d, frames |-> f], b) = [decoder |-> After(d, b), frames |-> f \o Out(d, b)]
  <1> DEFINE acc == [decoder |-> d, frames |-> f]
  <1>1. acc.decoder = d /\ acc.frames = f /\ f \o <<>> = f
    OBVIOUS
  <1>2. \A next: [acc EXCEPT !.decoder = next] = [decoder |-> next, frames |-> f]
    OBVIOUS
  <1>3. /\ d = [buf |-> d.buf, inFrame |-> d.inFrame, escape |-> d.escape]
        /\ d.inFrame \in BOOLEAN /\ d.escape \in BOOLEAN
    BY DEF DecoderState
  <1>4. /\ [d EXCEPT !.escape = TRUE] = [buf |-> d.buf, inFrame |-> d.inFrame, escape |-> TRUE]
        /\ [d EXCEPT !.buf = Append(@, b)]
              = [buf |-> Append(d.buf, b), inFrame |-> d.inFrame, escape |-> d.escape]
    <2>1. \A e: [d EXCEPT !.escape = e] = [buf |-> d.buf, inFrame |-> d.inFrame, escape |-> e]
      BY DEF DecoderState
    <2>2. \A x: [d EXCEPT !.buf = x] = [buf |-> x, inFrame |-> d.inFrame, escape |-> d.escape]
      BY DEF DecoderState
    <2>3. QED
      BY <2>1, <2>2
  <1>5. AtFend(d) = [buf |-> <<>>, inFrame |-> TRUE, escape |-> FALSE]
    <2>1. \A e, i: [[buf |-> <<>>, inFrame |-> e, escape |-> e] EXCEPT !.inFrame = i]
                      = [buf |-> <<>>, inFrame |-> i, escape |-> e]
      OBVIOUS
    <2>2. QED
      BY <2>1 DEF AtFend, NewDecoder
  <1> HIDE DEF acc
  <1>6. CASE b = FEND
    <2>1. Byte(acc, b) = [decoder |-> AtFend(d), frames |-> f \o (IF d.inFrame THEN Finish(d.buf) ELSE <<>>)]
      BY <1>1, <1>6, Octets DEF Byte
    <2>2. QED
      BY <1>5, <1>6, <2>1 DEF After, Out, acc
  <1>7. CASE b # FEND /\ ~d.inFrame
    <2>1. Byte(acc, b) = acc
      BY <1>1, <1>7 DEF Byte
    <2>2. QED
      BY <1>1, <1>7, <2>1 DEF After, Out, acc
  <1>8. CASE b # FEND /\ d.inFrame /\ d.escape
    <2>1. Byte(acc, b) = [acc EXCEPT !.decoder =
                             [buf |-> d.buf \o Unescape(b), inFrame |-> TRUE, escape |-> FALSE]]
      BY <1>1, <1>8 DEF Byte
    <2>2. After(d, b) = [buf |-> d.buf \o Unescape(b), inFrame |-> TRUE, escape |-> FALSE]
      BY <1>8 DEF After
    <2>3. Out(d, b) = <<>> /\ d.inFrame = TRUE
      BY <1>3, <1>8 DEF Out
    <2>4. QED
      BY <1>1, <1>2, <1>4, <2>1, <2>2, <2>3 DEF acc
  <1>9. CASE b # FEND /\ d.inFrame /\ ~d.escape /\ b = FESC
    <2>1. Byte(acc, b) = [acc EXCEPT !.decoder = [d EXCEPT !.escape = TRUE]]
      BY <1>1, <1>9, Octets DEF Byte
    <2>2. After(d, b) = [buf |-> d.buf, inFrame |-> TRUE, escape |-> TRUE]
      BY <1>9 DEF After
    <2>3. Out(d, b) = <<>> /\ d.inFrame = TRUE
      BY <1>3, <1>9 DEF Out
    <2>4. QED
      BY <1>1, <1>2, <1>4, <2>1, <2>2, <2>3 DEF acc
  <1>10. CASE b # FEND /\ d.inFrame /\ ~d.escape /\ b # FESC
    <2>1. Byte(acc, b) = [acc EXCEPT !.decoder = [d EXCEPT !.buf = Append(@, b)]]
      BY <1>1, <1>10 DEF Byte
    <2>2. After(d, b) = [buf |-> Append(d.buf, b), inFrame |-> TRUE, escape |-> FALSE]
      BY <1>10 DEF After
    <2>3. Out(d, b) = <<>> /\ d.inFrame = TRUE /\ d.escape = FALSE
      BY <1>3, <1>10 DEF Out
    <2>4. QED
      BY <1>1, <1>2, <1>4, <2>1, <2>2, <2>3 DEF acc
  <1>11. QED
    BY <1>6, <1>7, <1>8, <1>9, <1>10

\* The decoder goes with the definitions, byte by byte.
LEMMA StepDecodes ==
  ASSUME NEW w, NEW d, NEW f, Decodes(w, d, f), NEW b \in Octet
  PROVE  Decodes(Append(w, b), After(d, b), f \o Out(d, b))
  <1> DEFINE t == Append(w, b)
  <1>1. /\ w \in Seq(Octet) /\ d \in DecoderState /\ f \in Seq(Frame) /\ f = Framed(w)
        /\ d.inFrame <=> FendsIn(w) # {}
        /\ ~d.inFrame => d = NewDecoder
        /\ d.inFrame => /\ d.buf = Plain(Current(w))
                        /\ d.escape <=> Escaped(Current(w), Len(Current(w)) + 1)
    BY DEF Decodes
  <1>2. /\ t \in Seq(Octet) /\ After(d, b) \in DecoderState /\ f \o Out(d, b) \in Seq(Frame)
    BY <1>1, StepType, ConcatProperties
  <1>3. Framed(t) = f \o (IF b = FEND /\ FendsIn(w) # {} THEN Finish(Plain(Current(w))) ELSE <<>>)
    BY <1>1, FramedMore
  <1>4. f \o Out(d, b) = Framed(t)
    BY <1>1, <1>3 DEF Out
  <1>5. /\ FendsIn(w) # {} => Current(w) \in Seq(Octet)
        /\ b = FEND => FendsIn(t) # {} /\ Current(t) = <<>>
        /\ b # FEND /\ FendsIn(w) # {} => Current(t) = Append(Current(w), b)
        /\ b # FEND => FendsIn(t) = FendsIn(w)
    BY <1>1, CurrentMore, FendsMore
  <1> HIDE DEF t
  <1>6. CASE b = FEND
    <2>1. After(d, b) = [buf |-> <<>>, inFrame |-> TRUE, escape |-> FALSE]
      BY <1>6 DEF After
    <2>2. Plain(Current(t)) = <<>> /\ ~Escaped(Current(t), Len(Current(t)) + 1)
      <3>1. Len(Current(t)) + 1 = 1
        BY <1>5, <1>6
      <3>2. QED
        BY <1>5, <1>6, <3>1, PlainNone
    <2>3. QED
      BY <1>2, <1>4, <1>5, <1>6, <2>1, <2>2 DEF Decodes, t
  <1>7. CASE b # FEND /\ ~d.inFrame
    <2>1. After(d, b) = d
      BY <1>7 DEF After
    <2>2. QED
      BY <1>1, <1>2, <1>4, <1>5, <1>7, <2>1 DEF Decodes, t
  <1>8. CASE b # FEND /\ d.inFrame
    <2> DEFINE s == Current(w)
               a == After(d, b)
    <2>1. /\ s \in Seq(Octet) /\ Current(t) = Append(s, b) /\ FendsIn(t) # {}
          /\ d.buf = Plain(s) /\ (d.escape <=> Escaped(s, Len(s) + 1))
      BY <1>1, <1>5, <1>8
    <2>2. d.buf \in Seq(Octet) /\ d.buf \o <<>> = d.buf /\ d.buf \o <<b>> = Append(d.buf, b)
      <3>1. d.buf \in Seq(Octet)
        BY <1>1 DEF DecoderState
      <3>2. QED
        BY <3>1
    <2>3. a.inFrame = TRUE /\ a.buf = d.buf \o Meaning(s, b)
          /\ (a.escape <=> b = FESC /\ ~Escaped(s, Len(s) + 1))
      BY <1>8, <2>1, <2>2 DEF After, Meaning
    <2> HIDE DEF s, a
    <2>4. Plain(Append(s, b)) = Plain(s) \o Meaning(s, b)
      BY <2>1, PlainMore
    <2>5. Escaped(Append(s, b), Len(Append(s, b)) + 1) <=> b = FESC /\ ~Escaped(s, Len(s) + 1)
      <3>1. Len(Append(s, b)) + 1 = Len(s) + 2
        BY <2>1
      <3>2. QED
        BY <2>1, <3>1, PlainMore
    <2>6. a.buf = Plain(Current(t)) /\ (a.escape <=> Escaped(Current(t), Len(Current(t)) + 1))
      BY <2>1, <2>3, <2>4, <2>5
    <2>7. QED
      BY <1>2, <1>4, <2>1, <2>3, <2>6 DEF Decodes, t, a
  <1>9. QED
    BY <1>6, <1>7, <1>8

\* The bytes s take the decoder from d to e, and put the frames f out.
Fed(d, s, e, f) ==
    /\ s \in Seq(Octet) /\ e \in DecoderState /\ f \in Seq(Frame)
    /\ Feed(d, s) = [decoder |-> e, frames |-> f]

LEMMA FedMore ==
  ASSUME NEW d, NEW s, NEW e, NEW f, Fed(d, s, e, f), NEW b \in Octet
  PROVE  Fed(d, Append(s, b), After(e, b), f \o Out(e, b))
  <1> DEFINE none == [decoder |-> d, frames |-> <<>>]
  <1>1. \A c: Feed(d, c) = Feeds!Folded(0, none, c)
    BY FeedIs
  <1> HIDE DEF none
  <1>2. s \in Seq(Octet) /\ e \in DecoderState /\ f \in Seq(Frame)
    BY DEF Fed
  <1>3. Feeds!Folded(0, none, Append(s, b)) = ByteStep(0, Feeds!Folded(0, none, s), b)
    BY <1>2, Feeds!FoldAppend
  <1>4. Feed(d, Append(s, b)) = Byte([decoder |-> e, frames |-> f], b)
    BY <1>1, <1>3 DEF ByteStep, Fed
  <1>5. Feed(d, Append(s, b)) = [decoder |-> After(e, b), frames |-> f \o Out(e, b)]
    BY <1>2, <1>4, ByteIs
  <1>6. Append(s, b) \in Seq(Octet) /\ After(e, b) \in DecoderState /\ f \o Out(e, b) \in Seq(Frame)
    BY <1>2, StepType, ConcatProperties
  <1>7. QED
    BY <1>5, <1>6 DEF Fed

LEMMA FedNone == ASSUME NEW d \in DecoderState PROVE Fed(d, <<>>, d, <<>>)
  <1>1. Feed(d, <<>>) = [decoder |-> d, frames |-> <<>>]
    BY FeedIs, Feeds!FoldEmpty
  <1>2. <<>> \in Seq(Octet) /\ <<>> \in Seq(Frame)
    OBVIOUS
  <1>3. QED
    BY <1>1, <1>2 DEF Fed

LEMMA ConcatMore ==
  ASSUME NEW X, NEW s \in Seq(X), NEW t \in Seq(X), NEW b \in X
  PROVE  s \o Append(t, b) = Append(s \o t, b)
  OBVIOUS

\* A chunk of any length keeps what one byte does.
LEMMA FedDecodes ==
  ASSUME NEW w, NEW d, NEW f, Decodes(w, d, f), NEW chunk \in Seq(Octet)
  PROVE  \E e, g: Fed(d, chunk, e, g) /\ Decodes(w \o chunk, e, f \o g)
  <1> DEFINE T == {s \in Seq(Octet): \E e, g: Fed(d, s, e, g) /\ Decodes(w \o s, e, f \o g)}
  <1>1. w \in Seq(Octet) /\ d \in DecoderState /\ f \in Seq(Frame)
    BY DEF Decodes
  <1>2. <<>> \in T
    <2>1. w \o <<>> = w /\ f \o <<>> = f
      BY <1>1
    <2>2. Fed(d, <<>>, d, <<>>) /\ Decodes(w \o <<>>, d, f \o <<>>)
      BY <1>1, <2>1, FedNone
    <2>3. \E e, g: Fed(d, <<>>, e, g) /\ Decodes(w \o <<>>, e, f \o g)
      BY <2>2
    <2>4. QED
      BY <2>3
  <1>3. ASSUME NEW s \in T, NEW b \in Octet PROVE Append(s, b) \in T
    <2>1. PICK e, g: Fed(d, s, e, g) /\ Decodes(w \o s, e, f \o g)
      OBVIOUS
    <2>2. s \in Seq(Octet) /\ e \in DecoderState /\ g \in Seq(Frame) /\ Append(s, b) \in Seq(Octet)
      BY <2>1 DEF Fed
    <2>3. Out(e, b) \in Seq(Frame)
      BY <2>2, StepType
    <2>4. (f \o g) \o Out(e, b) = f \o (g \o Out(e, b))
      <3>1. ASSUME NEW o \in Seq(Frame) PROVE (f \o g) \o o = f \o (g \o o)
        BY SMTT(30), <1>1, <2>2, ConcatAssociative
      <3>2. QED
        BY <2>3, <3>1
    <2>5. w \o Append(s, b) = Append(w \o s, b)
      BY <1>1, <2>2, ConcatMore
    <2>6. Fed(d, Append(s, b), After(e, b), g \o Out(e, b))
      BY <2>1, FedMore
    <2>7. Decodes(Append(w \o s, b), After(e, b), (f \o g) \o Out(e, b))
      BY <2>1, StepDecodes
    <2>8. Decodes(w \o Append(s, b), After(e, b), f \o (g \o Out(e, b)))
      BY <2>4, <2>5, <2>7
    <2>9. QED
      BY <2>2, <2>6, <2>8
  <1> HIDE DEF T
  <1>4. T = Seq(Octet)
    <2>1. T \in SUBSET Seq(Octet)
      BY DEF T
    <2>2. QED
      BY <1>2, <1>3, <2>1, Feeds!SeqInduction
  <1>5. QED
    BY <1>4 DEF T

-----------------------------------------------------------------------------
\* Kiss: the invariant

LEMMA DecodesNone == Decodes(<<>>, NewDecoder, <<>>)
  <1>1. FendsIn(<<>>) = {}
    BY DEF FendsIn, FendsBefore
  <1>2. NewDecoder \in DecoderState /\ NewDecoder.inFrame = FALSE
    BY DEF NewDecoder, DecoderState
  <1>3. <<>> \in Seq(Octet) /\ <<>> \in Seq(Frame)
    OBVIOUS
  <1>4. QED
    BY <1>1, <1>2, <1>3, FramedNone DEF Decodes

LEMMA KissNextInv == ASSUME KissConstants, KissInv, [KissNext]_kissVars PROVE KissInv'
  <1>1. CASE UNCHANGED kissVars
    BY <1>1 DEF kissVars, KissInv
  <1>2. CASE Reconnect
    BY <1>2, DecodesNone DEF Reconnect, KissInv
  <1>3. ASSUME NEW chunk \in Chunk, Receive(chunk) PROVE KissInv'
    <2>1. chunk \in Seq(Octet)
      <3>1. PICK n \in 1..MaxChunk: chunk \in [1..n -> Bytes]
        BY DEF Chunk
      <3>2. Bytes \subseteq Octet /\ n \in Nat
        BY DEF KissConstants, Octet
      <3>3. QED
        BY <3>1, <3>2
    <2>2. Decodes(wire, decoder, frames)
      BY DEF KissInv
    <2>3. PICK e, g: Fed(decoder, chunk, e, g) /\ Decodes(wire \o chunk, e, frames \o g)
      BY <2>1, <2>2, FedDecodes
    <2>4. wire' = wire \o chunk /\ decoder' = e /\ frames' = frames \o g
      BY <1>3, <2>3 DEF Receive, Fed
    <2>5. QED
      BY <2>3, <2>4 DEF KissInv
  <1>4. QED
    BY <1>1, <1>2, <1>3 DEF KissNext

LEMMA KissInvariance == ASSUME KissConstants PROVE KissSpec => []KissInv
  <1>1. KissInit => KissInv
    BY DecodesNone DEF KissInit, KissInv
  <1>2. KissInv /\ [KissNext]_kissVars => KissInv'
    BY KissNextInv
  <1>3. QED
    BY <1>1, <1>2, PTL DEF KissSpec

-----------------------------------------------------------------------------
\* Kiss: what encode_frame writes comes out, whatever the decoder has read before

Payload(p) == [buf |-> <<0>> \o p, inFrame |-> TRUE, escape |-> FALSE]

\* A FEND hands the payload on.
LEMMA PayloadType ==
  ASSUME NEW p \in Seq(Octet)
  PROVE  Payload(p) \in DecoderState /\ Out(Payload(p), FEND) = <<[port |-> 0, data |-> p]>>
  <1> DEFINE q == <<0>> \o p
  <1>1. q \in Seq(Octet) /\ q # <<>> /\ q[1] = 0 /\ Tail(q) = p
    <2>1. <<0>> \in Seq(Octet) /\ Len(<<0>>) = 1 /\ <<0>>[1] = 0
      BY Octets
    <2>2. q \in Seq(Octet) /\ Len(q) = Len(p) + 1 /\ q[1] = 0 /\ \A i \in 1..Len(p): q[i + 1] = p[i]
      <3>1. /\ q \in Seq(Octet) /\ Len(q) = 1 + Len(p)
            /\ \A i \in 1..(1 + Len(p)): q[i] = IF i <= 1 THEN <<0>>[i] ELSE p[i - 1]
        BY <2>1, ConcatProperties
      <3>2. \A i \in 1..Len(p): i + 1 \in 1..(1 + Len(p)) /\ ~(i + 1 <= 1) /\ i + 1 - 1 = i
        OBVIOUS
      <3>3. 1 \in 1..(1 + Len(p))
        OBVIOUS
      <3>4. q[1] = 0
        BY <2>1, <3>1, <3>3
      <3>5. QED
        BY <3>1, <3>2, <3>4
    <2> HIDE DEF q
    <2>3. q # <<>>
      BY <2>2
    <2>4. Tail(q) \in Seq(Octet) /\ Len(Tail(q)) = Len(p) /\ \A i \in 1..Len(p): Tail(q)[i] = q[i + 1]
      BY <2>2, <2>3
    <2>5. Tail(q) = p
      BY <2>2, <2>4, SeqEqual
    <2>6. QED
      BY <2>2, <2>3, <2>5
  <1> HIDE DEF q
  <1>2. 0 % 16 = 0 /\ 0 \div 16 = 0
    OBVIOUS
  <1>3. Finish(q) = <<[port |-> 0, data |-> p]>>
    BY <1>1, <1>2 DEF Finish
  <1>4. Payload(p) = [buf |-> q, inFrame |-> TRUE, escape |-> FALSE]
    BY DEF Payload, q
  <1>5. QED
    BY <1>1, <1>3, <1>4 DEF DecoderState, Out

\* And behind the escape byte.
PayloadCut(p) == [buf |-> <<0>> \o p, inFrame |-> TRUE, escape |-> TRUE]

\* A byte of the payload, escaped or not, is added to it.
LEMMA PayloadByte ==
  ASSUME NEW p \in Seq(Octet), NEW b \in Octet
  PROVE  /\ b \notin {FEND, FESC} => After(Payload(p), b) = Payload(Append(p, b))
         /\ After(Payload(p), FESC) = PayloadCut(p)
         /\ After(PayloadCut(p), TFEND) = Payload(Append(p, FEND))
         /\ After(PayloadCut(p), TFESC) = Payload(Append(p, FESC))
         /\ PayloadCut(p) \in DecoderState
  <1> DEFINE q == <<0>> \o p
  <1>1. /\ q \in Seq(Octet) /\ <<0>> \in Seq(Octet)
        /\ \A x \in Octet: Append(q, x) = <<0>> \o Append(p, x) /\ q \o <<x>> = Append(q, x)
    <2>1. <<0>> \in Seq(Octet)
      BY Octets
    <2>2. q \in Seq(Octet)
      BY <2>1, ConcatProperties
    <2>3. \A x \in Octet: Append(q, x) = <<0>> \o Append(p, x)
      BY <2>1, ConcatMore
    <2> HIDE DEF q
    <2>4. \A x \in Octet: q \o <<x>> = Append(q, x)
      BY <2>2
    <2>5. QED
      BY <2>1, <2>2, <2>3, <2>4
  <1>2. /\ Payload(p) = [buf |-> q, inFrame |-> TRUE, escape |-> FALSE]
        /\ PayloadCut(p) = [buf |-> q, inFrame |-> TRUE, escape |-> TRUE]
        /\ \A x \in Octet: Payload(Append(p, x)) = [buf |-> Append(q, x), inFrame |-> TRUE, escape |-> FALSE]
    BY <1>1 DEF Payload, PayloadCut
  <1> HIDE DEF q
  <1>3. b \notin {FEND, FESC} => After(Payload(p), b) = Payload(Append(p, b))
    BY <1>2 DEF After
  <1>4. After(Payload(p), FESC) = PayloadCut(p)
    BY <1>2, Octets DEF After
  <1>5. ASSUME NEW c \in {TFEND, TFESC}, NEW x \in Octet, Unescape(c) = <<x>>
        PROVE  After(PayloadCut(p), c) = Payload(Append(p, x))
    <2>1. c # FEND
      BY Octets
    <2>2. After(PayloadCut(p), c) = [buf |-> q \o <<x>>, inFrame |-> TRUE, escape |-> FALSE]
      BY <1>2, <1>5, <2>1 DEF After
    <2>3. QED
      BY <1>1, <1>2, <2>2
  <1>6. Unescape(TFEND) = <<FEND>> /\ Unescape(TFESC) = <<FESC>>
    BY Octets DEF Unescape
  <1>7. PayloadCut(p) \in DecoderState
    BY <1>1, <1>2 DEF DecoderState
  <1>8. QED
    BY <1>3, <1>4, <1>5, <1>6, <1>7, Octets

\* The bytes s have made the decoder d hand on its own frame, if it had one, and read p since.
Holds(d, s, p) == p \in Seq(Octet) /\ Fed(d, s, Payload(p), Out(d, FEND))

\* A byte in the middle of the frame puts nothing out.
LEMMA FedInside ==
  ASSUME NEW d \in DecoderState, NEW s, NEW e, Fed(d, s, e, Out(d, FEND)), NEW b \in Octet, b # FEND
  PROVE  Fed(d, Append(s, b), After(e, b), Out(d, FEND))
  <1>1. Out(d, FEND) \in Seq(Frame)
    BY StepType, Octets
  <1>2. Out(e, b) = <<>> /\ Out(d, FEND) \o <<>> = Out(d, FEND)
    BY <1>1 DEF Out
  <1>3. Fed(d, Append(s, b), After(e, b), Out(d, FEND) \o Out(e, b))
    BY FedMore
  <1>4. QED
    BY <1>2, <1>3

\* What encode_frame puts for a byte of the payload makes the decoder read that byte.
LEMMA HeldMore ==
  ASSUME NEW d \in DecoderState, NEW s, NEW p, Holds(d, s, p), NEW b \in Octet
  PROVE  Holds(d, Put(s, b), Append(p, b))
  <1>1. /\ s \in Seq(Octet) /\ p \in Seq(Octet) /\ Append(p, b) \in Seq(Octet)
        /\ Fed(d, s, Payload(p), Out(d, FEND))
    BY DEF Holds, Fed
  <1>2. ASSUME NEW c \in {TFEND, TFESC}, After(PayloadCut(p), c) = Payload(Append(p, b)),
               Escape(b) = <<FESC, c>>
        PROVE  Holds(d, Put(s, b), Append(p, b))
    <2>1. c \in Octet /\ c # FEND /\ FESC # FEND /\ FESC \in Octet
      BY Octets
    <2>2. After(Payload(p), FESC) = PayloadCut(p)
      BY <1>1, PayloadByte
    <2>3. Fed(d, Append(s, FESC), PayloadCut(p), Out(d, FEND))
      BY <1>1, <2>1, <2>2, FedInside
    <2>4. Fed(d, Append(Append(s, FESC), c), Payload(Append(p, b)), Out(d, FEND))
      BY <1>2, <2>1, <2>3, FedInside
    <2>5. Put(s, b) = Append(Append(s, FESC), c)
      <3>1. \A x \in Octet, y \in Octet: s \o <<x, y>> = Append(Append(s, x), y)
        BY <1>1
      <3>2. QED
        BY <1>2, <2>1, <3>1 DEF Put
    <2>6. QED
      BY <1>1, <2>4, <2>5 DEF Holds
  <1>3. CASE b = FEND
    BY <1>1, <1>2, <1>3, PayloadByte DEF Escape
  <1>4. CASE b = FESC
    BY <1>1, <1>2, <1>4, PayloadByte, Octets DEF Escape
  <1>5. CASE b \notin {FEND, FESC}
    <2>1. After(Payload(p), b) = Payload(Append(p, b))
      BY <1>1, <1>5, PayloadByte
    <2>2. Fed(d, Append(s, b), Payload(Append(p, b)), Out(d, FEND))
      BY <1>1, <1>5, <2>1, FedInside
    <2>3. Put(s, b) = Append(s, b)
      BY <1>1, <1>5 DEF Put, Escape
    <2>4. QED
      BY <1>1, <2>2, <2>3 DEF Holds
  <1>6. QED
    BY <1>3, <1>4, <1>5

\* FEND and the command: the frame before ends, and this one begins.
LEMMA HeldFirst == ASSUME NEW d \in DecoderState PROVE Holds(d, <<FEND, 0>>, <<>>)
  <1>1. <<FEND>> = Append(<<>>, FEND) /\ <<FEND, 0>> = Append(<<FEND>>, 0) /\ <<>> \in Seq(Octet)
    OBVIOUS
  <1>2. Out(d, FEND) \in Seq(Frame) /\ <<>> \o Out(d, FEND) = Out(d, FEND)
    BY StepType, Octets
  <1>3. Fed(d, <<>>, d, <<>>)
    BY FedNone
  <1>4. Fed(d, Append(<<>>, FEND), After(d, FEND), <<>> \o Out(d, FEND))
    BY <1>3, FedMore, Octets
  <1>5. Fed(d, <<FEND>>, After(d, FEND), Out(d, FEND))
    BY <1>1, <1>2, <1>4
  <1>6. Fed(d, <<FEND, 0>>, After(After(d, FEND), 0), Out(d, FEND))
    BY <1>1, <1>5, FedInside, Octets
  <1>7. After(After(d, FEND), 0) = Payload(<<>>)
    <2>1. After(d, FEND) = [buf |-> <<>>, inFrame |-> TRUE, escape |-> FALSE]
      BY DEF After
    <2>2. After(After(d, FEND), 0) = [buf |-> Append(<<>>, 0), inFrame |-> TRUE, escape |-> FALSE]
      BY <2>1, Octets DEF After
    <2>3. Append(<<>>, 0) = <<0>> \o <<>>
      OBVIOUS
    <2>4. QED
      BY <2>2, <2>3 DEF Payload
  <1>8. QED
    BY <1>1, <1>6, <1>7 DEF Holds

\* And so for the whole payload.
LEMMA HeldAll ==
  ASSUME NEW d \in DecoderState, NEW p \in Seq(Octet)
  PROVE  Holds(d, Puts!Folded(0, <<FEND, 0>>, p), p)
  <1> DEFINE T == {s \in Seq(Octet): Holds(d, Puts!Folded(0, <<FEND, 0>>, s), s)}
  <1>1. <<>> \in T
    BY HeldFirst, Puts!FoldEmpty
  <1>2. ASSUME NEW s \in T, NEW b \in Octet PROVE Append(s, b) \in T
    <2> DEFINE it(q) == Puts!Folded(0, <<FEND, 0>>, q)
    <2>1. s \in Seq(Octet) /\ Holds(d, it(s), s) /\ Append(s, b) \in Seq(Octet)
      OBVIOUS
    <2>2. it(Append(s, b)) = PutStep(0, it(s), b)
      BY <2>1, Puts!FoldAppend
    <2> HIDE DEF it
    <2>3. Holds(d, it(Append(s, b)), Append(s, b))
      BY <2>1, <2>2, HeldMore DEF PutStep
    <2>4. QED
      BY <2>1, <2>3 DEF it
  <1> HIDE DEF T
  <1>3. T = Seq(Octet)
    <2>1. T \in SUBSET Seq(Octet)
      BY DEF T
    <2>2. QED
      BY <1>1, <1>2, <2>1, Puts!SeqInduction
  <1>4. QED
    BY <1>3 DEF T

LEMMA EncodedFed ==
  ASSUME NEW d \in DecoderState, NEW p \in Seq(Octet)
  PROVE  Feed(d, EncodeFrame(p)).frames = Out(d, FEND) \o <<[port |-> 0, data |-> p]>>
  <1> DEFINE s == Puts!Folded(0, <<FEND, 0>>, p)
  <1>1. Holds(d, s, p)
    BY HeldAll
  <1>2. EncodeFrame(p) = Append(s, FEND)
    BY EncodeIs
  <1> HIDE DEF s
  <1>3. Out(Payload(p), FEND) = <<[port |-> 0, data |-> p]>>
    BY PayloadType
  <1>4. Fed(d, Append(s, FEND), After(Payload(p), FEND), Out(d, FEND) \o Out(Payload(p), FEND))
    BY <1>1, FedMore, Octets DEF Holds
  <1>5. QED
    BY <1>2, <1>3, <1>4 DEF Fed

\* The bytes a KISS connection has brought are read as the frames between their FENDs, and what
\* encode_frame writes comes out whole next, wherever the decoder stands (kiss.py:23-78).
THEOREM FramesWhole == ASSUME KissConstants PROVE KissSpec => []FramesAsWritten
  <1>1. ASSUME KissInv PROVE FramesAsWritten
    <2>1. decoder \in DecoderState /\ frames = Framed(wire)
      BY <1>1 DEF KissInv, Decodes
    <2>2. ASSUME NEW p \in Payloads
          PROVE  /\ Len(Feed(decoder, EncodeFrame(p)).frames) \in 1..2
                 /\ Last(Feed(decoder, EncodeFrame(p)).frames) = [port |-> 0, data |-> p]
      <3> DEFINE f == [port |-> 0, data |-> p]
                 o == Out(decoder, FEND)
                 got == Feed(decoder, EncodeFrame(p)).frames
      <3>1. p \in Seq(Octet)
        <4>1. Bytes \subseteq Octet /\ Payloads \subseteq Seq(Bytes)
          BY DEF KissConstants, Octet
        <4>2. QED
          BY <4>1
      <3>2. got = o \o <<f>>
        BY <2>1, <3>1, EncodedFed
      <3>3. f \in Frame
        BY <3>1 DEF Frame
      <3>4. o \in Seq(Frame) /\ Len(o) \in 0..1
        BY <2>1, StepType, Octets
      <3> HIDE DEF f, o, got
      <3>5. Len(got) = Len(o) + 1 /\ got[Len(o) + 1] = f
        BY <3>2, <3>3, <3>4
      <3>6. Len(got) \in 1..2 /\ Last(got) = f
        <4>1. Last(got) = got[Len(got)]
          BY DEF Last
        <4>2. \A n \in 0..1: n + 1 \in 1..2
          OBVIOUS
        <4>3. QED
          BY <3>4, <3>5, <4>1, <4>2
      <3>7. QED
        BY <3>6 DEF f, got
    <2>3. QED
      BY <2>1, <2>2 DEF FramesAsWritten
  <1>2. QED
    BY <1>1, KissInvariance, PTL
================================================================================
