------------------------ MODULE SpeechDeliveryProofs ------------------------
(***************************************************************************)
(* No speech is left unfinished without somebody to finish it, and no      *)
(* reply is lost, answered twice, answered with what is not so or said out *)
(* of its turn, for any number of replies and sizes of the two queues.     *)
(***************************************************************************)
EXTENDS SpeechDelivery, SequenceTheorems, FiniteSetTheorems, WellFoundedInduction, TLAPS

\* A deque that holds each member of a set once, and nothing else.
Arranges(deque, members) ==
    /\ deque \in Seq(Speeches)
    /\ ToSet(deque) = members
    /\ \A i, j \in DOMAIN deque : deque[i] = deque[j] => i = j

\* The unfinished speeches are the one being said and those that wait, each once.
Said  == IF saying = 0 THEN {} ELSE {saying}

Cared ==
    /\ Arranges(jobs, ToSet(jobs))
    /\ submitted \ finished = ToSet(jobs) \union Said
    /\ saying \notin ToSet(jobs)

IInv == TypeOK /\ Cared
-----------------------------------------------------------------------------
LEMMA SpeechesArePositive == Speeches \subseteq Nat \ {0} /\ MaxWaiting \in Nat \ {0}
  BY SynthesisAssumption DEF SynthesisAssumption

LEMMA Members ==
    ASSUME NEW deque \in Seq(Speeches)
    PROVE  /\ Len(deque) \in Nat /\ DOMAIN deque = 1..Len(deque)
           /\ \A i \in 1..Len(deque) : deque[i] \in Speeches /\ deque[i] \in ToSet(deque)
           /\ \A s \in ToSet(deque) : \E i \in 1..Len(deque) : s = deque[i]
           /\ ToSet(deque) \subseteq Speeches
  BY LenProperties, ElementOfSeq DEF ToSet

LEMMA EmptyArranges == Arranges(<<>>, {})
  BY EmptySeq DEF Arranges, ToSet

\* Counting an element of a deque that holds each of its members once.
LEMMA CountedOnce ==
    ASSUME NEW members, NEW deque, Arranges(deque, members), NEW s
    PROVE  Cardinality({i \in DOMAIN deque : deque[i] = s}) = One(s \in members)
  <1>1. CASE s \notin members
    <2>1. {i \in DOMAIN deque : deque[i] = s} = {}
      BY <1>1 DEF Arranges, ToSet
    <2>2. Cardinality({i \in DOMAIN deque : deque[i] = s}) = 0
      BY <2>1, FS_EmptySet
    <2> QED
      BY <1>1, <2>2 DEF One
  <1>2. CASE s \in members
    <2>1. PICK k \in DOMAIN deque : deque[k] = s
      BY <1>2 DEF Arranges, ToSet
    <2>2. {i \in DOMAIN deque : deque[i] = s} = {k}
      BY <2>1 DEF Arranges
    <2>3. Cardinality({i \in DOMAIN deque : deque[i] = s}) = 1
      BY <2>2, FS_Singleton
    <2> QED
      BY <1>2, <2>3 DEF One
  <1> QED
    BY <1>1, <1>2

LEMMA AppendArranges ==
    ASSUME NEW members, NEW deque, Arranges(deque, members), NEW s \in Speeches \ members
    PROVE  Arranges(Append(deque, s), members \union {s})
  <1> DEFINE more == Append(deque, s)
  <1>1. /\ deque \in Seq(Speeches) /\ ToSet(deque) = members
        /\ \A i, j \in 1..Len(deque) : deque[i] = deque[j] => i = j
        /\ Len(deque) \in Nat
    BY Members DEF Arranges
  <1>2. /\ more \in Seq(Speeches) /\ Len(more) = Len(deque) + 1
        /\ \A i \in 1..Len(deque) : more[i] = deque[i]
        /\ more[Len(deque) + 1] = s
    BY <1>1, AppendProperties
  <1> HIDE DEF more
  <1>3. \A i \in 1..Len(deque) : deque[i] # s
    BY <1>1, Members
  <1>4. \A i, j \in 1..Len(more) : more[i] = more[j] => i = j
    BY <1>1, <1>2, <1>3
  <1>5. ToSet(more) \subseteq members \union {s}
    <2>1. ASSUME NEW t \in ToSet(more) PROVE t \in members \union {s}
      <3>1. PICK i \in 1..Len(more) : t = more[i]
        BY <1>2, Members
      <3>2. i \in 1..Len(deque) \/ i = Len(deque) + 1
        BY <1>1, <1>2
      <3> QED
        BY <1>1, <1>2, <3>1, <3>2, Members
    <2> QED
      BY <2>1
  <1>6. members \union {s} \subseteq ToSet(more)
    <2>1. ASSUME NEW t \in members PROVE t \in ToSet(more)
      <3>1. PICK i \in 1..Len(deque) : t = deque[i]
        BY <1>1, Members
      <3>2. i \in 1..Len(more) /\ t = more[i]
        BY <1>1, <1>2, <3>1
      <3> QED
        BY <1>2, <3>2, Members
    <2>2. Len(deque) + 1 \in 1..Len(more)
      BY <1>1, <1>2
    <2>3. s \in ToSet(more)
      BY <1>2, <2>2, Members
    <2> QED
      BY <2>1, <2>3
  <1>7. DOMAIN more = 1..Len(more)
    BY <1>2, Members
  <1>8. Arranges(more, members \union {s})
    BY <1>2, <1>4, <1>5, <1>6, <1>7 DEF Arranges
  <1> QED
    BY <1>8 DEF more

LEMMA PushFrontArranges ==
    ASSUME NEW members, NEW deque, Arranges(deque, members), NEW s \in Speeches \ members
    PROVE  Arranges(<<s>> \o deque, members \union {s})
  <1> DEFINE more == <<s>> \o deque
  <1>1. /\ deque \in Seq(Speeches) /\ ToSet(deque) = members
        /\ \A i, j \in 1..Len(deque) : deque[i] = deque[j] => i = j
        /\ Len(deque) \in Nat
    BY Members DEF Arranges
  <1>2. /\ more \in Seq(Speeches) /\ Len(more) = Len(deque) + 1
        /\ more[1] = s
        /\ \A i \in 1..Len(deque) : more[i + 1] = deque[i]
    <2>1. <<s>> \in Seq(Speeches) /\ Len(<<s>>) = 1 /\ <<s>>[1] = s
      OBVIOUS
    <2>2. /\ more \in Seq(Speeches) /\ Len(more) = 1 + Len(deque)
          /\ \A i \in 1..(1 + Len(deque)) : more[i] = IF i <= 1 THEN <<s>>[i] ELSE deque[i - 1]
      BY <1>1, <2>1, ConcatProperties
    <2> HIDE DEF more
    <2>3. more[1] = s
      BY <1>1, <2>1, <2>2
    <2>4. ASSUME NEW i \in 1..Len(deque) PROVE more[i + 1] = deque[i]
      <3>1. i + 1 \in 1..(1 + Len(deque)) /\ ~(i + 1 <= 1) /\ (i + 1) - 1 = i
        BY <1>1
      <3> QED
        BY <2>2, <3>1
    <2> QED
      BY <1>1, <2>2, <2>3, <2>4
  <1> HIDE DEF more
  <1>3. \A i \in 1..Len(deque) : deque[i] # s
    BY <1>1, Members
  <1>4. \A i \in 1..Len(more) : i = 1 \/ (i - 1 \in 1..Len(deque) /\ more[i] = deque[i - 1])
    <2>1. ASSUME NEW i \in 1..Len(more), i # 1
          PROVE  i - 1 \in 1..Len(deque) /\ more[i] = deque[i - 1]
      <3>1. i - 1 \in 1..Len(deque) /\ (i - 1) + 1 = i
        BY <1>1, <1>2, <2>1
      <3> QED
        BY <1>2, <3>1
    <2> QED
      BY <2>1
  <1>5. \A i, j \in 1..Len(more) : more[i] = more[j] => i = j
    <2>1. ASSUME NEW i \in 1..Len(more), NEW j \in 1..Len(more), more[i] = more[j] PROVE i = j
      <3>1. CASE i = 1 \/ j = 1
        BY <1>2, <1>3, <1>4, <2>1, <3>1
      <3>2. CASE i # 1 /\ j # 1
        <4>1. i - 1 \in 1..Len(deque) /\ j - 1 \in 1..Len(deque) /\ deque[i - 1] = deque[j - 1]
          BY <1>4, <2>1, <3>2
        <4>2. i - 1 = j - 1
          BY <1>1, <4>1
        <4> QED
          BY <4>2, <1>1, <1>2
      <3> QED
        BY <3>1, <3>2
    <2> QED
      BY <2>1
  <1>6. ToSet(more) \subseteq members \union {s}
    <2>1. ASSUME NEW t \in ToSet(more) PROVE t \in members \union {s}
      <3>1. PICK i \in 1..Len(more) : t = more[i]
        BY <1>2, Members
      <3> QED
        BY <1>1, <1>2, <1>4, <3>1, Members
    <2> QED
      BY <2>1
  <1>7. members \union {s} \subseteq ToSet(more)
    <2>1. ASSUME NEW t \in members PROVE t \in ToSet(more)
      <3>1. PICK i \in 1..Len(deque) : t = deque[i]
        BY <1>1, Members
      <3>2. i + 1 \in 1..Len(more) /\ t = more[i + 1]
        BY <1>1, <1>2, <3>1
      <3> QED
        BY <1>2, <3>2, Members
    <2>2. 1 \in 1..Len(more)
      BY <1>1, <1>2
    <2>3. s \in ToSet(more)
      BY <1>2, <2>2, Members
    <2> QED
      BY <2>1, <2>3
  <1>8. DOMAIN more = 1..Len(more)
    BY <1>2, Members
  <1>9. Arranges(more, members \union {s})
    BY <1>2, <1>5, <1>6, <1>7, <1>8 DEF Arranges
  <1> QED
    BY <1>9 DEF more

\* What RemoveAt leaves.
LEMMA Removed ==
    ASSUME NEW deque \in Seq(Speeches), NEW k \in 1..Len(deque)
    PROVE  /\ RemoveAt(deque, k) \in Seq(Speeches)
           /\ Len(RemoveAt(deque, k)) = Len(deque) - 1
           /\ \A i \in 1..(Len(deque) - 1) :
                RemoveAt(deque, k)[i] = IF i < k THEN deque[i] ELSE deque[i + 1]
  <1> DEFINE before == SubSeq(deque, 1, k - 1)
             after  == SubSeq(deque, k + 1, Len(deque))
  <1>1. Len(deque) \in Nat /\ k \in Nat /\ k >= 1 /\ k <= Len(deque)
    BY LenProperties
  <1>2. \A i \in 1..Len(deque) : deque[i] \in Speeches
    BY ElementOfSeq
  <1>3. /\ before \in Seq(Speeches) /\ Len(before) = k - 1
        /\ \A i \in 1..(k - 1) : before[i] = deque[i]
    <2>1. \A i \in 1..(k - 1) : deque[i] \in Speeches
      BY <1>1, <1>2
    <2>2. /\ before \in Seq(Speeches)
          /\ Len(before) = IF 1 <= k - 1 THEN (k - 1) - 1 + 1 ELSE 0
          /\ \A i \in 1..((k - 1) - 1 + 1) : before[i] = deque[1 + i - 1]
      BY <1>1, <2>1, SubSeqProperties
    <2> HIDE DEF before
    <2> QED
      BY <1>1, <2>2
  <1>4. /\ after \in Seq(Speeches) /\ Len(after) = Len(deque) - k
        /\ \A i \in 1..(Len(deque) - k) : after[i] = deque[k + i]
    <2>1. \A i \in (k + 1)..Len(deque) : deque[i] \in Speeches
      BY <1>1, <1>2
    <2>2. /\ after \in Seq(Speeches)
          /\ Len(after) = IF k + 1 <= Len(deque) THEN Len(deque) - (k + 1) + 1 ELSE 0
          /\ \A i \in 1..(Len(deque) - (k + 1) + 1) : after[i] = deque[(k + 1) + i - 1]
      BY <1>1, <2>1, SubSeqProperties
    <2> HIDE DEF after
    <2> QED
      BY <1>1, <2>2
  <1>5. RemoveAt(deque, k) = before \o after
    BY DEF RemoveAt
  <1> HIDE DEF before, after
  <1>6. /\ before \o after \in Seq(Speeches)
        /\ Len(before \o after) = Len(before) + Len(after)
        /\ \A i \in 1..(Len(before) + Len(after)) :
             (before \o after)[i] = IF i <= Len(before) THEN before[i] ELSE after[i - Len(before)]
    BY <1>3, <1>4, ConcatProperties
  <1>7. ASSUME NEW i \in 1..(Len(deque) - 1)
        PROVE  (before \o after)[i] = IF i < k THEN deque[i] ELSE deque[i + 1]
    <2>1. i \in 1..(Len(before) + Len(after))
      BY <1>1, <1>3, <1>4
    <2>2. CASE i < k
      <3>1. i <= Len(before) /\ i \in 1..(k - 1)
        BY <1>1, <1>3, <2>2
      <3> QED
        BY <1>3, <1>6, <2>1, <2>2, <3>1
    <2>3. CASE ~(i < k)
      <3>1. ~(i <= Len(before)) /\ i - Len(before) \in 1..(Len(deque) - k)
            /\ k + (i - Len(before)) = i + 1
        BY <1>1, <1>3, <2>3
      <3> QED
        BY <1>4, <1>6, <2>1, <2>3, <3>1
    <2> QED
      BY <2>2, <2>3
  <1>8. Len(before \o after) = Len(deque) - 1
    BY <1>1, <1>3, <1>4, <1>6
  <1> QED
    BY <1>5, <1>6, <1>7, <1>8

LEMMA RemoveArranges ==
    ASSUME NEW members, NEW deque, Arranges(deque, members), NEW k \in 1..Len(deque)
    PROVE  Arranges(RemoveAt(deque, k), members \ {deque[k]})
  <1> DEFINE less == RemoveAt(deque, k)
             from(i) == IF i < k THEN i ELSE i + 1
  <1>1. /\ deque \in Seq(Speeches) /\ ToSet(deque) = members
        /\ \A i, j \in 1..Len(deque) : deque[i] = deque[j] => i = j
        /\ Len(deque) \in Nat
    BY Members DEF Arranges
  <1>2. /\ less \in Seq(Speeches) /\ Len(less) = Len(deque) - 1
        /\ \A i \in 1..Len(less) : less[i] = deque[from(i)]
    BY <1>1, Removed
  <1> HIDE DEF less
  <1>3. /\ \A i \in 1..Len(less) : from(i) \in 1..Len(deque) /\ from(i) # k
        /\ \A i, j \in 1..Len(less) : from(i) = from(j) => i = j
        /\ \A n \in 1..Len(deque) : n # k => \E i \in 1..Len(less) : n = from(i)
    <2>1. /\ \A i \in 1..Len(less) : from(i) \in 1..Len(deque) /\ from(i) # k
          /\ \A i, j \in 1..Len(less) : from(i) = from(j) => i = j
      BY <1>1, <1>2
    <2>2. ASSUME NEW n \in 1..Len(deque), n # k PROVE \E i \in 1..Len(less) : n = from(i)
      <3>1. CASE n < k
        <4>1. n \in 1..Len(less) /\ n = from(n)
          BY <1>1, <1>2, <3>1
        <4> QED
          BY <4>1
      <3>2. CASE n > k
        <4>1. n - 1 \in 1..Len(less) /\ n = from(n - 1)
          BY <1>1, <1>2, <3>2
        <4> QED
          BY <4>1
      <3> QED
        BY <1>1, <2>2, <3>1, <3>2
    <2> QED
      BY <2>1, <2>2
  <1> HIDE DEF from
  <1>4. \A i, j \in 1..Len(less) : less[i] = less[j] => i = j
    BY <1>1, <1>2, <1>3
  <1>5. ToSet(less) = members \ {deque[k]}
    <2>1. ASSUME NEW t \in ToSet(less) PROVE t \in members /\ t # deque[k]
      <3>1. PICK i \in 1..Len(less) : t = less[i]
        BY <1>2, Members
      <3>2. from(i) \in 1..Len(deque) /\ from(i) # k /\ t = deque[from(i)]
        BY <1>2, <1>3, <3>1
      <3> QED
        BY <1>1, <3>2, Members
    <2>2. ASSUME NEW t \in members, t # deque[k] PROVE t \in ToSet(less)
      <3>1. PICK n \in 1..Len(deque) : t = deque[n]
        BY <1>1, <2>2, Members
      <3>2. PICK i \in 1..Len(less) : n = from(i)
        BY <1>3, <2>2, <3>1
      <3>3. t = less[i]
        BY <1>2, <3>1, <3>2
      <3> QED
        BY <1>2, <3>3, Members
    <2> QED
      BY <2>1, <2>2
  <1>6. DOMAIN less = 1..Len(less)
    BY <1>2, Members
  <1>7. Arranges(less, members \ {deque[k]})
    BY <1>2, <1>4, <1>5, <1>6 DEF Arranges
  <1> QED
    BY <1>7 DEF less

LEMMA TailArranges ==
    ASSUME NEW members, NEW deque, Arranges(deque, members), deque # <<>>
    PROVE  Head(deque) \in members /\ Arranges(Tail(deque), members \ {Head(deque)})
  <1>1. /\ deque \in Seq(Speeches) /\ ToSet(deque) = members /\ Len(deque) \in Nat
        /\ \A i, j \in 1..Len(deque) : deque[i] = deque[j] => i = j
    BY Members DEF Arranges
  <1>2. /\ Head(deque) = deque[1] /\ 1 \in 1..Len(deque)
        /\ Tail(deque) \in Seq(Speeches) /\ Len(Tail(deque)) = Len(deque) - 1
        /\ \A i \in 1..Len(Tail(deque)) : Tail(deque)[i] = deque[i + 1]
    BY <1>1, HeadTailProperties, EmptySeq
  <1>3. \A i \in 1..Len(Tail(deque)) : i + 1 \in 1..Len(deque) /\ i + 1 # 1
    BY <1>1, <1>2
  <1>4. ToSet(Tail(deque)) = members \ {Head(deque)}
    <2>1. ASSUME NEW t \in ToSet(Tail(deque)) PROVE t \in members /\ t # Head(deque)
      <3>1. PICK i \in 1..Len(Tail(deque)) : t = Tail(deque)[i]
        BY <1>2, Members
      <3>2. i + 1 \in 1..Len(deque) /\ i + 1 # 1 /\ t = deque[i + 1]
        BY <1>2, <1>3, <3>1
      <3> QED
        BY <1>1, <1>2, <3>2, Members
    <2>2. ASSUME NEW t \in members, t # Head(deque) PROVE t \in ToSet(Tail(deque))
      <3>1. PICK n \in 1..Len(deque) : t = deque[n]
        BY <1>1, <2>2, Members
      <3>2. n # 1
        BY <1>2, <2>2, <3>1
      <3>3. n - 1 \in 1..Len(Tail(deque)) /\ (n - 1) + 1 = n
        BY <1>1, <1>2, <3>1, <3>2
      <3>4. t = Tail(deque)[n - 1]
        BY <1>2, <3>1, <3>3
      <3> QED
        BY <1>2, <3>3, <3>4, Members
    <2> QED
      BY <2>1, <2>2
  <1>5. \A i, j \in 1..Len(Tail(deque)) : Tail(deque)[i] = Tail(deque)[j] => i = j
    <2>1. ASSUME NEW i \in 1..Len(Tail(deque)), NEW j \in 1..Len(Tail(deque)),
                 Tail(deque)[i] = Tail(deque)[j]
          PROVE  i = j
      <3>1. deque[i + 1] = deque[j + 1] /\ i + 1 \in 1..Len(deque) /\ j + 1 \in 1..Len(deque)
        BY <1>2, <1>3, <2>1
      <3>2. i + 1 = j + 1
        BY <1>1, <3>1
      <3> QED
        BY <1>1, <1>2, <3>2
    <2> QED
      BY <2>1
  <1>6. DOMAIN Tail(deque) = 1..Len(Tail(deque))
    BY <1>2, Members
  <1>7. Head(deque) \in members
    BY <1>1, <1>2, Members
  <1>8. Arranges(Tail(deque), members \ {Head(deque)})
    BY <1>2, <1>4, <1>5, <1>6 DEF Arranges
  <1> QED
    BY <1>7, <1>8
-----------------------------------------------------------------------------
\* There is a job to give up on whenever the deque is full.
LEMMA VictimIsThere ==
    ASSUME jobs \in Seq(Speeches), Full
    PROVE  Victim \in 1..Len(jobs)
  <1>1. Len(jobs) \in Nat /\ Len(jobs) >= 1 /\ DOMAIN jobs = 1..Len(jobs)
    BY Members, SpeechesArePositive DEF Full
  <1>2. CASE Routine = {}
    BY <1>1, <1>2 DEF Victim
  <1>3. CASE Routine # {}
    <2>1. Routine \subseteq Nat /\ Routine \subseteq 1..Len(jobs)
      BY <1>1 DEF Routine
    <2>2. PICK i \in Routine : \A j \in Routine : ~(<<j, i>> \in OpToRel(<, Nat))
      BY <1>3, <2>1, NatLessThanWellFounded, WFMin, Zenon
    <2>3. \A j \in Routine : ~(j < i)
      BY <2>1, <2>2 DEF OpToRel
    <2>4. \A j \in Routine : i <= j
      BY <2>1, <2>3
    <2>5. Victim \in Routine
      BY <1>3, <2>4 DEF Victim
    <2> QED
      BY <2>1, <2>5
  <1> QED
    BY <1>2, <1>3

LEMMA InitInvariant == Init => IInv
  <1> SUFFICES ASSUME Init PROVE IInv
    OBVIOUS
  <1>1. /\ request \in [Speeches -> Requests] /\ submitted = {} /\ jobs = <<>> /\ saying = 0
        /\ made = [s \in Speeches |-> 0] /\ finished = {} /\ failed = {} /\ stage = "open"
    BY DEF Init, InitEmpty
  <1>2. TypeOK
    <2>1. 0 \in 0..MaxSentences
      BY SynthesisAssumption DEF SynthesisAssumption
    <2> QED
      BY <1>1, <2>1, EmptySeq DEF TypeOK
  <1>3. Arranges(jobs, ToSet(jobs)) /\ ToSet(jobs) = {}
    BY <1>1, EmptyArranges DEF Arranges
  <1> QED
    BY <1>1, <1>2, <1>3 DEF IInv, Cared, Said

\* Giving a speech up for a newer one, and queueing the newer one.
LEMMA SubmitKeeps == ASSUME IInv, NEW s \in Speeches, Submit(s) PROVE IInv'
  <1>1. /\ s \notin submitted /\ submitted' = submitted \union {s} /\ jobs' = Queued(s)
        /\ finished' = finished \union GivenUp /\ failed' = failed \union GivenUp
        /\ UNCHANGED <<request, saying, made, stage>>
    BY DEF Submit, FinishSpeeches
  <1>2. /\ Arranges(jobs, ToSet(jobs)) /\ jobs \in Seq(Speeches)
        /\ submitted \ finished = ToSet(jobs) \union Said /\ saying \notin ToSet(jobs)
        /\ finished \subseteq submitted /\ failed \subseteq finished /\ submitted \subseteq Speeches
    BY DEF IInv, Cared, TypeOK
  <1>3. Arranges(Kept, ToSet(jobs) \ GivenUp) /\ GivenUp \subseteq ToSet(jobs)
    <2>1. CASE Full
      <3>1. Victim \in 1..Len(jobs)
        BY <1>2, <2>1, VictimIsThere
      <3> QED
        BY <1>2, <2>1, <3>1, RemoveArranges, Members DEF Kept, GivenUp
    <2>2. CASE ~Full
      BY <1>2, <2>2 DEF Kept, GivenUp
    <2> QED
      BY <2>1, <2>2
  <1>4. s \notin ToSet(jobs) /\ saying # s
    BY <1>1, <1>2, SpeechesArePositive DEF Said
  <1>5. Arranges(jobs', (ToSet(jobs) \ GivenUp) \union {s})
    BY <1>1, <1>3, <1>4, AppendArranges, PushFrontArranges DEF Queued
  <1>6. ToSet(jobs') = (ToSet(jobs) \ GivenUp) \union {s} /\ jobs' \in Seq(Speeches)
    BY <1>5 DEF Arranges
  <1>7. Cared'
    <2>1. Said' = Said
      BY <1>1 DEF Said
    <2>2. Said \intersect GivenUp = {}
      BY <1>2, <1>3 DEF Said
    <2>3. submitted' \ finished' = ToSet(jobs') \union Said'
      BY <1>1, <1>2, <1>3, <1>4, <1>6, <2>1, <2>2
    <2>4. saying' \notin ToSet(jobs')
      BY <1>1, <1>2, <1>4, <1>6
    <2> QED
      BY <1>5, <1>6, <2>3, <2>4 DEF Cared
  <1>8. TypeOK'
    <2>1. /\ submitted' \subseteq Speeches /\ finished' \subseteq submitted' /\ failed' \subseteq finished'
      BY <1>1, <1>2, <1>3
    <2> QED
      BY <1>1, <1>6, <2>1 DEF IInv, TypeOK
  <1> QED
    BY <1>7, <1>8 DEF IInv

LEMMA TakeKeeps == ASSUME IInv, WorkerTakes PROVE IInv'
  <1>1. /\ saying = 0 /\ jobs # <<>> /\ saying' = Head(jobs) /\ jobs' = Tail(jobs)
        /\ UNCHANGED <<request, submitted, made, finished, failed, stage>>
    BY DEF WorkerTakes
  <1>2. /\ Arranges(jobs, ToSet(jobs)) /\ submitted \ finished = ToSet(jobs)
        /\ ToSet(jobs) \subseteq Speeches
    BY <1>1, Members DEF IInv, Cared, Said, TypeOK
  <1>3. Head(jobs) \in ToSet(jobs) /\ Arranges(jobs', ToSet(jobs) \ {Head(jobs)})
    BY <1>1, <1>2, TailArranges
  <1>4. ToSet(jobs') = ToSet(jobs) \ {Head(jobs)} /\ jobs' \in Seq(Speeches)
    BY <1>3 DEF Arranges
  <1>5. saying' # 0 /\ saying' \in Speeches
    BY <1>1, <1>2, <1>3, SpeechesArePositive
  <1>6. Cared'
    BY <1>1, <1>2, <1>3, <1>4, <1>5 DEF Cared, Said
  <1>7. TypeOK'
    BY <1>1, <1>4, <1>5 DEF IInv, TypeOK
  <1> QED
    BY <1>6, <1>7 DEF IInv

LEMMA AddKeeps == ASSUME IInv, WorkerAdds PROVE IInv'
  <1>1. /\ saying # 0 /\ made[saying] < request[saying].sentences
        /\ made' = [made EXCEPT ![saying] = @ + 1]
        /\ UNCHANGED <<request, submitted, jobs, saying, finished, failed, stage>>
    BY DEF WorkerAdds
  <1>2. made' \in [Speeches -> 0..MaxSentences]
    <2>1. /\ saying \in Speeches /\ made \in [Speeches -> 0..MaxSentences]
          /\ request[saying].sentences \in 0..MaxSentences
      BY <1>1 DEF IInv, TypeOK, Requests
    <2>2. made[saying] + 1 \in 0..MaxSentences
      BY <1>1, <2>1, SynthesisAssumption DEF SynthesisAssumption
    <2> QED
      BY <1>1, <2>1, <2>2
  <1> QED
    BY <1>1, <1>2 DEF IInv, TypeOK, Cared, Said

LEMMA FinishKeeps == ASSUME IInv, WorkerFails \/ WorkerFinishes PROVE IInv'
  <1>1. /\ saying # 0 /\ saying' = 0 /\ finished' = finished \union {saying}
        /\ failed' \in {failed, failed \union {saying}}
        /\ UNCHANGED <<request, submitted, jobs, made, stage>>
    BY DEF WorkerFails, WorkerFinishes, FinishSpeeches
  <1>2. /\ submitted \ finished = ToSet(jobs) \union {saying} /\ saying \notin ToSet(jobs)
        /\ ToSet(jobs) \subseteq Speeches /\ failed \subseteq finished /\ finished \subseteq submitted
    BY <1>1, Members DEF IInv, Cared, Said, TypeOK
  <1>3. ToSet(jobs') = ToSet(jobs) /\ Arranges(jobs', ToSet(jobs'))
    BY <1>1 DEF IInv, Cared
  <1>4. Cared'
    BY <1>1, <1>2, <1>3, SpeechesArePositive DEF Cared, Said
  <1>5. failed' \subseteq finished' /\ finished' \subseteq submitted'
    BY <1>1, <1>2
  <1>6. TypeOK'
    BY <1>1, <1>5 DEF IInv, TypeOK
  <1> QED
    BY <1>4, <1>6 DEF IInv

LEMMA GiveUpKeeps == ASSUME IInv, GiveUpWaiting PROVE IInv'
  <1>1. /\ finished' = finished \union ToSet(jobs) /\ failed' = failed \union ToSet(jobs)
        /\ jobs' = <<>> /\ stage' = "gone"
        /\ UNCHANGED <<request, submitted, saying, made>>
    BY DEF GiveUpWaiting, FinishSpeeches
  <1>2. /\ submitted \ finished = ToSet(jobs) \union Said /\ saying \notin ToSet(jobs)
        /\ failed \subseteq finished /\ finished \subseteq submitted
    BY DEF IInv, Cared, TypeOK
  <1>3. Arranges(jobs', ToSet(jobs')) /\ ToSet(jobs') = {} /\ jobs' \in Seq(Speeches)
    BY <1>1, EmptyArranges DEF Arranges
  <1>4. Said' = Said /\ Said \intersect ToSet(jobs) = {}
    BY <1>1, <1>2 DEF Said
  <1>5. submitted' \ finished' = ToSet(jobs') \union Said'
    BY <1>1, <1>2, <1>3, <1>4
  <1>6. TypeOK'
    <2>1. finished' \subseteq submitted' /\ failed' \subseteq finished'
      BY <1>1, <1>2
    <2> QED
      BY <1>1, <1>3, <2>1 DEF IInv, TypeOK
  <1> QED
    BY <1>3, <1>5, <1>6, <1>1 DEF IInv, Cared

LEMMA StepInvariant == IInv /\ [Next]_vars => IInv'
  <1> SUFFICES ASSUME IInv, [Next]_vars PROVE IInv'
    OBVIOUS
  <1>1. CASE \E s \in Speeches : Submit(s)
    BY <1>1, SubmitKeeps
  <1>2. CASE WorkerTakes \/ WorkerAdds \/ WorkerFails \/ WorkerFinishes
    BY <1>2, TakeKeeps, AddKeeps, FinishKeeps
  <1>3. CASE Stop \/ WorkerExits
    BY <1>3 DEF Stop, WorkerExits, IInv, TypeOK, Cared, Said
  <1>4. CASE GiveUpWaiting
    BY <1>4, GiveUpKeeps
  <1>5. CASE UNCHANGED vars
    BY <1>5 DEF vars, IInv, TypeOK, Cared, Said
  <1> QED
    BY <1>1, <1>2, <1>3, <1>4, <1>5 DEF Next, WorkerStep

LEMMA Invariance == Spec => []IInv
  BY InitInvariant, StepInvariant, PTL DEF Spec

\* Every variable of the queue keeps its type, and only what was asked for is
\* finished, only what is finished failed.
THEOREM TypeCorrect == Spec => []TypeOK
  <1>1. IInv => TypeOK
    BY DEF IInv
  <1> QED
    BY <1>1, Invariance, PTL

\* Eviction from the front or the middle, a failing sentence and the destructor
\* finish what they take away: whatever is unfinished is said, or waits once.
THEOREM SomebodyFinishesIt == Spec => []UnfinishedSpeechHasAWorker
  <1>1. ASSUME IInv PROVE UnfinishedSpeechHasAWorker
    <2>1. ASSUME NEW s \in submitted \ finished
          PROVE  Cardinality({i \in DOMAIN jobs : jobs[i] = s}) + (IF saying = s THEN 1 ELSE 0) = 1
      <3>1. /\ Arranges(jobs, ToSet(jobs)) /\ s \in ToSet(jobs) \union Said
            /\ saying \notin ToSet(jobs)
        BY <1>1, <2>1 DEF IInv, Cared
      <3>2. Cardinality({i \in DOMAIN jobs : jobs[i] = s}) = One(s \in ToSet(jobs))
        BY <3>1, CountedOnce
      <3>3. s \in ToSet(jobs) <=> saying # s
        BY <3>1 DEF Said
      <3> QED
        BY <3>2, <3>3 DEF One
    <2> QED
      BY <2>1 DEF UnfinishedSpeechHasAWorker
  <1> QED
    BY <1>1, Invariance, PTL
-----------------------------------------------------------------------------
(* The receiver thread, the flight loop and the queue together. *)

\* What an acknowledgement can rest on; only the last three say something of
\* the playing of the reply.
Plain == {"speech_not_requested", "empty_text", "voices_unavailable",
          "preempted_by_urgent_speech", "radio_refused_audio", "synthesis_failed_partway"}
Basis == Plain \union {"synthesis_failed", "synthesis_timed_out",
                       "synthesized_playback_elapsed"}

Acks == [reply : Speeches, ok : BOOLEAN, ack_basis : Basis]

\* A sequence of acknowledgements that answers each of a set of replies, once.
Answers(ledger, replies) ==
    /\ ledger \in Seq(Acks)
    /\ {ledger[i].reply : i \in DOMAIN ledger} = replies
    /\ \A i, j \in DOMAIN ledger : ledger[i].reply = ledger[j].reply => i = j

DeliveryTypes ==
    /\ voices \in BOOLEAN /\ wants \in [Speeches -> ReplyKinds]
    /\ received \in 0..MaxReplies /\ incoming \in {0, received}
    /\ active \in Speeches \union {0} /\ at \in {"frame", "advancing", "deciding"}
    /\ onAir \in BOOLEAN
    /\ at # "frame" => active # 0
    /\ dropped \subseteq Speeches /\ begun \in Seq(Speeches)
    /\ played \in [Speeches -> Nat]
    /\ submitted \subseteq 1..received

\* Of the places a reply can be in, an arrived one is in one and no other reply
\* is in any.
Places(r) ==
    One(incoming = r) + One(active = r) + One(r \in dropped)
      + One(r \in ToSet(queue)) + One(r \in Told)

Placed ==
    /\ Arranges(queue, ToSet(queue)) /\ Answers(acks, Told)
    /\ \A r \in Speeches : Places(r) = One(r <= received)

\* What the acknowledgements say is so, and the radio plays what was made.
Fits(a) ==
    /\ a.ack_basis = "synthesized_playback_elapsed" =>
         played[a.reply] > 0 /\ a.reply \in finished \ failed
    /\ a.ack_basis \in {"synthesis_timed_out", "synthesis_failed"} => played[a.reply] = 0

Truthful ==
    /\ \A r \in Speeches : played[r] <= made[r] /\ made[r] <= request[r].sentences
    /\ \A a \in ToSet(acks) : Fits(a)
    /\ onAir => active # 0 /\ played[active] > 0

\* The queue is in the order of arrival; what was taken before an older reply
\* that still waits is urgent, and that reply is not.
Overtakes(r, older) == request[r].urgent /\ ~request[older].urgent

Ascends(deque) == \A i, j \in DOMAIN deque : i < j => deque[i] < deque[j]

InTurn ==
    /\ Ascends(queue)
    /\ \A i \in DOMAIN begun : begun[i] <= received
    /\ \A i \in DOMAIN begun, r \in ToSet(queue) : begun[i] > r => Overtakes(begun[i], r)
    /\ \A i, j \in DOMAIN begun :
         i < j /\ begun[i] > begun[j] => Overtakes(begun[i], begun[j])

Delivered == DeliveryTypes /\ Placed /\ Truthful /\ InTurn

DeliveryInvariant == IInv /\ Delivered
-----------------------------------------------------------------------------
LEMMA Arrivals ==
    /\ Speeches = 1..MaxReplies /\ MaxReplies \in Nat /\ MaxQueuedReplies \in Nat \ {0}
    /\ Speeches \subseteq Nat \ {0}
  BY DeliveryAssumption DEF DeliveryAssumption

\* One more answer in the ledger.
LEMMA AnswerAdded ==
    ASSUME NEW replies, NEW ledger, Answers(ledger, replies),
           NEW a \in Acks, a.reply \notin replies
    PROVE  /\ Answers(Append(ledger, a), replies \union {a.reply})
           /\ ToSet(Append(ledger, a)) = ToSet(ledger) \union {a}
  <1> DEFINE more == Append(ledger, a)
             n == Len(ledger)
  <1>1. /\ ledger \in Seq(Acks) /\ n \in Nat /\ DOMAIN ledger = 1..n
        /\ replies = {ledger[i].reply : i \in 1..n}
        /\ \A i, j \in 1..n : ledger[i].reply = ledger[j].reply => i = j
    BY LenProperties DEF Answers
  <1>2. /\ more \in Seq(Acks) /\ Len(more) = n + 1
        /\ \A i \in 1..n : more[i] = ledger[i]
        /\ more[n + 1] = a
    BY <1>1, AppendProperties
  <1>3. DOMAIN more = 1..(n + 1)
    BY <1>2, LenProperties
  <1> HIDE DEF more, n
  <1>4. \A i \in 1..(n + 1) : i \in 1..n \/ i = n + 1
    BY <1>1
  <1>5. \A i \in 1..n : i \in 1..(n + 1)
    BY <1>1
  <1>6. n + 1 \in 1..(n + 1)
    BY <1>1
  <1>7. {more[i].reply : i \in 1..(n + 1)} = replies \union {a.reply}
    <2>1. \A i \in 1..(n + 1) : more[i].reply \in replies \union {a.reply}
      BY <1>1, <1>2, <1>4
    <2>2. a.reply \in {more[i].reply : i \in 1..(n + 1)}
      BY <1>2, <1>6
    <2>3. \A i \in 1..n : ledger[i].reply \in {more[j].reply : j \in 1..(n + 1)}
      BY <1>2, <1>5
    <2>4. replies \subseteq {more[j].reply : j \in 1..(n + 1)}
      BY ONLY <1>1, <2>3
    <2>5. {more[j].reply : j \in 1..(n + 1)} \subseteq replies \union {a.reply}
      BY ONLY <2>1
    <2> QED
      BY ONLY <2>2, <2>4, <2>5
  <1>8. {more[i] : i \in 1..(n + 1)} = {ledger[i] : i \in 1..n} \union {a}
    <2>1. \A i \in 1..(n + 1) : more[i] \in {ledger[j] : j \in 1..n} \union {a}
      BY <1>2, <1>4
    <2>2. a \in {more[i] : i \in 1..(n + 1)}
      BY <1>2, <1>6
    <2>3. \A i \in 1..n : ledger[i] \in {more[j] : j \in 1..(n + 1)}
      BY <1>2, <1>5
    <2> QED
      BY <2>1, <2>2, <2>3
  <1>9. ASSUME NEW i \in 1..(n + 1), NEW j \in 1..(n + 1), more[i].reply = more[j].reply
        PROVE  i = j
    <2>1. \A k \in 1..n : ledger[k].reply # a.reply
      BY <1>1
    <2> QED
      BY <1>1, <1>2, <1>4, <1>9, <2>1
  <1>10. ToSet(more) = ToSet(ledger) \union {a}
    BY <1>1, <1>3, <1>8 DEF ToSet
  <1>11. Answers(more, replies \union {a.reply})
    BY <1>2, <1>3, <1>7, <1>9 DEF Answers
  <1> QED
    BY <1>10, <1>11 DEF more

LEMMA AnswersCounted ==
    ASSUME NEW replies, NEW ledger, Answers(ledger, replies), NEW r
    PROVE  Cardinality({i \in DOMAIN ledger : ledger[i].reply = r}) = One(r \in replies)
  <1> DEFINE those == {i \in DOMAIN ledger : ledger[i].reply = r}
  <1>1. CASE r \notin replies
    <2>1. those = {}
      BY <1>1 DEF Answers
    <2> QED
      BY <1>1, <2>1, FS_EmptySet DEF One
  <1>2. CASE r \in replies
    <2>1. PICK k \in DOMAIN ledger : ledger[k].reply = r
      BY <1>2 DEF Answers
    <2>2. those = {k}
      BY <2>1 DEF Answers
    <2>3. Cardinality(those) = 1
      BY <2>2, FS_Singleton
    <2> QED
      BY <1>2, <2>3 DEF One
  <1> QED
    BY <1>1, <1>2

\* start_atc_reply answers a reply that is not going to be spoken, plainly.
LEMMA AnsweredAtOnce ==
    ASSUME DeliveryTypes, NEW r \in Speeches
    PROVE  IF Spoken(r) THEN AcknowledgedAtOnce(r) = <<>>
           ELSE \E a \in Acks : /\ a.reply = r /\ a.ack_basis \in Plain
                                /\ AcknowledgedAtOnce(r) = <<a>>
  <1>1. wants[r] \in ReplyKinds /\ voices \in BOOLEAN
    BY DEF DeliveryTypes
  <1>2. \A ok \in BOOLEAN, basis \in Plain :
          /\ Ack(r, ok, basis) \in Acks
          /\ Ack(r, ok, basis).reply = r /\ Ack(r, ok, basis).ack_basis = basis
    BY DEF Ack, Acks, Basis
  <1>3. CASE wants[r] = "nothing"
    <2>1. AcknowledgedAtOnce(r) = <<Ack(r, FALSE, "empty_text")>> /\ ~Spoken(r)
      BY <1>3 DEF AcknowledgedAtOnce, Spoken
    <2>2. "empty_text" \in Plain
      BY DEF Plain
    <2> QED
      BY <1>2, <2>1, <2>2
  <1>4. CASE wants[r] = "silence"
    <2>1. AcknowledgedAtOnce(r) = <<Ack(r, TRUE, "speech_not_requested")>> /\ ~Spoken(r)
      BY <1>4 DEF AcknowledgedAtOnce, Spoken
    <2>2. "speech_not_requested" \in Plain
      BY DEF Plain
    <2> QED
      BY <1>2, <2>1, <2>2
  <1>5. CASE wants[r] = "speech"
    <2>1. CASE voices
      BY <1>5, <2>1 DEF AcknowledgedAtOnce, Spoken
    <2>2. CASE ~voices
      <3>1. AcknowledgedAtOnce(r) = <<Ack(r, FALSE, "voices_unavailable")>> /\ ~Spoken(r)
        BY <1>5, <2>2 DEF AcknowledgedAtOnce, Spoken
      <3>2. "voices_unavailable" \in Plain
        BY DEF Plain
      <3> QED
        BY <1>2, <3>1, <3>2
    <2> QED
      BY <2>1, <2>2
  <1> QED
    BY <1>1, <1>3, <1>4, <1>5 DEF ReplyKinds

LEMMA AnswerConcatenated ==
    ASSUME NEW replies, NEW ledger, Answers(ledger, replies),
           NEW r \in Speeches, r \notin replies, DeliveryTypes
    PROVE  /\ Answers(ledger \o AcknowledgedAtOnce(r),
                      replies \union (IF Spoken(r) THEN {} ELSE {r}))
           /\ \A a \in ToSet(ledger \o AcknowledgedAtOnce(r)) :
                a \in ToSet(ledger) \/ a.ack_basis \in Plain
  <1>1. ledger \in Seq(Acks)
    BY DEF Answers
  <1>2. CASE Spoken(r)
    <2>1. AcknowledgedAtOnce(r) = <<>>
      BY <1>2, AnsweredAtOnce
    <2>2. ledger \o AcknowledgedAtOnce(r) = ledger
      BY <1>1, <2>1, ConcatEmptySeq
    <2>3. replies \union (IF Spoken(r) THEN {} ELSE {r}) = replies
      BY <1>2
    <2> QED
      BY <2>2, <2>3
  <1>3. CASE ~Spoken(r)
    <2>1. PICK a \in Acks : /\ a.reply = r /\ a.ack_basis \in Plain
                            /\ AcknowledgedAtOnce(r) = <<a>>
      BY <1>3, AnsweredAtOnce
    <2>2. ledger \o AcknowledgedAtOnce(r) = Append(ledger, a)
      BY <1>1, <2>1, AppendIsConcat
    <2>3. /\ Answers(Append(ledger, a), replies \union {r})
          /\ ToSet(Append(ledger, a)) = ToSet(ledger) \union {a}
      BY <2>1, AnswerAdded
    <2>4. replies \union (IF Spoken(r) THEN {} ELSE {r}) = replies \union {r}
      BY <1>3
    <2> QED
      BY <2>1, <2>2, <2>3, <2>4
  <1> QED
    BY <1>2, <1>3

\* What is done to the synthesis queue here is what its own specification allows.
LEMMA StepOfTheQueue == ASSUME DeliveryTypes, [DeliveryNext]_systemVars PROVE [Next]_vars
  <1>1. CASE ReceiverSubmits
    <2>1. received + 1 \in Speeches
      BY <1>1, Arrivals DEF DeliveryTypes, ReceiverSubmits
    <2>2. Submit(received + 1) \/ UNCHANGED vars
      BY <1>1 DEF ReceiverSubmits
    <2> QED
      BY <2>1, <2>2 DEF Next
  <1>2. CASE SynthesisStep
    BY <1>2 DEF SynthesisStep, Next
  <1>3. CASE ReceiverQueues \/ SentenceEnds \/ DeadlinePasses
    BY <1>3 DEF ReceiverQueues, SentenceEnds, DeadlinePasses
  <1>4. CASE FlightLoop
    BY <1>4 DEF FlightLoop, Preempt, TakeNext, Advance, PlaySentence, NoneReady, Decide
  <1>5. CASE UNCHANGED systemVars
    BY <1>5 DEF systemVars
  <1> QED
    BY <1>1, <1>2, <1>3, <1>4, <1>5 DEF DeliveryNext

\* A speech that is finished stays as it is, and no more sentences are made than
\* were asked for.
LEMMA VerdictsStand ==
    ASSUME IInv, [Next]_vars
    PROVE  /\ request' = request /\ finished \subseteq finished'
           /\ finished \intersect failed' \subseteq failed
           /\ \A s \in Speeches :
                /\ made[s] <= made'[s]
                /\ made[s] <= request[s].sentences => made'[s] <= request[s].sentences
  <1>1. /\ made \in [Speeches -> 0..MaxSentences] /\ jobs \in Seq(Speeches)
        /\ submitted \ finished = ToSet(jobs) \union Said
        /\ \A s \in Speeches : made[s] \in Nat
    BY SynthesisAssumption DEF IInv, TypeOK, Cared, SynthesisAssumption
  <1>2. ASSUME made' = made
        PROVE  \A s \in Speeches :
                /\ made[s] <= made'[s]
                /\ made[s] <= request[s].sentences => made'[s] <= request[s].sentences
    BY <1>1, <1>2
  <1>3. ASSUME NEW s \in Speeches, Submit(s)
        PROVE  /\ request' = request /\ made' = made /\ finished \subseteq finished'
               /\ finished \intersect failed' \subseteq failed
    <2>1. /\ finished' = finished \union GivenUp /\ failed' = failed \union GivenUp
          /\ request' = request /\ made' = made
      BY <1>3 DEF Submit, FinishSpeeches
    <2>2. GivenUp \subseteq ToSet(jobs)
      BY <1>1, VictimIsThere, Members DEF GivenUp
    <2> QED
      BY <1>1, <2>1, <2>2
  <1>4. CASE WorkerAdds
    <2>1. /\ saying # 0 /\ made[saying] < request[saying].sentences
          /\ made' = [made EXCEPT ![saying] = @ + 1]
          /\ UNCHANGED <<request, finished, failed>>
      BY <1>4 DEF WorkerAdds
    <2>2. saying \in Speeches /\ request[saying].sentences \in Nat
      BY <2>1, SynthesisAssumption DEF IInv, TypeOK, Requests, SynthesisAssumption
    <2>3. \A s \in Speeches : made'[s] = IF s = saying THEN made[s] + 1 ELSE made[s]
      BY <1>1, <2>1
    <2> QED
      BY <1>1, <2>1, <2>2, <2>3
  <1>5. CASE WorkerFails \/ WorkerFinishes
    <2>1. /\ finished' = finished \union {saying} /\ saying # 0
          /\ failed' \in {failed, failed \union {saying}} /\ UNCHANGED <<request, made>>
      BY <1>5 DEF WorkerFails, WorkerFinishes, FinishSpeeches
    <2>2. saying \notin finished
      BY <1>1, <2>1 DEF Said
    <2> QED
      BY <1>2, <2>1, <2>2
  <1>6. CASE GiveUpWaiting
    <2>1. /\ finished' = finished \union ToSet(jobs) /\ failed' = failed \union ToSet(jobs)
          /\ UNCHANGED <<request, made>>
      BY <1>6 DEF GiveUpWaiting, FinishSpeeches
    <2> QED
      BY <1>1, <1>2, <2>1
  <1>7. CASE WorkerTakes \/ WorkerExits \/ Stop \/ UNCHANGED vars
    <2>1. UNCHANGED <<request, made, finished, failed>>
      BY <1>7 DEF WorkerTakes, WorkerExits, Stop, vars
    <2> QED
      BY <1>2, <2>1
  <1> QED
    BY <1>2, <1>3, <1>4, <1>5, <1>6, <1>7 DEF Next, WorkerStep

LEMMA TruthStands ==
    ASSUME DeliveryInvariant, [Next]_vars, UNCHANGED <<active, onAir, played, acks>>
    PROVE  Truthful'
  <1>1. /\ IInv /\ Truthful /\ played \in [Speeches -> Nat]
        /\ \A s \in Speeches : made[s] \in Nat /\ made'[s] \in Nat
    <2>1. IInv /\ IInv'
      BY StepInvariant DEF DeliveryInvariant
    <2>2. made \in [Speeches -> 0..MaxSentences] /\ made' \in [Speeches -> 0..MaxSentences]
      BY <2>1 DEF IInv, TypeOK
    <2>3. \A s \in Speeches : made[s] \in Nat /\ made'[s] \in Nat
      BY <2>2, SynthesisAssumption DEF SynthesisAssumption
    <2> QED
      BY <2>3 DEF DeliveryInvariant, Delivered, DeliveryTypes
  <1>2. ASSUME NEW r \in Speeches PROVE played'[r] <= made'[r] /\ made'[r] <= request'[r].sentences
    BY <1>1, VerdictsStand DEF Truthful
  <1>3. ASSUME NEW a \in ToSet(acks) PROVE Fits(a)'
    BY <1>1, <1>3, VerdictsStand DEF Truthful, Fits
  <1> QED
    BY <1>1, <1>2, <1>3 DEF Truthful

LEMMA SynthesisKeeps == ASSUME DeliveryInvariant, SynthesisStep PROVE Delivered'
  <1>1. /\ UNCHANGED <<voices, wants, receiverVars, queue, activeVars, begun>>
        /\ [Next]_vars /\ WorkerStep
    BY DEF SynthesisStep, Next
  <1>2. submitted' = submitted /\ request' = request
    BY <1>1 DEF WorkerStep, WorkerTakes, WorkerAdds, WorkerFails, WorkerFinishes, WorkerExits
  <1>3. DeliveryTypes'
    BY <1>1, <1>2 DEF DeliveryInvariant, Delivered, DeliveryTypes, receiverVars, activeVars
  <1>4. Placed'
    BY <1>1 DEF DeliveryInvariant, Delivered, Placed, Places, Told, receiverVars, activeVars
  <1>5. InTurn'
    BY <1>1, <1>2 DEF DeliveryInvariant, Delivered, InTurn, Overtakes, receiverVars
  <1>6. Truthful'
    BY <1>1, TruthStands DEF activeVars
  <1> QED
    BY <1>3, <1>4, <1>5, <1>6 DEF Delivered

\* queue_atc_reply's submit: the reply is in the receiver thread's hands.
LEMMA SubmitsKeeps == ASSUME DeliveryInvariant, ReceiverSubmits PROVE Delivered'
  <1>1. /\ incoming = 0 /\ received < MaxReplies
        /\ received' = received + 1 /\ incoming' = received + 1
        /\ Submit(received + 1) \/ UNCHANGED vars
        /\ UNCHANGED <<voices, wants, queue, activeVars, dropped, begun>>
    BY DEF ReceiverSubmits
  <1>2. /\ IInv /\ DeliveryTypes /\ Placed /\ InTurn
        /\ received \in 0..MaxReplies /\ received \in Nat
    BY Arrivals DEF DeliveryInvariant, Delivered, DeliveryTypes
  <1>3. /\ received + 1 \in Speeches /\ received' \in 0..MaxReplies
        /\ \A r \in Speeches : r <= received + 1 <=> r <= received \/ r = received + 1
        /\ ~(received + 1 <= received)
    BY <1>1, <1>2, Arrivals
  <1>4. [Next]_vars
    BY <1>1, <1>3 DEF Next
  <1>5. DeliveryTypes'
    <2>1. submitted' \subseteq submitted \union {received + 1}
      BY <1>1 DEF Submit, vars
    <2>2. submitted' \subseteq 1..received'
      BY <1>1, <1>2, <2>1 DEF DeliveryTypes
    <2> QED
      BY <1>1, <1>2, <1>3, <2>2 DEF DeliveryTypes, activeVars
  <1>6. Placed'
    <2>1. \A r \in Speeches : r # 0
      BY Arrivals
    <2>2. Told' = Told /\ UNCHANGED <<queue, acks, active, dropped>>
      BY <1>1 DEF Told, activeVars
    <2>3. ASSUME NEW r \in Speeches PROVE Places(r)' = One(r <= received)'
      BY <1>1, <1>2, <1>3, <2>1, <2>2 DEF Placed, Places, One
    <2> QED
      BY <1>2, <2>2, <2>3 DEF Placed
  <1>7. InTurn'
    <2>1. request' = request /\ UNCHANGED <<queue, begun>>
      BY <1>1, <1>2, <1>4, VerdictsStand
    <2>2. \A i \in DOMAIN begun : begun[i] <= received'
      <3>1. \A i \in DOMAIN begun : begun[i] \in Nat
        BY <1>2, Members, Arrivals DEF DeliveryTypes
      <3> QED
        BY <1>1, <1>2, <3>1 DEF InTurn
    <2> QED
      BY <1>2, <2>1, <2>2 DEF InTurn, Overtakes
  <1>8. Truthful'
    BY <1>1, <1>4, TruthStands DEF activeVars
  <1> QED
    BY <1>5, <1>6, <1>7, <1>8 DEF Delivered

LEMMA AppendAscends ==
    ASSUME NEW deque \in Seq(Speeches), Ascends(deque),
           NEW s \in Speeches, \A i \in DOMAIN deque : deque[i] < s
    PROVE  Ascends(Append(deque, s))
  <1> DEFINE more == Append(deque, s)
  <1>1. /\ more \in Seq(Speeches) /\ Len(more) = Len(deque) + 1
        /\ \A i \in 1..Len(deque) : more[i] = deque[i]
        /\ more[Len(deque) + 1] = s
    BY AppendProperties
  <1>2. DOMAIN deque = 1..Len(deque) /\ Len(deque) \in Nat /\ DOMAIN more = 1..(Len(deque) + 1)
    BY <1>1, Members
  <1> HIDE DEF more
  <1>3. ASSUME NEW i \in 1..(Len(deque) + 1), NEW j \in 1..(Len(deque) + 1), i < j
        PROVE  more[i] < more[j]
    <2>1. i \in 1..Len(deque) /\ (j \in 1..Len(deque) \/ j = Len(deque) + 1)
      BY <1>2, <1>3
    <2> QED
      BY <1>1, <1>2, <1>3, <2>1 DEF Ascends
  <1>4. Ascends(more)
    BY <1>2, <1>3 DEF Ascends
  <1> QED
    BY <1>4 DEF more

\* What is left when one is taken out keeps its order; each of the others was
\* before or behind it.
LEMMA RemoveAscends ==
    ASSUME NEW deque \in Seq(Speeches), Ascends(deque), NEW k \in 1..Len(deque)
    PROVE  /\ Ascends(RemoveAt(deque, k))
           /\ \A i \in DOMAIN RemoveAt(deque, k) :
                \E m \in 1..Len(deque) : m # k /\ RemoveAt(deque, k)[i] = deque[m]
  <1> DEFINE less == RemoveAt(deque, k)
             from(i) == IF i < k THEN i ELSE i + 1
  <1>1. /\ less \in Seq(Speeches) /\ Len(less) = Len(deque) - 1
        /\ \A i \in 1..(Len(deque) - 1) : less[i] = deque[from(i)]
    BY Removed
  <1>2. DOMAIN deque = 1..Len(deque) /\ Len(deque) \in Nat /\ DOMAIN less = 1..(Len(deque) - 1)
    BY <1>1, Members
  <1> HIDE DEF less
  <1>3. /\ \A i \in 1..(Len(deque) - 1) : from(i) \in 1..Len(deque) /\ from(i) # k
        /\ \A i, j \in 1..(Len(deque) - 1) : i < j => from(i) < from(j)
    BY <1>2
  <1> HIDE DEF from
  <1>4. Ascends(less)
    BY <1>1, <1>2, <1>3 DEF Ascends
  <1>5. \A i \in DOMAIN less : \E m \in 1..Len(deque) : m # k /\ less[i] = deque[m]
    BY <1>1, <1>2, <1>3
  <1> QED
    BY <1>4, <1>5 DEF less

LEMMA TailAscends ==
    ASSUME NEW deque \in Seq(Speeches), Ascends(deque), deque # <<>>
    PROVE  Ascends(Tail(deque))
  <1>1. /\ Tail(deque) \in Seq(Speeches) /\ Len(Tail(deque)) = Len(deque) - 1
        /\ \A i \in 1..Len(Tail(deque)) : Tail(deque)[i] = deque[i + 1]
    BY HeadTailProperties
  <1>2. DOMAIN deque = 1..Len(deque) /\ Len(deque) \in Nat
        /\ DOMAIN Tail(deque) = 1..Len(Tail(deque))
    BY <1>1, Members
  <1>3. ASSUME NEW i \in 1..Len(Tail(deque)), NEW j \in 1..Len(Tail(deque)), i < j
        PROVE  Tail(deque)[i] < Tail(deque)[j]
    <2>1. i + 1 \in DOMAIN deque /\ j + 1 \in DOMAIN deque /\ i + 1 < j + 1
      BY <1>1, <1>2, <1>3
    <2> QED
      BY <1>1, <1>3, <2>1 DEF Ascends
  <1> QED
    BY <1>2, <1>3 DEF Ascends

\* queue_atc_reply's lock: at the back of the queue, whose front goes when it is full.
LEMMA QueuesKeeps == ASSUME DeliveryInvariant, ReceiverQueues PROVE Delivered'
  <1> DEFINE full == Len(queue) >= MaxQueuedReplies
             rest == IF full THEN Tail(queue) ELSE queue
             lost == IF full THEN {Head(queue)} ELSE {}
  <1>1. /\ incoming # 0 /\ incoming' = 0
        /\ queue' = Append(rest, incoming) /\ dropped' = dropped \union lost
        /\ UNCHANGED <<voices, wants, vars, received, activeVars, begun>>
    BY DEF ReceiverQueues
  <1>2. /\ IInv /\ DeliveryTypes /\ Placed /\ InTurn
        /\ incoming = received /\ received \in Nat /\ received \in Speeches
    BY <1>1, Arrivals DEF DeliveryInvariant, Delivered, DeliveryTypes
  <1>3. /\ Arranges(queue, ToSet(queue)) /\ queue \in Seq(Speeches) /\ Ascends(queue)
        /\ ToSet(queue) \subseteq Speeches
    BY <1>2, Members DEF Placed, InTurn, Arranges
  <1>4. /\ Arranges(rest, ToSet(queue) \ lost) /\ lost \subseteq ToSet(queue)
        /\ Ascends(rest)
    <2>1. CASE full
      <3>1. queue # <<>>
        BY <2>1, Arrivals, EmptySeq
      <3> QED
        BY <1>3, <2>1, <3>1, TailArranges, TailAscends
    <2>2. CASE ~full
      BY <1>3, <2>2
    <2> QED
      BY <2>1, <2>2
  <1> HIDE DEF rest, lost, full
  <1>5. \A r \in ToSet(queue) : r \in Speeches /\ r < received /\ r \in Nat
    <2>1. ASSUME NEW r \in ToSet(queue) PROVE r \in Nat /\ r <= received /\ r # received
      BY <1>1, <1>2, <1>3, <2>1, Arrivals DEF Placed, Places, One
    <2> QED
      BY <1>2, <1>3, <2>1
  <1>6. /\ Arranges(queue', (ToSet(queue) \ lost) \union {received})
        /\ Ascends(queue')
    <2>1. received \in Speeches \ (ToSet(queue) \ lost)
      BY <1>2, <1>5
    <2>2. rest \in Seq(Speeches) /\ ToSet(rest) = ToSet(queue) \ lost
      BY <1>4 DEF Arranges
    <2>3. \A i \in DOMAIN rest : rest[i] < received
      BY <1>5, <2>2, Members
    <2> QED
      BY <1>1, <1>2, <1>4, <2>1, <2>2, <2>3, AppendArranges, AppendAscends
  <1>7. ToSet(queue') = (ToSet(queue) \ lost) \union {received}
    BY <1>6 DEF Arranges
  <1>8. DeliveryTypes'
    <2>1. dropped' \subseteq Speeches
      BY <1>1, <1>2, <1>3, <1>4 DEF DeliveryTypes
    <2>2. UNCHANGED <<voices, wants, received, active, at, onAir, begun, played, submitted>>
      BY <1>1 DEF vars, activeVars
    <2> QED
      BY <1>1, <1>2, <2>1, <2>2 DEF DeliveryTypes
  <1>9. Placed'
    <2>1. Told' = Told /\ acks' = acks /\ active' = active
      BY <1>1 DEF Told, activeVars
    <2>2. ASSUME NEW r \in Speeches PROVE Places(r)' = One(r <= received)'
      <3>1. r # 0 /\ Places(r) = One(r <= received)
        BY <1>2, Arrivals DEF Placed
      <3> QED
        BY <1>1, <1>2, <1>4, <1>7, <2>1, <3>1 DEF Places, One
    <2>3. Arranges(queue', ToSet(queue'))
      BY <1>6, <1>7
    <2> QED
      BY <1>2, <2>1, <2>2, <2>3 DEF Placed
  <1>10. InTurn'
    <2>1. UNCHANGED <<request, begun, received>>
      BY <1>1 DEF vars
    <2>2. ASSUME NEW i \in DOMAIN begun, NEW r \in ToSet(queue'), begun[i] > r
          PROVE  Overtakes(begun[i], r)
      <3>1. begun[i] <= received /\ begun[i] \in Nat
        BY <1>2, Members, Arrivals DEF InTurn, DeliveryTypes
      <3>2. r \in ToSet(queue)
        BY <1>2, <1>7, <2>2, <3>1
      <3> QED
        BY <1>2, <2>2, <3>2 DEF InTurn
    <2> QED
      BY <1>2, <1>6, <2>1, <2>2 DEF InTurn, Overtakes
  <1>11. Truthful'
    BY <1>1, TruthStands DEF activeVars
  <1> QED
    BY <1>8, <1>9, <1>10, <1>11 DEF Delivered

\* take_atc_reply and start_atc_reply: the k-th of the queue is taken, what was on
\* the air is answered, and the one taken is answered or put on the air.
LEMMA BeginKeeps ==
    ASSUME NEW k \in 1..Len(queue), NEW before, DeliveryInvariant,
           before = IF active = 0 THEN <<>>
                    ELSE <<Ack(active, FALSE, "preempted_by_urgent_speech")>>,
           Take(k), Start(queue[k], before),
           UNCHANGED <<voices, wants, vars, receiverVars>>,
           \A m \in 1..Len(queue) : m < k => Overtakes(queue[k], queue[m])
    PROVE  Delivered'
  <1> DEFINE r0 == queue[k]
             ledger == acks \o before
             off == IF active = 0 THEN {} ELSE {active}
             now == IF Spoken(r0) THEN {} ELSE {r0}
  <1>1. /\ queue' = RemoveAt(queue, k) /\ begun' = Append(begun, r0)
        /\ acks' = ledger \o AcknowledgedAtOnce(r0)
        /\ active' = IF Spoken(r0) THEN r0 ELSE 0
        /\ at' = IF Spoken(r0) THEN "advancing" ELSE "frame"
        /\ onAir' = FALSE /\ played' = played
        /\ UNCHANGED <<voices, wants, request, submitted, made, finished, failed,
                      received, incoming, dropped>>
    BY DEF Take, Start, vars, receiverVars
  <1>2. /\ DeliveryTypes /\ Placed /\ InTurn /\ Truthful
        /\ Arranges(queue, ToSet(queue)) /\ Answers(acks, Told) /\ Ascends(queue)
        /\ queue \in Seq(Speeches)
    BY DEF DeliveryInvariant, Delivered, Placed, InTurn, Arranges
  <1>3. /\ r0 \in ToSet(queue) /\ r0 \in Speeches /\ r0 # 0
        /\ \A m \in 1..Len(queue) : queue[m] = r0 => m = k
    BY <1>2, Members, Arrivals DEF Arranges
  <1>4. /\ Arranges(queue', ToSet(queue) \ {r0}) /\ Ascends(queue')
        /\ ToSet(queue') = ToSet(queue) \ {r0}
    <2>1. Arranges(queue', ToSet(queue) \ {r0}) /\ Ascends(queue')
      BY <1>1, <1>2, RemoveArranges, RemoveAscends
    <2> QED
      BY <2>1 DEF Arranges
  <1>5. /\ \A r \in Speeches : Places(r) = One(r <= received)
        /\ active \in Speeches \union {0} /\ received \in Nat
    BY <1>2, Arrivals DEF Placed, DeliveryTypes
  <1>6. /\ off \intersect Told = {} /\ r0 \notin Told \union off
        /\ \A r \in Speeches : (active = r) <=> (r \in off)
    <2>1. active # 0 => active \notin Told
      BY <1>5 DEF Places, One
    <2>2. r0 \notin Told /\ r0 # active
      BY <1>3, <1>5 DEF Places, One
    <2> QED
      BY <1>5, <2>1, <2>2, Arrivals
  <1>7. /\ Answers(ledger, Told \union off)
        /\ \A a \in ToSet(ledger) : a \in ToSet(acks) \/ a.ack_basis \in Plain
    <2>1. CASE active = 0
      <3>1. ledger = acks /\ Told \union off = Told
        BY <1>2, <2>1, ConcatEmptySeq DEF Answers
      <3> QED
        BY <1>2, <3>1
    <2>2. CASE active # 0
      <3> DEFINE a0 == Ack(active, FALSE, "preempted_by_urgent_speech")
      <3>1. /\ a0 \in Acks /\ a0.reply = active /\ a0.ack_basis \in Plain
            /\ before = <<a0>>
        BY <1>5, <2>2 DEF Ack, Acks, Basis, Plain
      <3> HIDE DEF a0
      <3>2. ledger = Append(acks, a0)
        BY <1>2, <3>1, AppendIsConcat DEF Answers
      <3>3. /\ Answers(Append(acks, a0), Told \union {a0.reply})
            /\ ToSet(Append(acks, a0)) = ToSet(acks) \union {a0}
        <4>1. Answers(acks, Told) /\ a0 \in Acks /\ a0.reply \notin Told
          BY <1>2, <1>6, <2>2, <3>1
        <4> QED
          BY ONLY <4>1, AnswerAdded
      <3> QED
        BY <2>2, <3>1, <3>2, <3>3
    <2> QED
      BY <2>1, <2>2
  <1> HIDE DEF r0, ledger, off
  <1>8. /\ Answers(acks', (Told \union off) \union now)
        /\ \A a \in ToSet(acks') : a \in ToSet(acks) \/ a.ack_basis \in Plain
    BY <1>1, <1>2, <1>3, <1>6, <1>7, AnswerConcatenated
  <1>9. Told' = (Told \union off) \union now
    BY <1>8 DEF Answers, Told
  <1>10. DeliveryTypes'
    <2>1. begun' \in Seq(Speeches)
      BY <1>1, <1>2, <1>3, AppendProperties DEF DeliveryTypes
    <2> QED
      BY <1>1, <1>2, <1>3, <2>1 DEF DeliveryTypes
  <1>11. Placed'
    <2>1. ASSUME NEW r \in Speeches PROVE Places(r)' = One(r <= received)'
      <3>1. r # 0
        BY Arrivals
      <3>2. CASE Spoken(r0)
        BY <1>1, <1>3, <1>4, <1>5, <1>6, <1>9, <3>1, <3>2 DEF Places, One
      <3>3. CASE ~Spoken(r0)
        BY <1>1, <1>3, <1>4, <1>5, <1>6, <1>9, <3>1, <3>3 DEF Places, One
      <3> QED
        BY <3>2, <3>3
    <2>2. Arranges(queue', ToSet(queue')) /\ Answers(acks', Told')
      BY <1>4, <1>8, <1>9
    <2> QED
      BY <2>1, <2>2 DEF Placed
  <1>12. InTurn'
    <2>1. /\ Len(begun) \in Nat /\ DOMAIN begun = 1..Len(begun)
          /\ \A i \in 1..Len(begun) : begun'[i] = begun[i] /\ begun[i] \in Nat
          /\ begun'[Len(begun) + 1] = r0 /\ DOMAIN begun' = 1..(Len(begun) + 1)
      <3>1. begun \in Seq(Speeches)
        BY <1>2 DEF DeliveryTypes
      <3>2. begun' \in Seq(Speeches) /\ Len(begun') = Len(begun) + 1
        BY <1>1, <1>3, <3>1, AppendProperties
      <3> QED
        BY <1>1, <1>3, <3>1, <3>2, AppendProperties, Members, Arrivals
    <2>2. r0 <= received
      BY <1>3, <1>5 DEF Places, One
    <2>3. ASSUME NEW r \in ToSet(queue'), r0 > r PROVE Overtakes(r0, r)
      <3>1. PICK m \in 1..Len(queue) : r = queue[m]
        BY <1>2, <1>4, <2>3, Members
      <3>2. m < k
        <4>1. /\ DOMAIN queue = 1..Len(queue) /\ Len(queue) \in Nat /\ r0 = queue[k]
              /\ r \in Nat /\ r0 \in Nat
          BY <1>2, <1>3, <1>4, Members, Arrivals DEF r0
        <4>2. ~(k < m)
          BY <1>2, <2>3, <3>1, <4>1 DEF Ascends
        <4>3. m # k
          BY <2>3, <3>1, <4>1
        <4> QED
          BY <4>1, <4>2, <4>3
      <3> QED
        BY <3>1, <3>2 DEF r0
    <2>4. \A i \in 1..Len(begun) : begun[i] > r0 => Overtakes(begun[i], r0)
      BY <1>2, <1>3, <2>1 DEF InTurn
    <2>5. \A r, older : Overtakes(r, older)' = Overtakes(r, older)
      BY <1>1 DEF Overtakes
    <2>6. \A i \in DOMAIN begun' : begun'[i] <= received'
      BY <1>1, <1>2, <2>1, <2>2 DEF InTurn
    <2>7. ASSUME NEW i \in DOMAIN begun', NEW r \in ToSet(queue'), begun'[i] > r
          PROVE  Overtakes(begun'[i], r)
      BY <1>2, <1>4, <2>1, <2>3, <2>7 DEF InTurn
    <2>8. ASSUME NEW i \in DOMAIN begun', NEW j \in DOMAIN begun', i < j, begun'[i] > begun'[j]
          PROVE  Overtakes(begun'[i], begun'[j])
      <3>1. i \in 1..Len(begun)
        BY <2>1, <2>8
      <3>2. j \in 1..Len(begun) \/ j = Len(begun) + 1
        BY <2>1
      <3> QED
        BY <1>2, <2>1, <2>4, <2>8, <3>1, <3>2 DEF InTurn
    <2> QED
      BY <1>1, <1>4, <2>6, <2>7, <2>8 DEF InTurn, Overtakes
  <1>13. Truthful'
    <2>1. ASSUME NEW a \in ToSet(acks') PROVE Fits(a)'
      <3>1. Fits(a)
        BY <1>2, <1>8 DEF Truthful, Fits, Plain
      <3> QED
        BY <1>1, <3>1 DEF Fits
    <2> QED
      BY <1>1, <1>2, <2>1 DEF Truthful
  <1> QED
    BY <1>10, <1>11, <1>12, <1>13 DEF Delivered

LEMMA FirstUrgent ==
    ASSUME queue \in Seq(Speeches), Urgent # {}
    PROVE  /\ First(Urgent) \in 1..Len(queue) /\ request[queue[First(Urgent)]].urgent
           /\ \A m \in 1..Len(queue) : m < First(Urgent) => ~request[queue[m]].urgent
  <1>1. DOMAIN queue = 1..Len(queue) /\ Len(queue) \in Nat
    BY Members
  <1>2. Urgent \subseteq Nat /\ Urgent \subseteq 1..Len(queue)
    BY <1>1 DEF Urgent
  <1>3. PICK i \in Urgent : \A j \in Urgent : ~(<<j, i>> \in OpToRel(<, Nat))
    BY <1>2, NatLessThanWellFounded, WFMin, Zenon
  <1>4. \A j \in Urgent : ~(j < i)
    BY <1>2, <1>3 DEF OpToRel
  <1>5. \A j \in Urgent : i <= j
    BY <1>2, <1>4
  <1>6. First(Urgent) \in Urgent /\ \A j \in Urgent : First(Urgent) <= j
    BY <1>5 DEF First
  <1>7. \A m \in 1..Len(queue) : request[queue[m]].urgent => m \in Urgent
    BY <1>1 DEF Urgent
  <1>8. request[queue[First(Urgent)]].urgent
    BY <1>6 DEF Urgent
  <1> QED
    BY <1>2, <1>6, <1>7, <1>8

LEMMA PreemptKeeps == ASSUME DeliveryInvariant, Preempt PROVE Delivered'
  <1> DEFINE k == First(Urgent)
             before == <<Ack(active, FALSE, "preempted_by_urgent_speech")>>
  <1>1. /\ active # 0 /\ Urgent # {} /\ Take(k) /\ Start(queue[k], before)
        /\ UNCHANGED <<voices, wants, vars, receiverVars>>
    BY DEF Preempt
  <1>2. queue \in Seq(Speeches)
    BY DEF DeliveryInvariant, Delivered, Placed, Arranges
  <1>3. k \in 1..Len(queue) /\ \A m \in 1..Len(queue) : m < k => Overtakes(queue[k], queue[m])
    BY <1>1, <1>2, FirstUrgent DEF Overtakes
  <1>4. before = IF active = 0 THEN <<>>
                 ELSE <<Ack(active, FALSE, "preempted_by_urgent_speech")>>
    BY <1>1
  <1> HIDE DEF k, before
  <1> QED
    BY <1>1, <1>3, <1>4, BeginKeeps

LEMMA TakeNextKeeps == ASSUME DeliveryInvariant, TakeNext PROVE Delivered'
  <1>1. /\ active = 0 /\ queue # <<>> /\ Take(1) /\ Start(Head(queue), <<>>)
        /\ UNCHANGED <<voices, wants, vars, receiverVars>>
    BY DEF TakeNext
  <1>2. queue \in Seq(Speeches) /\ Len(queue) \in Nat
    BY Members DEF DeliveryInvariant, Delivered, Placed, Arranges
  <1>3. 1 \in 1..Len(queue) /\ Head(queue) = queue[1]
    BY <1>1, <1>2, EmptySeq
  <1>4. \A m \in 1..Len(queue) : m < 1 => Overtakes(queue[1], queue[m])
    BY <1>2
  <1> DEFINE before == <<>>
  <1>5. Start(queue[1], before) /\ before = IF active = 0 THEN <<>>
                 ELSE <<Ack(active, FALSE, "preempted_by_urgent_speech")>>
    BY <1>1, <1>3
  <1> HIDE DEF before
  <1> QED
    BY <1>1, <1>3, <1>4, <1>5, BeginKeeps

\* finish_active_speech with what is so of the reply on the air.
LEMMA FinishDelivered ==
    ASSUME NEW ok \in BOOLEAN, NEW basis \in Basis,
           DeliveryInvariant, active # 0, FinishActive(ok, basis), Fits(Ack(active, ok, basis)),
           UNCHANGED <<voices, wants, vars, receiverVars, queue, played, begun>>
    PROVE  Delivered'
  <1> DEFINE a0 == Ack(active, ok, basis)
  <1>1. /\ acks' = Append(acks, a0) /\ active' = 0 /\ at' = "frame" /\ onAir' = FALSE
        /\ UNCHANGED <<voices, wants, request, submitted, made, finished, failed,
                      received, incoming, dropped, queue, played, begun>>
    BY DEF FinishActive, vars, receiverVars
  <1>2. /\ DeliveryTypes /\ Placed /\ InTurn /\ Truthful /\ Answers(acks, Told)
        /\ Fits(a0) /\ active \in Speeches
        /\ \A r \in Speeches : Places(r) = One(r <= received)
    BY DEF DeliveryInvariant, Delivered, DeliveryTypes, Placed
  <1>3. active \notin Told
    BY <1>2 DEF Places, One
  <1>4. a0 \in Acks /\ a0.reply = active
    BY <1>2 DEF Ack, Acks
  <1> HIDE DEF a0
  <1>5. /\ Answers(acks', Told \union {active}) /\ ToSet(acks') = ToSet(acks) \union {a0}
        /\ Told' = Told \union {active}
    <2>1. Answers(acks', Told \union {active}) /\ ToSet(acks') = ToSet(acks) \union {a0}
      <3>1. a0.reply \notin Told /\ acks' = Append(acks, a0)
        BY <1>1, <1>3, <1>4
      <3>2. /\ Answers(Append(acks, a0), Told \union {a0.reply})
            /\ ToSet(Append(acks, a0)) = ToSet(acks) \union {a0}
        BY ONLY <1>2, <1>4, <3>1, AnswerAdded
      <3> QED
        BY <1>4, <3>1, <3>2
    <2> QED
      BY <2>1 DEF Answers, Told
  <1>6. DeliveryTypes'
    BY <1>1, <1>2 DEF DeliveryTypes
  <1>7. Placed'
    <2>1. ASSUME NEW r \in Speeches PROVE Places(r)' = One(r <= received)'
      <3>1. r # 0
        BY Arrivals
      <3> QED
        BY <1>1, <1>2, <1>5, <3>1 DEF Places, One
    <2> QED
      BY <1>1, <1>2, <1>5, <2>1 DEF Placed
  <1>8. InTurn'
    BY <1>1, <1>2 DEF InTurn, Overtakes
  <1>9. Truthful'
    <2>1. ASSUME NEW a \in ToSet(acks') PROVE Fits(a)'
      <3>1. Fits(a)
        BY <1>2, <1>5 DEF Truthful
      <3> QED
        BY <1>1, <3>1 DEF Fits
    <2> QED
      BY <1>1, <1>2, <2>1 DEF Truthful
  <1> QED
    BY <1>6, <1>7, <1>8, <1>9 DEF Delivered

LEMMA PlayKeeps == ASSUME DeliveryInvariant, PlaySentence PROVE Delivered'
  <1>1. /\ at = "advancing" /\ played[active] < made[active]
        /\ UNCHANGED <<voices, wants, vars, receiverVars, queue, begun>>
    BY DEF PlaySentence
  <1>2. /\ DeliveryTypes /\ Placed /\ InTurn /\ Truthful
        /\ active # 0 /\ active \in Speeches
        /\ \A r \in Speeches : Places(r) = One(r <= received)
    BY <1>1 DEF DeliveryInvariant, Delivered, DeliveryTypes, Placed
  <1>3. CASE FinishActive(FALSE, "radio_refused_audio") /\ UNCHANGED played
    <2>1. "radio_refused_audio" \in Basis /\ Fits(Ack(active, FALSE, "radio_refused_audio"))
      BY DEF Basis, Plain, Fits, Ack
    <2> QED
      BY <1>1, <1>2, <1>3, <2>1, FinishDelivered
  <1>4. CASE /\ played' = [played EXCEPT ![active] = @ + 1]
             /\ onAir' = TRUE /\ at' = "frame" /\ UNCHANGED <<active, late, acks>>
    <2>1. UNCHANGED <<voices, wants, request, submitted, made, finished, failed,
                      received, incoming, dropped, queue, active, acks, begun>>
      BY <1>1, <1>4 DEF vars, receiverVars
    <2>2. /\ played \in [Speeches -> Nat]
          /\ played' \in [Speeches -> Nat] /\ played'[active] = played[active] + 1
          /\ \A r \in Speeches : r # active => played'[r] = played[r]
      BY <1>2, <1>4 DEF DeliveryTypes
    <2>3. DeliveryTypes'
      BY <1>2, <1>4, <2>1, <2>2 DEF DeliveryTypes
    <2>4. Placed'
      BY <1>2, <2>1 DEF Placed, Places, Told
    <2>5. InTurn'
      BY <1>2, <2>1 DEF InTurn, Overtakes
    <2>6. Truthful'
      <3>1. \A r \in Speeches : made[r] \in Nat
        BY SynthesisAssumption DEF DeliveryInvariant, IInv, TypeOK, SynthesisAssumption
      <3>2. \A r \in Speeches : played'[r] <= made[r] /\ made[r] <= request[r].sentences
        BY <1>1, <1>2, <2>2, <3>1 DEF Truthful
      <3>3. ASSUME NEW a \in ToSet(acks) PROVE Fits(a)'
        <4>1. a.reply \in Speeches /\ a.reply \in Told
          <5>1. acks \in Seq(Acks) /\ DOMAIN acks = 1..Len(acks)
            BY <1>2, LenProperties DEF Placed, Answers
          <5>2. PICK i \in 1..Len(acks) : a = acks[i]
            BY <3>3, <5>1 DEF ToSet
          <5>3. a \in Acks
            BY <5>1, <5>2, ElementOfSeq
          <5> QED
            BY <5>1, <5>2, <5>3 DEF Told, Acks
        <4>2. a.reply # active
          BY <1>2, <4>1 DEF Places, One
        <4>3. Fits(a)
          BY <1>2, <3>3 DEF Truthful
        <4> QED
          BY <2>1, <2>2, <4>1, <4>2, <4>3 DEF Fits
      <3> QED
        BY <1>2, <1>4, <2>1, <2>2, <3>2, <3>3 DEF Truthful
    <2> QED
      BY <2>3, <2>4, <2>5, <2>6 DEF Delivered
  <1> QED
    BY <1>3, <1>4 DEF PlaySentence

\* The verdict on a speech none of whose sentences is ready.
LEMMA DecideKeeps == ASSUME DeliveryInvariant, Decide PROVE Delivered'
  <1>1. /\ at = "deciding" /\ Verdict
        /\ UNCHANGED <<voices, wants, vars, receiverVars, queue, played, begun>>
    BY DEF Decide
  <1>2. /\ DeliveryTypes /\ active # 0 /\ active \in Speeches /\ played[active] \in Nat
    BY <1>1 DEF DeliveryInvariant, Delivered, DeliveryTypes
  <1>3. ASSUME NEW ok \in BOOLEAN, NEW basis \in Basis, FinishActive(ok, basis),
               basis = "synthesized_playback_elapsed" => played[active] > 0 /\ active \in finished \ failed,
               basis \in {"synthesis_timed_out", "synthesis_failed"} => played[active] = 0
        PROVE  Delivered'
    <2>1. Fits(Ack(active, ok, basis))
      BY <1>3 DEF Fits, Ack
    <2> QED
      BY <1>1, <1>2, <1>3, <2>1, FinishDelivered
  <1>4. ASSUME NEW ok \in BOOLEAN, FinishActive(ok, "synthesis_failed"), played[active] = 0
        PROVE  Delivered'
    <2> DEFINE basis == "synthesis_failed"
    <2>1. basis \in Basis /\ basis # "synthesized_playback_elapsed" /\ FinishActive(ok, basis)
      BY <1>4 DEF Basis
    <2> HIDE DEF basis
    <2> QED
      BY <1>3, <1>4, <2>1
  <1>5. ASSUME NEW ok \in BOOLEAN, FinishActive(ok, "synthesis_timed_out"), played[active] = 0
        PROVE  Delivered'
    <2> DEFINE basis == "synthesis_timed_out"
    <2>1. basis \in Basis /\ basis # "synthesized_playback_elapsed" /\ FinishActive(ok, basis)
      BY <1>5 DEF Basis
    <2> HIDE DEF basis
    <2> QED
      BY <1>3, <1>5, <2>1
  <1>6. ASSUME NEW ok \in BOOLEAN, FinishActive(ok, "synthesis_failed_partway")
        PROVE  Delivered'
    <2> DEFINE basis == "synthesis_failed_partway"
    <2>1. /\ basis \in Basis /\ basis # "synthesized_playback_elapsed" /\ FinishActive(ok, basis)
          /\ basis \notin {"synthesis_timed_out", "synthesis_failed"}
      BY <1>6 DEF Basis, Plain
    <2> HIDE DEF basis
    <2> QED
      BY <1>3, <2>1
  <1>7. ASSUME NEW ok \in BOOLEAN, FinishActive(ok, "synthesized_playback_elapsed"),
               played[active] # 0, active \in finished \ failed
        PROVE  Delivered'
    <2> DEFINE basis == "synthesized_playback_elapsed"
    <2>1. /\ basis \in Basis /\ FinishActive(ok, basis)
          /\ basis \notin {"synthesis_timed_out", "synthesis_failed"}
      BY <1>7 DEF Basis
    <2>2. played[active] > 0
      BY <1>2, <1>7
    <2> HIDE DEF basis
    <2> QED
      BY <1>3, <1>7, <2>1, <2>2
  <1>8. ASSUME at' = "frame", UNCHANGED <<active, onAir, late, acks>> PROVE Delivered'
    BY <1>1, <1>8 DEF DeliveryInvariant, Delivered, DeliveryTypes, Placed, Places, Told, InTurn,
         Overtakes, Truthful, Fits, vars, receiverVars
  <1> QED
    BY <1>1, <1>2, <1>4, <1>5, <1>6, <1>7, <1>8 DEF Verdict

\* The flight loop looks for the next sentence, and the clock.
LEMMA QuietKeeps ==
    ASSUME DeliveryInvariant,
           Advance \/ NoneReady \/ SentenceEnds \/ DeadlinePasses \/ UNCHANGED systemVars
    PROVE  Delivered'
  <1>1. /\ UNCHANGED <<voices, wants, vars, receiverVars, queue, active, played, acks, begun>>
        /\ at' \in {at, "advancing", "deciding"} /\ (at' # at => active # 0)
        /\ onAir' \in {onAir, FALSE}
    BY DEF Advance, NoneReady, SentenceEnds, DeadlinePasses, systemVars, deliveryVars,
           receiverVars, DeliveryInvariant, Delivered, DeliveryTypes
  <1>2. UNCHANGED <<request, submitted, made, finished, failed, received, incoming, dropped>>
    BY <1>1 DEF vars, receiverVars
  <1>3. DeliveryTypes'
    BY <1>1, <1>2 DEF DeliveryInvariant, Delivered, DeliveryTypes
  <1>4. Placed'
    BY <1>1, <1>2 DEF DeliveryInvariant, Delivered, Placed, Places, Told
  <1>5. InTurn'
    BY <1>1, <1>2 DEF DeliveryInvariant, Delivered, InTurn, Overtakes
  <1>6. Truthful'
    <2>1. Truthful
      BY DEF DeliveryInvariant, Delivered
    <2>2. ASSUME NEW a \in ToSet(acks) PROVE Fits(a)'
      BY <1>1, <1>2, <2>1, <2>2 DEF Truthful, Fits
    <2>3. onAir' => active' # 0 /\ played'[active'] > 0
      BY <1>1, <2>1 DEF Truthful
    <2>4. \A r \in Speeches : (played[r] <= made[r] /\ made[r] <= request[r].sentences)'
      BY <1>1, <1>2, <2>1 DEF Truthful
    <2> QED
      BY <1>1, <2>2, <2>3, <2>4 DEF Truthful
  <1> QED
    BY <1>3, <1>4, <1>5, <1>6 DEF Delivered

LEMMA DeliveryStep ==
    DeliveryInvariant /\ [DeliveryNext]_systemVars => DeliveryInvariant' /\ [Next]_vars
  <1> SUFFICES ASSUME DeliveryInvariant, [DeliveryNext]_systemVars
               PROVE  DeliveryInvariant' /\ [Next]_vars
    OBVIOUS
  <1>1. [Next]_vars
    BY StepOfTheQueue DEF DeliveryInvariant, Delivered
  <1>2. IInv'
    BY <1>1, StepInvariant DEF DeliveryInvariant
  <1>3. Delivered'
    BY SubmitsKeeps, QueuesKeeps, SynthesisKeeps, PreemptKeeps, TakeNextKeeps, PlayKeeps,
       DecideKeeps, QuietKeeps DEF DeliveryNext, FlightLoop
  <1> QED
    BY <1>1, <1>2, <1>3 DEF DeliveryInvariant

LEMMA DeliveryStarts == DeliveryInit => DeliveryInvariant
  <1> SUFFICES ASSUME DeliveryInit PROVE DeliveryInvariant
    OBVIOUS
  <1>1. /\ voices \in BOOLEAN /\ wants \in [Speeches -> ReplyKinds] /\ Init
        /\ received = 0 /\ incoming = 0 /\ queue = <<>> /\ active = 0 /\ at = "frame"
        /\ played = [r \in Speeches |-> 0] /\ onAir = FALSE
        /\ acks = <<>> /\ dropped = {} /\ begun = <<>>
    BY DEF DeliveryInit
  <1>2. /\ IInv /\ submitted = {} /\ made = [r \in Speeches |-> 0]
        /\ request \in [Speeches -> Requests]
    BY <1>1, InitInvariant DEF Init, InitEmpty
  <1>3. /\ Arranges(queue, {}) /\ ToSet(queue) = {} /\ Answers(acks, {}) /\ Told = {}
        /\ ToSet(acks) = {} /\ begun \in Seq(Speeches)
    <2>1. Answers(<<>>, {})
      BY EmptySeq DEF Answers
    <2> QED
      BY <1>1, <2>1, EmptyArranges, EmptySeq DEF Arranges, Answers, Told, ToSet
  <1>4. DeliveryTypes
    <2>1. played \in [Speeches -> Nat] /\ received \in 0..MaxReplies /\ submitted \subseteq 1..received
      BY <1>1, <1>2, Arrivals
    <2> QED
      BY <1>1, <1>3, <2>1 DEF DeliveryTypes
  <1>5. Placed
    <2>1. ASSUME NEW r \in Speeches PROVE Places(r) = One(r <= received)
      <3>1. r # 0 /\ ~(r <= 0)
        BY Arrivals
      <3> QED
        BY <1>1, <1>3, <3>1 DEF Places, One
    <2> QED
      BY <1>3, <2>1 DEF Placed
  <1>6. InTurn
    BY <1>1, <1>3 DEF InTurn, Ascends
  <1>7. Truthful
    <2>1. \A r \in Speeches : request[r].sentences \in Nat
      BY <1>2, SynthesisAssumption DEF Requests, SynthesisAssumption
    <2> QED
      BY <1>1, <1>2, <1>3, <2>1 DEF Truthful
  <1> QED
    BY <1>2, <1>4, <1>5, <1>6, <1>7 DEF DeliveryInvariant, Delivered

LEMMA DeliveryInvariance == DeliverySpec => []DeliveryInvariant /\ Spec
  <1>1. DeliveryInit => Init
    BY DEF DeliveryInit
  <1> QED
    BY <1>1, DeliveryStarts, DeliveryStep, PTL DEF DeliverySpec, Spec

\* The receiver thread and the flight loop use the synthesis queue as its own
\* specification lets its users: what is proved of it holds in the system.
THEOREM DeliveryUsesTheQueue == DeliverySpec => Spec
  BY DeliveryInvariance, PTL

\* The variables of the queues, the flight loop and the radio keep their types.
THEOREM DeliveryTypeCorrect == DeliverySpec => []DeliveryTypes
  <1>1. DeliveryInvariant => DeliveryTypes
    BY DEF DeliveryInvariant, Delivered
  <1> QED
    BY <1>1, DeliveryInvariance, PTL

\* No reply is lost, taken twice or acknowledged twice, whatever overflows and
\* whatever urgent reply takes another one's place on the air.
THEOREM RepliesInOnePlace == DeliverySpec => []EachReplyInOnePlace
  <1>1. ASSUME DeliveryInvariant PROVE EachReplyInOnePlace
    <2>1. ASSUME NEW r \in 1..received
          PROVE  One(incoming = r) + One(active = r) + One(r \in dropped)
                   + Cardinality({i \in DOMAIN queue : queue[i] = r})
                   + Cardinality({i \in DOMAIN acks : acks[i].reply = r}) = 1
      <3>1. /\ Arranges(queue, ToSet(queue)) /\ Answers(acks, Told)
            /\ received \in 0..MaxReplies
            /\ \A t \in Speeches : Places(t) = One(t <= received)
        BY <1>1 DEF DeliveryInvariant, Delivered, Placed, DeliveryTypes
      <3>2. r \in Speeches /\ r <= received
        BY <2>1, <3>1, Arrivals
      <3>3. Cardinality({i \in DOMAIN queue : queue[i] = r}) = One(r \in ToSet(queue))
        BY <3>1, CountedOnce
      <3>4. Cardinality({i \in DOMAIN acks : acks[i].reply = r}) = One(r \in Told)
        BY <3>1, AnswersCounted
      <3> QED
        BY <3>1, <3>2, <3>3, <3>4 DEF Places, One
    <2> QED
      BY <2>1 DEF EachReplyInOnePlace
  <1> QED
    BY <1>1, DeliveryInvariance, PTL

\* What the console is told of a reply is what became of it, and no sentence is
\* played that was not made, for any number of replies and sentences.
THEOREM AcksAreTruthful == DeliverySpec => []AckFitsPlayback
  <1>1. ASSUME DeliveryInvariant PROVE AckFitsPlayback
    <2>1. Truthful
      BY <1>1 DEF DeliveryInvariant, Delivered
    <2>2. \A i \in DOMAIN acks : Fits(acks[i])
      BY <2>1 DEF Truthful, ToSet
    <2> QED
      BY <2>1, <2>2 DEF Truthful, Fits, AckFitsPlayback
  <1> QED
    BY <1>1, DeliveryInvariance, PTL

\* A reply is begun in its turn or is urgent, for any number of replies.
THEOREM OnlyUrgentAreEarly == DeliverySpec => []OnlyUrgentOvertakes
  <1>1. DeliveryInvariant => OnlyUrgentOvertakes
    BY DEF DeliveryInvariant, Delivered, InTurn, Overtakes, OnlyUrgentOvertakes
  <1> QED
    BY <1>1, DeliveryInvariance, PTL
-----------------------------------------------------------------------------
(* The system keeps the ledger of ReplyLedger. *)

LEMMA OneMember ==
    ASSUME NEW a \in Acks PROVE <<a>> \in Seq(Acks) /\ ToSet(<<a>>) = {a}
  <1>1. DOMAIN <<a>> = {1} /\ <<a>>[1] = a
    OBVIOUS
  <1>2. ToSet(<<a>>) = {a}
    BY <1>1 DEF ToSet
  <1> QED
    BY <1>2

LEMMA ConcatenatedMembers ==
    ASSUME NEW s \in Seq(Acks), NEW t \in Seq(Acks)
    PROVE  ToSet(s \o t) = ToSet(s) \union ToSet(t)
  <1> DEFINE m == Len(s)
             n == Len(t)
             both == s \o t
  <1>1. /\ m \in Nat /\ n \in Nat /\ DOMAIN s = 1..m /\ DOMAIN t = 1..n
        /\ both \in Seq(Acks) /\ Len(both) = m + n
        /\ \A i \in 1..m : both[i] = s[i]
        /\ \A i \in 1..n : both[m + i] = t[i]
    BY ConcatProperties, LenProperties
  <1>2. DOMAIN both = 1..(m + n)
    BY <1>1, LenProperties
  <1> HIDE DEF m, n, both
  <1>3. \A i \in 1..m : i \in 1..(m + n)
    BY <1>1
  <1>4. \A i \in 1..n : m + i \in 1..(m + n)
    BY <1>1
  <1>5. ASSUME NEW i \in 1..(m + n) PROVE i \in 1..m \/ \E j \in 1..n : i = m + j
    <2>1. CASE i <= m
      BY <1>1, <2>1
    <2>2. CASE ~(i <= m)
      <3>1. i - m \in 1..n /\ i = m + (i - m)
        BY <1>1, <2>2
      <3> QED
        BY <3>1
    <2> QED
      BY <2>1, <2>2
  <1>6. ToSet(both) \subseteq ToSet(s) \union ToSet(t)
    <2>1. ASSUME NEW i \in 1..(m + n) PROVE both[i] \in ToSet(s) \union ToSet(t)
      <3>1. CASE i \in 1..m
        BY <1>1, <3>1 DEF ToSet
      <3>2. CASE \E j \in 1..n : i = m + j
        BY <1>1, <3>2 DEF ToSet
      <3> QED
        BY <1>5, <3>1, <3>2
    <2> QED
      BY <1>2, <2>1 DEF ToSet
  <1>7. ToSet(s) \subseteq ToSet(both)
    BY <1>1, <1>2, <1>3 DEF ToSet
  <1>8. ToSet(t) \subseteq ToSet(both)
    BY <1>1, <1>2, <1>4 DEF ToSet
  <1> QED
    BY <1>6, <1>7, <1>8 DEF both

\* What the console was told, by the acknowledgements it was sent.
LEMMA ToldMore ==
    ASSUME NEW more, ToSet(acks') = ToSet(acks) \union more
    PROVE  /\ Told' = Told \union {a.reply : a \in more}
           /\ Believed' = Believed \union {a.reply : a \in {b \in more : b.ok}}
  <1>1. /\ Told = {a.reply : a \in ToSet(acks)}
        /\ Believed = {a.reply : a \in {b \in ToSet(acks) : b.ok}}
    BY DEF Told, Believed, ToSet
  <1>2. /\ Told' = {a.reply : a \in ToSet(acks')}
        /\ Believed' = {a.reply : a \in {b \in ToSet(acks') : b.ok}}
    BY DEF Told, Believed, ToSet
  <1> QED
    BY <1>1, <1>2

\* What is queued, and what is being queued, waits in the ledger.
LEMMA QueuedWait ==
    ASSUME DeliveryInvariant
    PROVE  ToSet(queue) \subseteq Ledger!Waiting
  <1>1. /\ Placed /\ DeliveryTypes /\ ToSet(queue) \subseteq Speeches
        /\ received \in Nat /\ \A r \in Speeches : r \in Nat
    BY Members, Arrivals DEF DeliveryInvariant, Delivered, DeliveryTypes, Placed, Arranges
  <1>2. ASSUME NEW r \in ToSet(queue)
        PROVE  r <= received /\ r # active /\ r \notin dropped /\ r \notin Told
    BY <1>1, <1>2 DEF Placed, Places, One
  <1> QED
    BY <1>1, <1>2 DEF Ledger!Waiting

LEMMA SpokenStands ==
    ASSUME UNCHANGED <<voices, wants>> PROVE ToSpeak' = ToSpeak
  BY DEF ToSpeak, Spoken

LEMMA SubmitsInLedger == ASSUME DeliveryInvariant, ReceiverSubmits PROVE Ledger!Arrive
  <1>1. /\ received < MaxReplies /\ received' = received + 1
        /\ UNCHANGED <<voices, wants, activeVars, dropped>>
    BY DEF ReceiverSubmits
  <1>2. received + 1 \in Speeches
    BY <1>1, Arrivals DEF DeliveryInvariant, Delivered, DeliveryTypes
  <1>3. UNCHANGED <<ToSpeak, active, Heard, dropped, Told, Believed>>
    BY <1>1, SpokenStands DEF activeVars, Heard, Told, Believed
  <1> QED
    BY <1>1, <1>2, <1>3 DEF Ledger!Arrive

LEMMA QueuesInLedger ==
    ASSUME DeliveryInvariant, ReceiverQueues
    PROVE  Ledger!Drop \/ UNCHANGED Ledger!ledgerVars
  <1>1. /\ UNCHANGED <<voices, wants, received, activeVars>>
        /\ \/ dropped' = dropped
           \/ Len(queue) >= MaxQueuedReplies /\ dropped' = dropped \union {Head(queue)}
    BY DEF ReceiverQueues
  <1>2. UNCHANGED <<ToSpeak, received, active, Heard, Told, Believed>>
    BY <1>1, SpokenStands DEF activeVars, Heard, Told, Believed
  <1>3. ASSUME Len(queue) >= MaxQueuedReplies PROVE Head(queue) \in Ledger!Waiting
    <2>1. Arranges(queue, ToSet(queue)) /\ queue \in Seq(Speeches)
      BY DEF DeliveryInvariant, Delivered, Placed, Arranges
    <2>2. queue # <<>>
      BY <1>3, <2>1, Arrivals, EmptySeq
    <2>3. Head(queue) \in ToSet(queue)
      BY <2>1, <2>2, TailArranges
    <2> QED
      BY <2>3, QueuedWait
  <1>4. CASE dropped' = dropped
    BY <1>2, <1>4 DEF Ledger!ledgerVars
  <1>5. CASE Len(queue) >= MaxQueuedReplies /\ dropped' = dropped \union {Head(queue)}
    BY <1>2, <1>3, <1>5 DEF Ledger!Drop
  <1> QED
    BY <1>1, <1>4, <1>5

\* take_atc_reply and start_atc_reply: the reply taken is answered or goes on the
\* air, and the one that was on the air is answered, not as done.
LEMMA BeginInLedger ==
    ASSUME NEW k \in 1..Len(queue), NEW before, DeliveryInvariant,
           before = IF active = 0 THEN <<>>
                    ELSE <<Ack(active, FALSE, "preempted_by_urgent_speech")>>,
           Take(k), Start(queue[k], before),
           UNCHANGED <<voices, wants, vars, receiverVars>>
    PROVE  Ledger!Start \/ Ledger!Interrupt
  <1> DEFINE r0 == queue[k]
             off == IF active = 0 THEN {} ELSE {active}
             atOnce == AcknowledgedAtOnce(r0)
  <1>1. /\ acks' = acks \o before \o atOnce
        /\ active' = IF Spoken(r0) THEN r0 ELSE 0
        /\ UNCHANGED <<voices, wants, received, dropped, played>>
    BY DEF Start, receiverVars
  <1>2. /\ DeliveryTypes /\ acks \in Seq(Acks) /\ queue \in Seq(Speeches)
        /\ active \in Speeches \union {0}
    BY DEF DeliveryInvariant, Delivered, DeliveryTypes, Placed, Answers, Arranges
  <1>3. r0 \in Speeches /\ r0 \in Ledger!Waiting
    <2>1. r0 \in ToSet(queue) /\ r0 \in Speeches
      BY <1>2, Members
    <2> QED
      BY <2>1, QueuedWait
  <1>4. UNCHANGED <<ToSpeak, received, Heard, dropped>>
    BY <1>1, SpokenStands DEF Heard
  <1>5. /\ before \in Seq(Acks) /\ {a.reply : a \in ToSet(before)} = off
        /\ \A a \in ToSet(before) : ~a.ok
    <2>1. CASE active = 0
      <3>1. before = <<>> /\ ToSet(before) = {} /\ before \in Seq(Acks)
        BY <2>1, EmptySeq DEF ToSet
      <3> QED
        BY <2>1, <3>1
    <2>2. CASE active # 0
      <3> DEFINE a0 == Ack(active, FALSE, "preempted_by_urgent_speech")
      <3>1. a0 \in Acks /\ a0.reply = active /\ a0.ok = FALSE /\ before = <<a0>>
        BY <1>2, <2>2 DEF Ack, Acks, Basis, Plain
      <3> HIDE DEF a0
      <3>2. ToSet(before) = {a0} /\ before \in Seq(Acks)
        BY <3>1, OneMember
      <3> QED
        BY <2>2, <3>1, <3>2
    <2> QED
      BY <2>1, <2>2
  <1>6. IF Spoken(r0)
          THEN atOnce \in Seq(Acks) /\ ToSet(atOnce) = {}
          ELSE \E a \in Acks : a.reply = r0 /\ atOnce \in Seq(Acks) /\ ToSet(atOnce) = {a}
    <2>1. CASE Spoken(r0)
      <3>1. atOnce = <<>>
        BY <1>2, <1>3, <2>1, AnsweredAtOnce
      <3> QED
        BY <2>1, <3>1, EmptySeq DEF ToSet
    <2>2. CASE ~Spoken(r0)
      <3>1. PICK a \in Acks : a.reply = r0 /\ atOnce = <<a>>
        BY <1>2, <1>3, <2>2, AnsweredAtOnce
      <3>2. ToSet(atOnce) = {a} /\ atOnce \in Seq(Acks)
        BY <3>1, OneMember
      <3> QED
        BY <2>2, <3>1, <3>2
    <2> QED
      BY <2>1, <2>2
  <1> HIDE DEF r0, off, atOnce
  <1>7. ToSet(acks') = ToSet(acks) \union (ToSet(before) \union ToSet(atOnce))
    <2>1. acks \in Seq(Acks) /\ before \in Seq(Acks) /\ atOnce \in Seq(Acks)
      BY <1>2, <1>5, <1>6
    <2> DEFINE so == acks \o before
    <2>2. so \in Seq(Acks) /\ ToSet(so) = ToSet(acks) \union ToSet(before)
      BY <2>1, ConcatProperties, ConcatenatedMembers
    <2>3. acks' = so \o atOnce
      BY <1>1
    <2> HIDE DEF so
    <2>4. ToSet(acks') = ToSet(so) \union ToSet(atOnce)
      BY <2>1, <2>2, <2>3, ConcatenatedMembers
    <2> QED
      BY <2>2, <2>4
  <1>8. /\ Told' = Told \union {a.reply : a \in ToSet(before) \union ToSet(atOnce)}
        /\ Believed' = Believed \union
                         {a.reply : a \in {b \in ToSet(before) \union ToSet(atOnce) : b.ok}}
    BY <1>7, ToldMore
  <1>9. Ledger!Note(r0, off) \/ Ledger!Begin(r0, off)
    <2>1. CASE Spoken(r0)
      <3>1. r0 \in ToSpeak
        BY <1>3, <2>1 DEF ToSpeak
      <3>2. Told' = Told \union off /\ Believed' = Believed
        BY <1>5, <1>6, <1>8, <2>1
      <3>3. active' = r0
        BY <1>1, <2>1
      <3> QED
        BY <1>3, <3>1, <3>2, <3>3 DEF Ledger!Begin
    <2>2. CASE ~Spoken(r0)
      <3>1. r0 \notin ToSpeak
        BY <2>2 DEF ToSpeak
      <3>2. PICK a \in Acks : a.reply = r0 /\ ToSet(atOnce) = {a}
        BY <1>6, <2>2
      <3>3. Told' = Told \union off \union {r0}
        BY <1>5, <1>8, <3>2
      <3>4. Believed' \in {Believed, Believed \union {r0}}
        BY <1>5, <1>8, <3>2
      <3>5. active' = 0
        BY <1>1, <2>2
      <3> QED
        BY <1>3, <3>1, <3>3, <3>4, <3>5 DEF Ledger!Note
    <2> QED
      BY <2>1, <2>2
  <1>10. CASE active = 0
    BY <1>3, <1>4, <1>9, <1>10 DEF off, Ledger!Start
  <1>11. CASE active # 0
    BY <1>3, <1>4, <1>9, <1>11 DEF off, Ledger!Interrupt
  <1> QED
    BY <1>10, <1>11

\* finish_active_speech: only what was on the radio is answered as done.
LEMMA FinishInLedger ==
    ASSUME NEW ok \in BOOLEAN, NEW basis \in Basis,
           DeliveryInvariant, active # 0, FinishActive(ok, basis), ok => played[active] > 0,
           UNCHANGED <<voices, wants, receiverVars, played>>
    PROVE  Ledger!Finish
  <1> DEFINE a0 == Ack(active, ok, basis)
  <1>1. /\ acks' = Append(acks, a0) /\ active' = 0
        /\ UNCHANGED <<voices, wants, received, dropped, played>>
    BY DEF FinishActive, receiverVars
  <1>2. acks \in Seq(Acks) /\ active \in Speeches
    BY DEF DeliveryInvariant, Delivered, DeliveryTypes, Placed, Answers
  <1>3. a0 \in Acks /\ a0.reply = active /\ a0.ok = ok
    BY <1>2 DEF Ack, Acks
  <1> HIDE DEF a0
  <1> DEFINE one == <<a0>>
  <1>4. one \in Seq(Acks) /\ ToSet(one) = {a0}
    BY <1>3, OneMember
  <1>5. ToSet(acks') = ToSet(acks) \union {a0}
    <2>1. acks' = acks \o one
      BY <1>1, <1>2, <1>3, AppendIsConcat
    <2> HIDE DEF one
    <2> QED
      BY <1>2, <1>4, <2>1, ConcatenatedMembers
  <1>6. /\ Told' = Told \union {a.reply : a \in {a0}}
        /\ Believed' = Believed \union {a.reply : a \in {b \in {a0} : b.ok}}
    BY <1>5, ToldMore
  <1>7. Told' = Told \union {active}
    BY <1>3, <1>6
  <1>8. Believed' = IF ok THEN Believed \union {active} ELSE Believed
    BY <1>3, <1>6
  <1>9. ok => active \in Heard
    BY <1>2 DEF Heard
  <1>10. Believed' \in {Believed, Believed \union ({active} \intersect Heard)}
    BY <1>8, <1>9
  <1>11. UNCHANGED <<ToSpeak, received, Heard, dropped>>
    BY <1>1, SpokenStands DEF Heard
  <1> QED
    BY <1>1, <1>7, <1>10, <1>11 DEF Ledger!Finish

LEMMA PlayInLedger ==
    ASSUME DeliveryInvariant, PlaySentence
    PROVE  Ledger!Play \/ Ledger!Finish
  <1>1. /\ active # 0 /\ active \in Speeches /\ played \in [Speeches -> Nat]
        /\ UNCHANGED <<voices, wants, receiverVars>>
    BY DEF PlaySentence, DeliveryInvariant, Delivered, DeliveryTypes
  <1>2. CASE FinishActive(FALSE, "radio_refused_audio") /\ UNCHANGED played
    <2>1. "radio_refused_audio" \in Basis
      BY DEF Basis, Plain
    <2> QED
      BY <1>1, <1>2, <2>1, FinishInLedger
  <1>3. CASE played' = [played EXCEPT ![active] = @ + 1] /\ UNCHANGED <<active, acks>>
    <2>1. /\ played'[active] > 0
          /\ \A r \in Speeches : r # active => played'[r] = played[r]
      BY <1>1, <1>3
    <2>2. Heard' = Heard \union {active}
      BY <1>1, <2>1 DEF Heard
    <2>3. UNCHANGED <<ToSpeak, received, active, dropped, Told, Believed>>
      BY <1>1, <1>3, SpokenStands DEF receiverVars, Told, Believed
    <2> QED
      BY <1>1, <2>2, <2>3 DEF Ledger!Play
  <1> QED
    BY <1>2, <1>3 DEF PlaySentence

LEMMA DecideInLedger ==
    ASSUME DeliveryInvariant, Decide
    PROVE  Ledger!Finish \/ UNCHANGED Ledger!ledgerVars
  <1>1. /\ active # 0 /\ active \in Speeches /\ played[active] \in Nat
        /\ UNCHANGED <<voices, wants, receiverVars, played>>
        /\ \/ \E basis \in {"synthesis_failed", "synthesis_failed_partway",
                            "synthesis_timed_out"} : FinishActive(FALSE, basis)
           \/ FinishActive(TRUE, "synthesized_playback_elapsed") /\ played[active] # 0
           \/ UNCHANGED <<active, acks>>
    BY DEF Decide, Verdict, DeliveryInvariant, Delivered, DeliveryTypes
  <1>2. ASSUME NEW basis \in {"synthesis_failed", "synthesis_failed_partway",
                              "synthesis_timed_out"}, FinishActive(FALSE, basis)
        PROVE  Ledger!Finish
    <2>1. basis \in Basis
      BY <1>2 DEF Basis, Plain
    <2> QED
      BY <1>1, <1>2, <2>1, FinishInLedger
  <1>3. CASE FinishActive(TRUE, "synthesized_playback_elapsed") /\ played[active] # 0
    <2>1. "synthesized_playback_elapsed" \in Basis /\ played[active] > 0
      BY <1>1, <1>3 DEF Basis
    <2> QED
      BY <1>1, <1>3, <2>1, FinishInLedger
  <1>4. CASE UNCHANGED <<active, acks>>
    BY <1>1, <1>4, SpokenStands
       DEF Ledger!ledgerVars, receiverVars, Heard, Told, Believed
  <1> QED
    BY <1>1, <1>2, <1>3, <1>4

\* What the synthesis thread, a look at the radio and the clock do is not in it.
LEMMA QuietInLedger ==
    ASSUME SynthesisStep \/ Advance \/ NoneReady \/ SentenceEnds \/ DeadlinePasses
             \/ UNCHANGED systemVars
    PROVE  UNCHANGED Ledger!ledgerVars
  <1>1. UNCHANGED <<voices, wants, received, active, played, dropped, acks>>
    BY DEF SynthesisStep, Advance, NoneReady, SentenceEnds, DeadlinePasses, systemVars,
           deliveryVars, receiverVars, activeVars
  <1> QED
    BY <1>1, SpokenStands DEF Ledger!ledgerVars, Heard, Told, Believed

LEMMA PreemptInLedger ==
    ASSUME DeliveryInvariant, Preempt PROVE Ledger!Start \/ Ledger!Interrupt
  <1> DEFINE k == First(Urgent)
             before == <<Ack(active, FALSE, "preempted_by_urgent_speech")>>
  <1>1. /\ active # 0 /\ Urgent # {} /\ Take(k) /\ Start(queue[k], before)
        /\ UNCHANGED <<voices, wants, vars, receiverVars>>
    BY DEF Preempt
  <1>2. queue \in Seq(Speeches)
    BY DEF DeliveryInvariant, Delivered, Placed, Arranges
  <1>3. k \in 1..Len(queue)
    BY <1>1, <1>2, FirstUrgent
  <1>4. before = IF active = 0 THEN <<>>
                 ELSE <<Ack(active, FALSE, "preempted_by_urgent_speech")>>
    BY <1>1
  <1> HIDE DEF k, before
  <1> QED
    BY <1>1, <1>3, <1>4, BeginInLedger

LEMMA TakeNextInLedger ==
    ASSUME DeliveryInvariant, TakeNext PROVE Ledger!Start \/ Ledger!Interrupt
  <1> DEFINE before == <<>>
  <1>1. /\ active = 0 /\ queue # <<>> /\ Take(1) /\ Start(Head(queue), before)
        /\ UNCHANGED <<voices, wants, vars, receiverVars>>
    BY DEF TakeNext
  <1>2. queue \in Seq(Speeches) /\ Len(queue) \in Nat
    BY Members DEF DeliveryInvariant, Delivered, Placed, Arranges
  <1>3. 1 \in 1..Len(queue) /\ Head(queue) = queue[1]
    BY <1>1, <1>2, EmptySeq
  <1>4. Start(queue[1], before) /\ before = IF active = 0 THEN <<>>
                 ELSE <<Ack(active, FALSE, "preempted_by_urgent_speech")>>
    BY <1>1, <1>3
  <1> HIDE DEF before
  <1> QED
    BY <1>1, <1>3, <1>4, BeginInLedger

LEMMA StepInLedger ==
    DeliveryInvariant /\ [DeliveryNext]_systemVars => [Ledger!Next]_(Ledger!ledgerVars)
  <1> SUFFICES ASSUME DeliveryInvariant, [DeliveryNext]_systemVars
               PROVE  Ledger!Next \/ UNCHANGED Ledger!ledgerVars
    OBVIOUS
  <1>1. CASE ReceiverSubmits
    BY <1>1, SubmitsInLedger DEF Ledger!Next
  <1>2. CASE ReceiverQueues
    BY <1>2, QueuesInLedger DEF Ledger!Next
  <1>3. CASE Preempt \/ TakeNext
    BY <1>3, PreemptInLedger, TakeNextInLedger DEF Ledger!Next
  <1>4. CASE PlaySentence
    BY <1>4, PlayInLedger DEF Ledger!Next
  <1>5. CASE Decide
    BY <1>5, DecideInLedger DEF Ledger!Next
  <1>6. CASE SynthesisStep \/ Advance \/ NoneReady \/ SentenceEnds \/ DeadlinePasses
               \/ UNCHANGED systemVars
    BY <1>6, QuietInLedger
  <1> QED
    BY <1>1, <1>2, <1>3, <1>4, <1>5, <1>6 DEF DeliveryNext, FlightLoop

\* The three threads together do with a reply what ReplyLedger promises: one
\* answer that stands, nothing back on the air, and no belief without a sound.
THEOREM DeliveryKeepsTheLedger == DeliverySpec => KeepsTheLedger
  <1>1. ASSUME DeliveryInit PROVE Ledger!Init
    <2>1. /\ received = 0 /\ active = 0 /\ dropped = {} /\ acks = <<>>
          /\ played = [r \in Speeches |-> 0]
      BY <1>1 DEF DeliveryInit
    <2>2. ToSpeak \subseteq Speeches /\ Heard = {}
      BY <2>1 DEF ToSpeak, Heard
    <2>3. Told = {} /\ Believed = {}
      BY <2>1 DEF Told, Believed
    <2> QED
      BY <2>1, <2>2, <2>3 DEF Ledger!Init
  <1> QED
    BY <1>1, StepInLedger, DeliveryInvariance, PTL DEF DeliverySpec, KeepsTheLedger, Ledger!Spec
=============================================================================
