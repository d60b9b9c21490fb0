-------------------------- MODULE PanelBridgeProofs --------------------------
(***************************************************************************)
(* The race of receipt and answer, for any number of requests and any      *)
(* timeouts of which a receipt's is shorter than a held answer's.          *)
(***************************************************************************)
EXTENDS PanelBridge, TLAPS

\* An answer that came before its receipt is still held, and for no longer than
\* the receipt has been awaited: it cannot expire before the request claims it.
AwaitingReceipt == {"asked", "receipt"}
HeldInTime ==
    \A r \in Requests :
        /\ stage[r] \in AwaitingReceipt => age[r] <= AckTimeout
        /\ stage[r] \in AwaitingReceipt /\ r \in posted /\ ~disposed =>
             r \in early /\ heldFor[r] <= age[r]

\* Nobody answers what was not asked, and nothing is asked before the page listens.
AskedFirst ==
    \A r \in Requests : IF stage[r] = "idle" THEN r \notin posted ELSE started

IInv == TypeOK /\ HeldInTime /\ AskedFirst /\ AnswerIsNotLost
          /\ NothingOutlivesThePage
-----------------------------------------------------------------------------
LEMMA Timeouts ==
    /\ AckTimeout \in Nat /\ RequestTimeout \in Nat /\ EarlyAnswerTtl \in Nat
    /\ AckTimeout < EarlyAnswerTtl
    /\ \A r \in Requests : r \in Ids /\ Limit(r) \in Nat
  BY PanelAssumption DEF Ids, Limit

LEMMA InitInvariant == Init => IInv
  <1> SUFFICES ASSUME Init PROVE IInv
    OBVIOUS
  <1>1. stage \in [Requests -> {"idle"} \union Underway \union Settled]
        /\ \A r \in Requests : stage[r] \notin Running
    BY DEF Init, Running
  <1>2. age \in [Requests -> Nat] /\ heldFor \in [Ids -> 0..EarlyAnswerTtl]
    BY Timeouts DEF Init
  <1>3. TypeOK
    BY <1>1, <1>2 DEF Init, TypeOK
  <1>4. HeldInTime /\ AskedFirst /\ AnswerIsNotLost /\ NothingOutlivesThePage
    BY Timeouts DEF Init, HeldInTime, AwaitingReceipt, AskedFirst,
                    AnswerIsNotLost, NothingOutlivesThePage
  <1> QED
    BY <1>3, <1>4 DEF IInv

LEMMA StartKeeps ==
    ASSUME IInv, Start PROVE IInv'
  <1>1. TypeOK'
    BY Timeouts DEF Start, IInv, TypeOK, HeldInTime, AwaitingReceipt,
                    Underway, Settled, Running, Limit
  <1>2. HeldInTime'
    BY Timeouts DEF Start, IInv, TypeOK, HeldInTime, AwaitingReceipt, AskedFirst,
                    Running, Limit
  <1>3. AskedFirst' /\ AnswerIsNotLost' /\ NothingOutlivesThePage'
    BY Timeouts DEF Start, IInv, TypeOK, HeldInTime, AwaitingReceipt, AskedFirst,
                    AnswerIsNotLost, NothingOutlivesThePage
  <1> QED
    BY <1>1, <1>2, <1>3 DEF IInv

LEMMA RequestKeeps ==
    ASSUME NEW q \in Requests, IInv, Request(q) PROVE IInv'
  <1>1. TypeOK'
    <2>1. stage' \in [Requests -> {"idle"} \union Underway \union Settled]
      BY DEF Request, IInv, TypeOK, Underway, Settled
    <2>2. age' \in [Requests -> Nat]
      BY DEF Request, IInv, TypeOK
    <2>3. \A r \in Requests : stage'[r] \in Running => age'[r] <= Limit(r)'
      BY <2>1, <2>2, Timeouts DEF Request, IInv, TypeOK, Running, Limit
    <2>4. /\ started' \in BOOLEAN /\ disposed' \in BOOLEAN
          /\ receipt' \in [Requests -> BOOLEAN]
          /\ early' \subseteq Ids /\ heldFor' \in [Ids -> 0..EarlyAnswerTtl]
          /\ posted' \subseteq Ids
      BY Timeouts DEF Request, IInv, TypeOK
    <2> QED
      BY <2>1, <2>2, <2>3, <2>4 DEF TypeOK
  <1>2. HeldInTime'
    BY Timeouts DEF Request, IInv, TypeOK, HeldInTime, AwaitingReceipt, AskedFirst,
                    Running, Limit
  <1>3. AskedFirst' /\ AnswerIsNotLost' /\ NothingOutlivesThePage'
    BY Timeouts DEF Request, IInv, TypeOK, HeldInTime, AwaitingReceipt, AskedFirst,
                    AnswerIsNotLost, NothingOutlivesThePage
  <1> QED
    BY <1>1, <1>2, <1>3 DEF IInv

LEMMA ReceiptKeeps ==
    ASSUME NEW q \in Requests, IInv, ReceiptComes(q) PROVE IInv'
  <1>1. TypeOK'
    BY Timeouts DEF ReceiptComes, IInv, TypeOK, HeldInTime, AwaitingReceipt,
                    Underway, Settled, Running, Limit
  <1>2. HeldInTime'
    BY Timeouts DEF ReceiptComes, IInv, TypeOK, HeldInTime, AwaitingReceipt, AskedFirst,
                    Running, Limit
  <1>3. AskedFirst' /\ AnswerIsNotLost' /\ NothingOutlivesThePage'
    BY Timeouts DEF ReceiptComes, IInv, TypeOK, HeldInTime, AwaitingReceipt, AskedFirst,
                    AnswerIsNotLost, NothingOutlivesThePage
  <1> QED
    BY <1>1, <1>2, <1>3 DEF IInv

LEMMA ContinueKeeps ==
    ASSUME NEW q \in Requests, IInv, Continue(q) PROVE IInv'
  <1>1. TypeOK'
    <2>1. stage' \in [Requests -> {"idle"} \union Underway \union Settled]
      BY DEF Continue, IInv, TypeOK, Underway, Settled
    <2>2. age' \in [Requests -> Nat]
      BY DEF Continue, IInv, TypeOK
    <2>3. \A r \in Requests : stage'[r] \in Running => age'[r] <= Limit(r)'
      <3>1. age'[q] = 0 /\ Limit(q)' \in Nat
        BY Timeouts DEF Continue, IInv, TypeOK, Limit
      <3>2. \A r \in Requests : r # q =>
              stage'[r] = stage[r] /\ age'[r] = age[r] /\ Limit(r)' = Limit(r)
        BY DEF Continue, IInv, TypeOK, Limit
      <3> QED
        BY <3>1, <3>2 DEF IInv, TypeOK
    <2>4. /\ started' \in BOOLEAN /\ disposed' \in BOOLEAN
          /\ receipt' \in [Requests -> BOOLEAN]
          /\ early' \subseteq Ids /\ heldFor' \in [Ids -> 0..EarlyAnswerTtl]
          /\ posted' \subseteq Ids
      BY Timeouts DEF Continue, IInv, TypeOK
    <2> QED
      BY <2>1, <2>2, <2>3, <2>4 DEF TypeOK
  <1>2. HeldInTime'
    BY Timeouts DEF Continue, IInv, TypeOK, HeldInTime, AwaitingReceipt, AskedFirst,
                    Running, Limit
  <1>3. AskedFirst' /\ AnswerIsNotLost' /\ NothingOutlivesThePage'
    BY Timeouts DEF Continue, IInv, TypeOK, HeldInTime, AwaitingReceipt, AskedFirst,
                    AnswerIsNotLost, NothingOutlivesThePage
  <1> QED
    BY <1>1, <1>2, <1>3 DEF IInv

LEMMA AnswerKeeps ==
    ASSUME NEW id \in Ids, IInv, Answer(id) PROVE IInv'
  <1>1. TypeOK'
    <2>1. stage' \in [Requests -> {"idle"} \union Underway \union Settled]
      BY DEF Answer, Dispatch, IInv, TypeOK, Underway, Settled
    <2>2. age' \in [Requests -> Nat]
      BY DEF Answer, Dispatch, IInv, TypeOK
    <2>3. \A r \in Requests : stage'[r] \in Running => age'[r] <= Limit(r)'
      BY <2>1, <2>2, Timeouts DEF Answer, Dispatch, IInv, TypeOK, Running, Limit
    <2>4. /\ started' \in BOOLEAN /\ disposed' \in BOOLEAN
          /\ receipt' \in [Requests -> BOOLEAN]
          /\ early' \subseteq Ids /\ heldFor' \in [Ids -> 0..EarlyAnswerTtl]
          /\ posted' \subseteq Ids
      BY Timeouts DEF Answer, Dispatch, IInv, TypeOK
    <2> QED
      BY <2>1, <2>2, <2>3, <2>4 DEF TypeOK
  <1>2. HeldInTime'
    BY Timeouts DEF Answer, Dispatch, IInv, TypeOK, HeldInTime, AwaitingReceipt, AskedFirst,
                    Running, Limit
  <1>3. AskedFirst' /\ AnswerIsNotLost' /\ NothingOutlivesThePage'
    BY Timeouts DEF Answer, Dispatch, IInv, TypeOK, HeldInTime, AwaitingReceipt, AskedFirst,
                    AnswerIsNotLost, NothingOutlivesThePage
  <1> QED
    BY <1>1, <1>2, <1>3 DEF IInv

LEMMA DisposeKeeps ==
    ASSUME IInv, Dispose PROVE IInv'
  <1>1. TypeOK'
    BY Timeouts DEF Dispose, IInv, TypeOK, HeldInTime, AwaitingReceipt,
                    Underway, Settled, Running, Limit
  <1>2. HeldInTime'
    BY Timeouts DEF Dispose, IInv, TypeOK, HeldInTime, AwaitingReceipt, AskedFirst,
                    Running, Limit
  <1>3. AskedFirst' /\ AnswerIsNotLost' /\ NothingOutlivesThePage'
    BY Timeouts DEF Dispose, IInv, TypeOK, HeldInTime, AwaitingReceipt, AskedFirst,
                    AnswerIsNotLost, NothingOutlivesThePage
  <1> QED
    BY <1>1, <1>2, <1>3 DEF IInv

LEMMA AckTimerKeeps ==
    ASSUME NEW q \in Requests, IInv, AckTimesOut(q) PROVE IInv'
  <1>1. TypeOK'
    BY Timeouts DEF AckTimesOut, RequestEnds, IInv, TypeOK, HeldInTime, AwaitingReceipt,
                    Underway, Settled, Running, Limit
  <1>2. HeldInTime'
    BY Timeouts DEF AckTimesOut, RequestEnds, IInv, TypeOK, HeldInTime, AwaitingReceipt, AskedFirst,
                    Running, Limit
  <1>3. AskedFirst' /\ AnswerIsNotLost' /\ NothingOutlivesThePage'
    BY Timeouts DEF AckTimesOut, RequestEnds, IInv, TypeOK, HeldInTime, AwaitingReceipt, AskedFirst,
                    AnswerIsNotLost, NothingOutlivesThePage
  <1> QED
    BY <1>1, <1>2, <1>3 DEF IInv

LEMMA RequestTimerKeeps ==
    ASSUME NEW q \in Requests, IInv, RequestTimesOut(q) PROVE IInv'
  <1>1. TypeOK'
    BY Timeouts DEF RequestTimesOut, RequestEnds, IInv, TypeOK, HeldInTime, AwaitingReceipt,
                    Underway, Settled, Running, Limit
  <1>2. HeldInTime'
    BY Timeouts DEF RequestTimesOut, RequestEnds, IInv, TypeOK, HeldInTime, AwaitingReceipt, AskedFirst,
                    Running, Limit
  <1>3. AskedFirst' /\ AnswerIsNotLost' /\ NothingOutlivesThePage'
    BY Timeouts DEF RequestTimesOut, RequestEnds, IInv, TypeOK, HeldInTime, AwaitingReceipt, AskedFirst,
                    AnswerIsNotLost, NothingOutlivesThePage
  <1> QED
    BY <1>1, <1>2, <1>3 DEF IInv

LEMMA ExpiryKeeps ==
    ASSUME NEW id \in Ids, IInv, EarlyAnswerExpires(id) PROVE IInv'
  <1>1. TypeOK'
    BY Timeouts DEF EarlyAnswerExpires, IInv, TypeOK, HeldInTime, AwaitingReceipt,
                    Underway, Settled, Running, Limit
  <1>2. HeldInTime'
    BY Timeouts DEF EarlyAnswerExpires, IInv, TypeOK, HeldInTime, AwaitingReceipt, AskedFirst,
                    Running, Limit
  <1>3. AskedFirst' /\ AnswerIsNotLost' /\ NothingOutlivesThePage'
    BY Timeouts DEF EarlyAnswerExpires, IInv, TypeOK, HeldInTime, AwaitingReceipt, AskedFirst,
                    AnswerIsNotLost, NothingOutlivesThePage
  <1> QED
    BY <1>1, <1>2, <1>3 DEF IInv

LEMMA TickKeeps ==
    ASSUME IInv, Tick PROVE IInv'
  <1>1. TypeOK'
    <2>1. stage' \in [Requests -> {"idle"} \union Underway \union Settled]
      BY DEF Tick, IInv, TypeOK, Underway, Settled
    <2>2. age' \in [Requests -> Nat]
      BY DEF Tick, IInv, TypeOK
    <2>3. \A r \in Requests : stage'[r] \in Running => age'[r] <= Limit(r)'
      BY <2>1, <2>2, Timeouts DEF Tick, IInv, TypeOK, Running, Limit
    <2>4. /\ started' \in BOOLEAN /\ disposed' \in BOOLEAN
          /\ receipt' \in [Requests -> BOOLEAN]
          /\ early' \subseteq Ids /\ heldFor' \in [Ids -> 0..EarlyAnswerTtl]
          /\ posted' \subseteq Ids
      BY Timeouts DEF Tick, IInv, TypeOK
    <2> QED
      BY <2>1, <2>2, <2>3, <2>4 DEF TypeOK
  <1>2. HeldInTime'
    BY Timeouts DEF Tick, IInv, TypeOK, HeldInTime, AwaitingReceipt, AskedFirst,
                    Running, Limit
  <1>3. AskedFirst' /\ AnswerIsNotLost' /\ NothingOutlivesThePage'
    BY Timeouts DEF Tick, IInv, TypeOK, HeldInTime, AwaitingReceipt, AskedFirst,
                    AnswerIsNotLost, NothingOutlivesThePage
  <1> QED
    BY <1>1, <1>2, <1>3 DEF IInv

LEMMA StepInvariant == IInv /\ [Next]_vars => IInv'
  <1> SUFFICES ASSUME IInv, [Next]_vars PROVE IInv'
    OBVIOUS
  <1>1. CASE Start \/ Dispose \/ Tick
    BY <1>1, StartKeeps, DisposeKeeps, TickKeeps
  <1>2. CASE Timer
    BY <1>2, AckTimerKeeps, RequestTimerKeeps, ExpiryKeeps DEF Timer
  <1>3. CASE \E r \in Requests : Request(r) \/ ReceiptComes(r) \/ Continue(r)
    BY <1>3, RequestKeeps, ReceiptKeeps, ContinueKeeps
  <1>4. CASE \E id \in Ids : Answer(id)
    BY <1>4, AnswerKeeps
  <1>5. CASE UNCHANGED vars
    BY <1>5 DEF vars, IInv, TypeOK, HeldInTime, AskedFirst, AnswerIsNotLost,
                NothingOutlivesThePage, Limit
  <1> QED
    BY <1>1, <1>2, <1>3, <1>4, <1>5 DEF Next

LEMMA Invariance == Spec => []IInv
  BY InitInvariant, StepInvariant, PTL DEF Spec

\* Every variable keeps its type: no timer runs past its limit.
THEOREM TypeCorrect == Spec => []TypeOK
  <1>1. IInv => TypeOK
    BY DEF IInv
  <1> QED
    BY <1>1, Invariance, PTL

\* However the host orders a receipt and an answer, and for any number of
\* requests at once, no request waits for an answer that has come: holding it
\* for longer than a receipt is awaited is enough (EARLY_ANSWER_TTL_MS).
THEOREM AnswerNotLost == Spec => []AnswerIsNotLost
  <1>1. IInv => AnswerIsNotLost
    BY DEF IInv
  <1> QED
    BY <1>1, Invariance, PTL

\* After dispose nothing waits and nothing is held, also of the requests that
\* were between their receipt and their answer.
THEOREM PageEnds == Spec => []NothingOutlivesThePage
  <1>1. IInv => NothingOutlivesThePage
    BY DEF IInv
  <1> QED
    BY <1>1, Invariance, PTL
==============================================================================
