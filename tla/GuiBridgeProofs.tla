-------------------------- MODULE GuiBridgeProofs --------------------------
(***************************************************************************)
(* What holds of the GUI bridge for every table size, queue bound and set  *)
(* of events.  First its requests: the safety of its table, and that it    *)
(* implements RequestBroker.  Then what its page is told: every request    *)
(* answered once, and the status and the events it shows kept current.     *)
(***************************************************************************)
EXTENDS GuiBridge, FiniteSetTheorems, FunctionTheorems, SequenceTheorems, TLAPS

\* The types of what the requests are made of.
RequestTypes ==
    /\ nextRequestId \in 1..(MaxIds + 1)
    /\ pending \in [Ids -> Owners]
    /\ ripe \subseteq PendingIds
    /\ subscribeId \in 0..MaxIds
    /\ connected \in BOOLEAN /\ subscribed \in BOOLEAN /\ attached \in BOOLEAN
    /\ panelIds \subseteq 1..(nextRequestId - 1)

\* Ids not handed out yet are not pending, and the panel's requests are those it
\* has a receipt for.
IdsInOrder ==
    /\ \A id \in Ids : id >= nextRequestId => pending[id] = "none"
    /\ \A id \in Ids : pending[id] = "panel" => id \in panelIds

\* The bridge's own request is the subscribe it remembers, for a panel that is
\* there and a console that can be reached.
BridgeSubscribe ==
    /\ \A id \in Ids : pending[id] = "bridge" <=> id = subscribeId
    /\ subscribeId # 0 => attached /\ connected

\* submit's limit counts the bridge's own entry, so the panel's stay below it.
PanelBounded == Cardinality(PanelPending) <= MaxPending

RInv == RequestTypes /\ IdsInOrder /\ BridgeSubscribe /\ NothingOwedWithoutLink
          /\ PanelBounded
----------------------------------------------------------------------------
\* The ids are finitely many, and so are those of any set of them.
LEMMA IdsFinite == \A S \in SUBSET Ids : IsFiniteSet(S)
  <1>1. IsFiniteSet(Ids)
    BY BridgeAssumption, FS_Interval DEF Ids
  <1> QED
    BY <1>1, FS_Subset

\* Taking requests out of the panel's never makes them more.
LEMMA FewerPanelPending ==
    ASSUME PanelBounded, PanelPending' \subseteq PanelPending
    PROVE  PanelBounded'
  <1>1. PanelPending \in SUBSET Ids
    BY DEF PanelPending
  <1>2. /\ Cardinality(PanelPending') <= Cardinality(PanelPending)
        /\ Cardinality(PanelPending') \in Nat /\ Cardinality(PanelPending) \in Nat
    BY <1>1, IdsFinite, FS_Subset, FS_CardinalityType
  <1> QED
    BY <1>2, BridgeAssumption DEF PanelBounded

\* The initial state satisfies the invariant.
LEMMA InitRequests == Init => RInv
  <1> SUFFICES ASSUME Init PROVE RInv
    OBVIOUS
  <1>1. pending \in [Ids -> Owners] /\ \A id \in Ids : pending[id] = "none"
    BY DEF Init, Owners
  <1>2. PanelPending = {}
    BY <1>1 DEF PanelPending
  <1>3. RequestTypes
    <2>1. connected \in BOOLEAN /\ subscribed \in BOOLEAN /\ attached \in BOOLEAN
      BY Zenon DEF Init
    <2>2. /\ nextRequestId \in 1..(MaxIds + 1) /\ subscribeId \in 0..MaxIds
          /\ ripe \subseteq PendingIds /\ panelIds \subseteq 1..(nextRequestId - 1)
      BY BridgeAssumption DEF Init
    <2> QED
      BY <1>1, <2>1, <2>2 DEF RequestTypes
  <1>4. IdsInOrder /\ BridgeSubscribe /\ NothingOwedWithoutLink
    BY <1>1, BridgeAssumption
       DEF Init, IdsInOrder, BridgeSubscribe, NothingOwedWithoutLink, PendingIds, Ids
  <1>5. PanelBounded
    BY <1>2, FS_EmptySet, BridgeAssumption DEF PanelBounded
  <1> QED
    BY <1>3, <1>4, <1>5 DEF RInv

\* subscribe_locked: the new subscribe takes the place of the old one.
LEMMA SubscribeEffect ==
    ASSUME RInv, Subscribe
    PROVE  /\ nextRequestId \in Ids
           /\ nextRequestId' = nextRequestId + 1
           /\ subscribeId' = nextRequestId
           /\ pending' \in [Ids -> Owners]
           /\ ripe' \subseteq PendingIds'
           /\ \A id \in Ids : id >= nextRequestId' => pending'[id] = "none"
           /\ \A id \in Ids : pending'[id] = "bridge" <=> id = subscribeId'
           /\ \A id \in Ids : pending'[id] = "panel" <=> pending[id] = "panel"
  <1>1. nextRequestId \in Ids /\ nextRequestId \in Nat /\ pending \in [Ids -> Owners]
    BY BridgeAssumption DEF RInv, RequestTypes, Subscribe, Ids
  <1>2. \A id \in Ids : pending'[id] = IF id = nextRequestId THEN "bridge"
                                       ELSE IF id = subscribeId THEN "none"
                                       ELSE pending[id]
    BY DEF Subscribe
  <1>3. pending' \in [Ids -> Owners]
    BY <1>1 DEF Subscribe, Owners
  <1>4. pending[nextRequestId] = "none"
    BY <1>1 DEF RInv, IdsInOrder
  <1>5. \A id \in Ids : pending[id] = "bridge" <=> id = subscribeId
    BY DEF RInv, BridgeSubscribe
  <1>6. ripe' \subseteq PendingIds'
    BY <1>2, <1>4 DEF Subscribe, RInv, RequestTypes, PendingIds
  <1>7. \A id \in Ids : id >= nextRequestId' => pending'[id] = "none"
    BY <1>1, <1>2 DEF Subscribe, RInv, IdsInOrder, Ids
  <1>8. \A id \in Ids : pending'[id] = "bridge" <=> id = subscribeId'
    BY <1>2, <1>5 DEF Subscribe
  <1>9. \A id \in Ids : pending'[id] = "panel" <=> pending[id] = "panel"
    BY <1>2, <1>4, <1>5
  <1> QED
    BY <1>1, <1>3, <1>6, <1>7, <1>8, <1>9 DEF Subscribe

\* Settling takes requests out and remembers the subscribe it was not.
LEMMA SettleEffect ==
    ASSUME RInv, NEW S \in SUBSET Ids, Settle(S)
    PROVE  /\ nextRequestId' = nextRequestId
           /\ subscribeId' \in {0, subscribeId}
           /\ pending' \in [Ids -> Owners]
           /\ ripe' \subseteq PendingIds'
           /\ \A id \in Ids : id >= nextRequestId' => pending'[id] = "none"
           /\ \A id \in Ids : pending'[id] = "bridge" <=> id = subscribeId'
           /\ \A id \in Ids : pending'[id] = "panel" <=> pending[id] = "panel" /\ id \notin S
  <1>1. \A id \in Ids : pending'[id] = IF id \in S THEN "none" ELSE pending[id]
    BY DEF Settle
  <1>2. pending' \in [Ids -> Owners]
    BY DEF Settle, RInv, RequestTypes, Owners
  <1>3. ripe' \subseteq PendingIds'
    BY <1>1 DEF Settle, RInv, RequestTypes, PendingIds
  <1>4. \A id \in Ids : id >= nextRequestId' => pending'[id] = "none"
    BY <1>1 DEF Settle, RInv, IdsInOrder
  <1>5. \A id \in Ids : pending'[id] = "bridge" <=> id = subscribeId'
    BY <1>1 DEF Settle, RInv, BridgeSubscribe, Ids
  <1> QED
    BY <1>1, <1>2, <1>3, <1>4, <1>5 DEF Settle
----------------------------------------------------------------------------
\* Steps that touch no request, link or receipt; a deadline only ripens one.
LEMMA QuietKeeps ==
    ASSUME RInv,
           UNCHANGED <<nextRequestId, pending, subscribeId, connected, subscribed,
                       attached, panelIds>>,
           ripe' \subseteq PendingIds
    PROVE  RInv'
  BY DEF RInv, RequestTypes, IdsInOrder, BridgeSubscribe, NothingOwedWithoutLink,
         PanelBounded, PanelPending, PendingIds

\* submit, answered by the plugin: an id is used up.
LEMMA SubmitLocalKeeps == RInv /\ SubmitLocal => RInv'
  <1> SUFFICES ASSUME RInv, SubmitLocal PROVE RInv'
    OBVIOUS
  <1>1. /\ nextRequestId \in 1..MaxIds /\ nextRequestId' = nextRequestId + 1
        /\ panelIds' = panelIds \union {nextRequestId}
        /\ pending' = pending /\ ripe' = ripe /\ subscribeId' = subscribeId
        /\ connected' = connected /\ subscribed' = subscribed /\ attached' = attached
    BY BridgeAssumption DEF RInv, RequestTypes, SubmitLocal, linkVars
  <1>2. RequestTypes'
    BY <1>1, BridgeAssumption DEF RInv, RequestTypes, PendingIds
  <1>3. IdsInOrder' /\ BridgeSubscribe'
    BY <1>1 DEF RInv, IdsInOrder, BridgeSubscribe, Ids
  <1>4. NothingOwedWithoutLink' /\ PanelBounded'
    BY <1>1 DEF RInv, NothingOwedWithoutLink, PanelBounded, PanelPending, PendingIds
  <1> QED
    BY <1>2, <1>3, <1>4 DEF RInv

\* submit, proxied: one more of the panel's requests, below the limit.
LEMMA SubmitKeeps == RInv /\ Submit => RInv'
  <1> SUFFICES ASSUME RInv, Submit PROVE RInv'
    OBVIOUS
  <1>1. /\ nextRequestId \in Ids /\ nextRequestId \in Nat
        /\ nextRequestId' = nextRequestId + 1
        /\ panelIds' = panelIds \union {nextRequestId}
        /\ pending' = [pending EXCEPT ![nextRequestId] = "panel"]
        /\ pending \in [Ids -> Owners]
        /\ ripe' = ripe /\ subscribeId' = subscribeId
        /\ connected' = connected /\ subscribed' = subscribed /\ attached' = attached
    BY BridgeAssumption DEF RInv, RequestTypes, Submit, linkVars, Ids
  <1>2. connected /\ Cardinality(PendingIds) < MaxPending
    BY DEF Submit
  <1>3. pending[nextRequestId] = "none"
    BY <1>1 DEF RInv, IdsInOrder
  <1>4. RequestTypes'
    <2>1. pending' \in [Ids -> Owners]
      BY <1>1 DEF Owners
    <2>2. ripe' \subseteq PendingIds'
      BY <1>1, <1>3 DEF RInv, RequestTypes, PendingIds
    <2>3. panelIds' \subseteq 1..(nextRequestId' - 1)
      BY <1>1 DEF RInv, RequestTypes, Ids
    <2> QED
      BY <1>1, <2>1, <2>2, <2>3, BridgeAssumption DEF RInv, RequestTypes, Ids
  <1>5. IdsInOrder' /\ BridgeSubscribe'
    BY <1>1, <1>3 DEF RInv, IdsInOrder, BridgeSubscribe, Ids
  <1>6. NothingOwedWithoutLink'
    BY <1>1, <1>2 DEF RInv, NothingOwedWithoutLink
  <1>7. PanelBounded'
    <2>1. PanelPending' = PanelPending \union {nextRequestId}
      BY <1>1 DEF PanelPending
    <2>2. PanelPending \subseteq PendingIds /\ PendingIds \in SUBSET Ids
      BY DEF PanelPending, PendingIds
    <2>3. /\ IsFiniteSet(PanelPending) /\ IsFiniteSet(PendingIds)
          /\ Cardinality(PanelPending) <= Cardinality(PendingIds)
          /\ Cardinality(PanelPending) \in Nat /\ Cardinality(PendingIds) \in Nat
      BY <2>2, IdsFinite, FS_Subset, FS_CardinalityType
    <2>4. Cardinality(PanelPending \union {nextRequestId}) =
            IF nextRequestId \in PanelPending THEN Cardinality(PanelPending)
                                              ELSE Cardinality(PanelPending) + 1
      BY <2>3, FS_AddElement
    <2>5. Cardinality(PanelPending \union {nextRequestId}) <= MaxPending
      BY <1>2, <2>3, <2>4, BridgeAssumption
    <2> QED
      BY <2>1, <2>5 DEF PanelBounded
  <1> QED
    BY <1>4, <1>5, <1>6, <1>7 DEF RInv

\* A step that subscribes, for a panel that is there over a live link.
LEMMA SubscribeKeeps ==
    ASSUME RInv, Subscribe, attached' = TRUE, connected' = TRUE,
           subscribed' = subscribed, panelIds' = panelIds
    PROVE  RInv'
  <1>1. /\ nextRequestId \in Ids /\ nextRequestId' = nextRequestId + 1
        /\ subscribeId' = nextRequestId
        /\ pending' \in [Ids -> Owners]
        /\ ripe' \subseteq PendingIds'
        /\ \A id \in Ids : id >= nextRequestId' => pending'[id] = "none"
        /\ \A id \in Ids : pending'[id] = "bridge" <=> id = subscribeId'
        /\ \A id \in Ids : pending'[id] = "panel" <=> pending[id] = "panel"
    BY SubscribeEffect
  <1>2. RequestTypes'
    <2>1. connected' \in BOOLEAN /\ subscribed' \in BOOLEAN /\ attached' \in BOOLEAN
      BY Zenon DEF RInv, RequestTypes
    <2>2. /\ nextRequestId' \in 1..(MaxIds + 1) /\ subscribeId' \in 0..MaxIds
          /\ panelIds' \subseteq 1..(nextRequestId' - 1)
      BY <1>1, BridgeAssumption DEF RInv, RequestTypes, Ids
    <2> QED
      BY <1>1, <2>1, <2>2 DEF RequestTypes
  <1>3. IdsInOrder' /\ BridgeSubscribe'
    BY <1>1 DEF RInv, IdsInOrder, BridgeSubscribe
  <1>4. NothingOwedWithoutLink'
    BY DEF RInv, NothingOwedWithoutLink
  <1>5. PanelBounded'
    <2>1. PanelPending' \subseteq PanelPending
      BY <1>1 DEF PanelPending
    <2> QED
      BY <2>1, FewerPanelPending DEF RInv
  <1> QED
    BY <1>2, <1>3, <1>4, <1>5 DEF RInv

\* A step that settles requests, and leaves a subscription only to a panel that
\* is there over a live link.
LEMMA SettleKeeps ==
    ASSUME RInv, NEW S \in SUBSET Ids, Settle(S), panelIds' = panelIds,
           connected' \in BOOLEAN, attached' \in BOOLEAN, subscribed' \in BOOLEAN,
           subscribed' => connected' /\ attached',
           subscribeId' # 0 => connected' /\ attached',
           ~connected' => PendingIds \subseteq S
    PROVE  RInv'
  <1>1. /\ nextRequestId' = nextRequestId
        /\ subscribeId' \in {0, subscribeId}
        /\ pending' \in [Ids -> Owners]
        /\ ripe' \subseteq PendingIds'
        /\ \A id \in Ids : id >= nextRequestId' => pending'[id] = "none"
        /\ \A id \in Ids : pending'[id] = "bridge" <=> id = subscribeId'
        /\ \A id \in Ids : pending'[id] = "panel" <=> pending[id] = "panel" /\ id \notin S
    BY SettleEffect
  <1>2. RequestTypes'
    BY <1>1, BridgeAssumption DEF RInv, RequestTypes
  <1>3. IdsInOrder' /\ BridgeSubscribe'
    BY <1>1 DEF RInv, IdsInOrder, BridgeSubscribe
  <1>4. ~connected' => PendingIds' = {}
    BY DEF Settle, PendingIds
  <1>5. PanelBounded'
    <2>1. PanelPending' \subseteq PanelPending
      BY <1>1 DEF PanelPending
    <2> QED
      BY <2>1, FewerPanelPending DEF RInv
  <1> QED
    BY <1>2, <1>3, <1>4, <1>5 DEF RInv, NothingOwedWithoutLink

\* attach_panel: subscribes over a live link, and otherwise only notes the page.
LEMMA AttachKeeps == RInv /\ AttachPanel => RInv'
  <1> SUFFICES ASSUME RInv, AttachPanel PROVE RInv'
    OBVIOUS
  <1>1. /\ attached' = TRUE /\ connected' = connected /\ subscribed' = subscribed
        /\ panelIds' = panelIds
    BY DEF AttachPanel
  <1>2. CASE connected
    BY <1>1, <1>2, SubscribeKeeps DEF AttachPanel
  <1>3. CASE ~connected
    <2>1. UNCHANGED <<nextRequestId, pending, ripe, subscribeId>>
      BY <1>3 DEF AttachPanel, requestVars
    <2> QED
      BY <1>1, <2>1 DEF RInv, RequestTypes, IdsInOrder, BridgeSubscribe,
           NothingOwedWithoutLink, PanelBounded, PanelPending, PendingIds
  <1> QED
    BY <1>2, <1>3

\* detach_panel: nothing is pending any more.
LEMMA DetachKeeps == RInv /\ DetachPanel => RInv'
  <1> SUFFICES ASSUME RInv, DetachPanel PROVE RInv'
    OBVIOUS
  <1>1. /\ pending' = [id \in Ids |-> "none"] /\ ripe' = {} /\ subscribeId' = 0
        /\ nextRequestId' = nextRequestId /\ connected' = connected
        /\ attached' = FALSE /\ subscribed' = FALSE /\ panelIds' = panelIds
    BY DEF DetachPanel, pageVars
  <1>2. RequestTypes'
    <2>1. pending' \in [Ids -> Owners] /\ ripe' \subseteq PendingIds'
      BY <1>1 DEF Owners
    <2>2. connected' \in BOOLEAN /\ subscribed' \in BOOLEAN /\ attached' \in BOOLEAN
      BY <1>1, Zenon DEF RInv, RequestTypes
    <2> QED
      BY <1>1, <2>1, <2>2, BridgeAssumption DEF RInv, RequestTypes
  <1>3. IdsInOrder' /\ BridgeSubscribe'
    BY <1>1 DEF IdsInOrder, BridgeSubscribe, Ids
  <1>4. NothingOwedWithoutLink'
    BY <1>1 DEF NothingOwedWithoutLink, PendingIds
  <1>5. PanelBounded'
    <2>1. PanelPending' \subseteq PanelPending
      BY <1>1 DEF PanelPending
    <2> QED
      BY <2>1, FewerPanelPending DEF RInv
  <1> QED
    BY <1>2, <1>3, <1>4, <1>5 DEF RInv

\* An answer or a round of timeouts: a subscription comes only with the answer
\* to the bridge's own request, and that is there only over a live link.
LEMMA SettleAndPostKeeps ==
    ASSUME RInv, NEW S \in SUBSET PendingIds, NEW ok \in BOOLEAN, SettleAndPost(S, ok)
    PROVE  RInv'
  <1>1. /\ Settle(S) /\ S \in SUBSET Ids /\ panelIds' = panelIds
        /\ connected' = connected /\ attached' = attached
        /\ subscribed' = IF \E id \in S : pending[id] = "bridge" THEN ok ELSE subscribed
    BY DEF SettleAndPost, pageVars, PendingIds
  <1>2. (\E id \in S : pending[id] = "bridge") => attached /\ connected
    BY <1>1 DEF RInv, BridgeSubscribe, Ids
  <1>3. subscribed' \in BOOLEAN /\ connected' \in BOOLEAN /\ attached' \in BOOLEAN
    BY <1>1, Zenon DEF RInv, RequestTypes
  <1>4. subscribed' => connected' /\ attached'
    BY <1>1, <1>2 DEF RInv, NothingOwedWithoutLink
  <1>5. subscribeId' # 0 => connected' /\ attached'
    BY <1>1 DEF Settle, RInv, BridgeSubscribe
  <1>6. ~connected' => PendingIds \subseteq S
    BY <1>1 DEF RInv, NothingOwedWithoutLink
  <1> QED
    BY <1>1, <1>3, <1>4, <1>5, <1>6, SettleKeeps

\* set_connected: the link comes up, or goes and takes every request with it.
LEMMA LinkKeeps == RInv /\ (SetConnected \/ SetDisconnected) => RInv'
  <1> SUFFICES ASSUME RInv, SetConnected \/ SetDisconnected PROVE RInv'
    OBVIOUS
  <1>1. CASE SetConnected /\ attached
    BY <1>1, SubscribeKeeps DEF SetConnected, pageVars
  <1>2. CASE SetConnected /\ ~attached
    <2>1. /\ UNCHANGED <<nextRequestId, pending, ripe, subscribeId>>
          /\ connected' = TRUE /\ subscribed' = subscribed /\ attached' = attached
          /\ panelIds' = panelIds
      BY <1>2 DEF SetConnected, requestVars, pageVars
    <2> QED
      BY <2>1 DEF RInv, RequestTypes, IdsInOrder, BridgeSubscribe,
           NothingOwedWithoutLink, PanelBounded, PanelPending, PendingIds
  <1>3. CASE SetDisconnected
    <2>1. /\ Settle(PendingIds) /\ PendingIds \in SUBSET Ids /\ panelIds' = panelIds
          /\ connected' = FALSE /\ subscribed' = FALSE /\ attached' = attached
      BY <1>3 DEF SetDisconnected, pageVars, PendingIds
    <2>2. subscribeId' = 0
      BY <2>1 DEF Settle, RInv, RequestTypes, BridgeSubscribe, PendingIds, Ids
    <2>3. subscribed' \in BOOLEAN /\ connected' \in BOOLEAN /\ attached' \in BOOLEAN
      BY <2>1, Zenon DEF RInv, RequestTypes
    <2> QED
      BY <2>1, <2>2, <2>3, SettleKeeps
  <1> QED
    BY <1>1, <1>2, <1>3

\* Every step keeps the invariant.
LEMMA StepRequests == RInv /\ [Next]_vars => RInv'
  <1> SUFFICES ASSUME RInv, [Next]_vars PROVE RInv'
    OBVIOUS
  <1>1. ripe \subseteq PendingIds
    BY DEF RInv, RequestTypes
  <1>2. CASE SubmitLocal
    BY <1>2, SubmitLocalKeeps
  <1>3. CASE Submit
    BY <1>3, SubmitKeeps
  <1>4. CASE AttachPanel
    BY <1>4, AttachKeeps
  <1>5. CASE DetachPanel
    BY <1>5, DetachKeeps
  <1>6. CASE GuiResponse
    BY <1>6, SettleAndPostKeeps DEF GuiResponse
  <1>7. CASE TickExpires
    BY <1>1, <1>7, SettleAndPostKeeps DEF TickExpires
  <1>8. CASE SetConnected \/ SetDisconnected
    BY <1>8, LinkKeeps
  <1>9. CASE SetPanelVisible \/ GuiEvent \/ TakeSocketFrames \/ TakeJsMessage
               \/ TakeNotificationEvent \/ UNCHANGED vars
    BY <1>1, <1>9, QuietKeeps
       DEF SetPanelVisible, GuiEvent, TakeSocketFrames, TakeJsMessage,
           TakeNotificationEvent, vars, requestVars, linkVars, pageVars
  <1>10. CASE DeadlinePasses
    BY <1>1, <1>10, QuietKeeps DEF DeadlinePasses, linkVars, pageVars
  <1> QED
    BY <1>2, <1>3, <1>4, <1>5, <1>6, <1>7, <1>8, <1>9, <1>10 DEF Next

\* The invariant holds throughout.
LEMMA RequestInvariance == Spec => []RInv
  BY InitRequests, StepRequests, PTL DEF Spec

\* For every bound: a console that cannot be reached owes nothing, and nobody is
\* subscribed without a page and a link (set_connected, settle_locked).
THEOREM NothingOwed == Spec => []NothingOwedWithoutLink
  BY RequestInvariance, PTL DEF RInv

\* The invariant's bounds, added up: the panel's requests and one subscribe.
LEMMA OneSubscribe == RInv => OneSubscribeOutstanding
  <1> SUFFICES ASSUME RInv PROVE OneSubscribeOutstanding
    OBVIOUS
  <1>1. {id \in Ids : pending[id] = "bridge"} =
          IF subscribeId = 0 THEN {} ELSE {subscribeId}
    BY BridgeAssumption DEF RInv, RequestTypes, BridgeSubscribe, Ids
  <1>2. PendingIds \subseteq PanelPending \union {subscribeId}
    BY DEF RInv, RequestTypes, BridgeSubscribe, PendingIds, PanelPending, Owners
  <1>3. IsFiniteSet(PanelPending) /\ PanelPending \in SUBSET Ids
    BY IdsFinite DEF PanelPending
  <1>4. /\ IsFiniteSet(PanelPending \union {subscribeId})
        /\ Cardinality(PanelPending \union {subscribeId}) =
             IF subscribeId \in PanelPending THEN Cardinality(PanelPending)
                                             ELSE Cardinality(PanelPending) + 1
    BY <1>3, FS_AddElement
  <1>5. /\ Cardinality(PendingIds) <= Cardinality(PanelPending \union {subscribeId})
        /\ Cardinality(PendingIds) \in Nat /\ Cardinality(PanelPending) \in Nat
    BY <1>2, <1>3, <1>4, FS_Subset, FS_CardinalityType
  <1>6. Cardinality(PendingIds) <= MaxPending + 1
    BY <1>4, <1>5, BridgeAssumption DEF RInv, PanelBounded
  <1> QED
    BY <1>1, <1>6 DEF RInv, BridgeSubscribe, OneSubscribeOutstanding

\* For every bound: subscribes never pile up, and with one of them the table
\* stays within max_pending and one (subscribe_locked, submit).
THEOREM SubscribesDoNotPileUp == Spec => []OneSubscribeOutstanding
  BY RequestInvariance, OneSubscribe, PTL
----------------------------------------------------------------------------
\* Settling requests is finishing those of the panel's among them.
LEMMA SettleRefines ==
    ASSUME RInv, NEW S \in SUBSET Ids, Settle(S), panelIds' = panelIds
    PROVE  /\ nextRequestId' = nextRequestId
           /\ PanelPending' = PanelPending \ S
           /\ panelIds' \ PanelPending' =
                (panelIds \ PanelPending) \union (PanelPending \intersect S)
  <1>1. /\ nextRequestId' = nextRequestId
        /\ \A id \in Ids : pending'[id] = "panel" <=> pending[id] = "panel" /\ id \notin S
    BY SettleEffect
  <1>2. PanelPending' = PanelPending \ S
    BY <1>1 DEF PanelPending
  <1>3. PanelPending \subseteq panelIds
    BY DEF RInv, IdsInOrder, PanelPending
  <1> QED
    BY <1>1, <1>2, <1>3

\* An answer or timeouts: Finish.
LEMMA SettleAndPostRefines ==
    ASSUME RInv, NEW S \in SUBSET PendingIds, NEW ok, SettleAndPost(S, ok)
    PROVE  Broker!Finish
  <1>1. Settle(S) /\ S \in SUBSET Ids /\ panelIds' = panelIds /\ connected' = connected
    BY DEF SettleAndPost, pageVars, PendingIds
  <1>2. /\ nextRequestId' = nextRequestId
        /\ PanelPending' = PanelPending \ S
        /\ panelIds' \ PanelPending' =
             (panelIds \ PanelPending) \union (PanelPending \intersect S)
    BY <1>1, SettleRefines
  <1> DEFINE ids == PanelPending \intersect S
  <1>3. /\ ids \in SUBSET PanelPending
        /\ PanelPending' = PanelPending \ ids
        /\ panelIds' \ PanelPending' = (panelIds \ PanelPending) \union ids
    BY <1>2
  <1> QED
    BY <1>1, <1>2, <1>3 DEF Broker!Finish

\* A subscribe over a live link: at most an id is used up.
LEMMA SubscribeRefines ==
    ASSUME RInv, Subscribe, connected' = TRUE, panelIds' = panelIds
    PROVE  Broker!LinkUp
  <1>1. /\ nextRequestId' = nextRequestId + 1
        /\ \A id \in Ids : pending'[id] = "panel" <=> pending[id] = "panel"
    BY SubscribeEffect
  <1>2. PanelPending' = PanelPending
    BY <1>1 DEF PanelPending
  <1> QED
    BY <1>1, <1>2 DEF Broker!LinkUp, Broker!MayUseId

\* submit: answered at once, or accepted while the console can be reached.
LEMMA SubmitRefines ==
    /\ RInv /\ SubmitLocal => Broker!AnswerAtOnce
    /\ RInv /\ Submit => Broker!Accept
  <1>1. ASSUME RInv, SubmitLocal PROVE Broker!AnswerAtOnce
    <2>1. /\ nextRequestId' = nextRequestId + 1 /\ connected' = connected
          /\ panelIds' = panelIds \union {nextRequestId}
          /\ pending' = pending
      BY <1>1 DEF SubmitLocal, linkVars
    <2>2. PanelPending' = PanelPending
      BY <2>1 DEF PanelPending
    <2>3. nextRequestId \notin PanelPending
      BY <1>1 DEF RInv, IdsInOrder, RequestTypes, PanelPending
    <2> QED
      BY <2>1, <2>2, <2>3 DEF Broker!AnswerAtOnce
  <1>2. ASSUME RInv, Submit PROVE Broker!Accept
    <2>1. /\ connected /\ connected' = connected
          /\ nextRequestId' = nextRequestId + 1
          /\ panelIds' = panelIds \union {nextRequestId}
          /\ pending' = [pending EXCEPT ![nextRequestId] = "panel"]
          /\ pending \in [Ids -> Owners]
          /\ nextRequestId \in Ids
      BY <1>2, BridgeAssumption DEF Submit, linkVars, RInv, RequestTypes, Ids
    <2>2. PanelPending' = PanelPending \union {nextRequestId}
      BY <2>1 DEF PanelPending
    <2>3. nextRequestId \notin panelIds
      BY <1>2 DEF RInv, RequestTypes
    <2> QED
      BY <2>1, <2>2, <2>3 DEF Broker!Accept
  <1> QED
    BY <1>1, <1>2

\* attach_panel and detach_panel.
LEMMA PageRefines ==
    /\ RInv /\ AttachPanel => Broker!LinkUp \/ UNCHANGED Broker!brokerVars
    /\ RInv /\ DetachPanel => Broker!Finish
  <1>1. ASSUME RInv, AttachPanel PROVE Broker!LinkUp \/ UNCHANGED Broker!brokerVars
    <2>1. connected' = connected /\ panelIds' = panelIds
      BY <1>1 DEF AttachPanel
    <2>2. CASE connected
      <3>1. connected' = TRUE
        BY <1>1, <2>1, <2>2, Zenon DEF RInv, RequestTypes
      <3> QED
        BY <1>1, <2>1, <2>2, <3>1, SubscribeRefines DEF AttachPanel
    <2>3. CASE ~connected
      BY <1>1, <2>1, <2>3
         DEF AttachPanel, requestVars, Broker!brokerVars, PanelPending
    <2> QED
      BY <2>2, <2>3
  <1>2. ASSUME RInv, DetachPanel PROVE Broker!Finish
    <2>1. /\ pending' = [id \in Ids |-> "none"] /\ nextRequestId' = nextRequestId
          /\ connected' = connected /\ panelIds' = panelIds
      BY <1>2 DEF DetachPanel, pageVars
    <2>2. PanelPending' = PanelPending \ PanelPending
      BY <2>1 DEF PanelPending
    <2>3. panelIds' \ PanelPending' = (panelIds \ PanelPending) \union PanelPending
      BY <1>2, <2>1, <2>2 DEF RInv, IdsInOrder, PanelPending
    <2> QED
      BY <2>1, <2>2, <2>3 DEF Broker!Finish
  <1> QED
    BY <1>1, <1>2

\* set_connected.
LEMMA LinkRefines ==
    /\ RInv /\ SetConnected => Broker!LinkUp
    /\ RInv /\ SetDisconnected => Broker!LinkDown
  <1>1. ASSUME RInv, SetConnected PROVE Broker!LinkUp
    <2>1. connected' = TRUE /\ panelIds' = panelIds
      BY <1>1 DEF SetConnected, pageVars
    <2>2. CASE attached
      BY <1>1, <2>1, <2>2, SubscribeRefines DEF SetConnected
    <2>3. CASE ~attached
      BY <1>1, <2>1, <2>3
         DEF SetConnected, requestVars, Broker!LinkUp, Broker!MayUseId, PanelPending
    <2> QED
      BY <2>2, <2>3
  <1>2. ASSUME RInv, SetDisconnected PROVE Broker!LinkDown
    <2>1. /\ Settle(PendingIds) /\ PendingIds \in SUBSET Ids
          /\ connected' = FALSE /\ panelIds' = panelIds
      BY <1>2 DEF SetDisconnected, pageVars, PendingIds
    <2>2. /\ nextRequestId' = nextRequestId
          /\ PanelPending' = PanelPending \ PendingIds
          /\ panelIds' \ PanelPending' =
               (panelIds \ PanelPending) \union (PanelPending \intersect PendingIds)
      BY <1>2, <2>1, SettleRefines
    <2>3. PanelPending \subseteq PendingIds
      BY DEF PanelPending, PendingIds
    <2> QED
      BY <2>1, <2>2, <2>3 DEF Broker!LinkDown
  <1> QED
    BY <1>1, <1>2

\* Every step is one of the broker's, or leaves it as it is.
LEMMA StepRefines == RInv /\ [Next]_vars => [Broker!Next]_(Broker!brokerVars)
  <1> SUFFICES ASSUME RInv, [Next]_vars
               PROVE  Broker!Next \/ UNCHANGED Broker!brokerVars
    OBVIOUS
  <1>1. CASE SubmitLocal \/ Submit
    BY <1>1, SubmitRefines DEF Broker!Next
  <1>2. CASE AttachPanel \/ DetachPanel
    BY <1>2, PageRefines DEF Broker!Next
  <1>3. CASE GuiResponse
    BY <1>3, SettleAndPostRefines DEF GuiResponse, Broker!Next
  <1>4. CASE TickExpires
    BY <1>4, SettleAndPostRefines DEF TickExpires, Broker!Next, RInv, RequestTypes
  <1>5. CASE SetConnected \/ SetDisconnected
    BY <1>5, LinkRefines DEF Broker!Next
  <1>6. CASE SetPanelVisible \/ GuiEvent \/ TakeSocketFrames \/ TakeJsMessage
               \/ TakeNotificationEvent \/ DeadlinePasses \/ UNCHANGED vars
    BY <1>6 DEF SetPanelVisible, GuiEvent, TakeSocketFrames, TakeJsMessage,
         TakeNotificationEvent, DeadlinePasses, vars, requestVars, linkVars, pageVars,
         Broker!brokerVars, PanelPending
  <1> QED
    BY <1>1, <1>2, <1>3, <1>4, <1>5, <1>6 DEF Next

\* For every bound the bridge implements the abstract broker: whatever its
\* queues, deadlines and subscriptions do, the panel's requests are accepted only
\* over a live link, settled once, and all of them when the link goes.
THEOREM BridgeImplementsBroker == Spec => ImplementsBroker
  <1>1. Init => Broker!Init
    BY DEF Init, Broker!Init, PanelPending
  <1> QED
    BY <1>1, StepRefines, RequestInvariance, PTL DEF Spec, ImplementsBroker, Broker!Spec
----------------------------------------------------------------------------
(* The page's queue. *)

Holds(q, m) == \E i \in 1..Len(q) : q[i] = m

\* No answer is in the queue twice.
Once(q) == \A i, j \in 1..Len(q) : q[i] = q[j] /\ q[i] \in Responses => i = j

\* The last of q that is in S is m; nothing of q is in S.
LastIs(q, S, m) ==
    \E i \in 1..Len(q) : q[i] = m /\ m \in S /\ \A j \in (i + 1)..Len(q) : q[j] \notin S
NoneOf(q, S) == \A i \in 1..Len(q) : q[i] \notin S

LEMMA MessageKinds ==
    /\ \A m \in Messages : m.kind = "response" <=> m \in Responses
    /\ \A m \in Responses : m.id \in Ids /\ m = Response(m.id)
    /\ \A id \in Ids : Response(id) \in Responses /\ Response(id).id = id
    /\ \A id1, id2 \in Ids : Response(id1) = Response(id2) => id1 = id2
    /\ \A c, s \in BOOLEAN : Status(c, s) \in Statuses
    /\ \A e \in CachedEvents : EventPost(e) \in EventsOf(e.name) /\ e.name \in EventNames
    /\ \A name \in EventNames : EventsOf(name) \subseteq Messages
    /\ Responses \subseteq Messages /\ Statuses \subseteq Messages
    /\ Responses \intersect Statuses = {}
    /\ \A name \in EventNames : EventsOf(name) \intersect (Responses \union Statuses) = {}
  <1>1. \A m \in Messages : m.kind = "response" <=> m \in Responses
    BY DEF Messages, Responses, Statuses
  <1>2. \A m \in Responses : m.id \in Ids /\ m = Response(m.id)
    BY DEF Responses, Response
  <1>3. /\ \A id \in Ids : Response(id) \in Responses /\ Response(id).id = id
        /\ \A id1, id2 \in Ids : Response(id1) = Response(id2) => id1 = id2
    BY DEF Responses, Response
  <1>4. \A c, s \in BOOLEAN : Status(c, s) \in Statuses
    BY DEF Status, Statuses
  <1>5. \A e \in CachedEvents : EventPost(e) \in EventsOf(e.name) /\ e.name \in EventNames
    BY DEF CachedEvents, EventPost, EventsOf
  <1>6. /\ \A name \in EventNames : EventsOf(name) \subseteq Messages
        /\ Responses \subseteq Messages /\ Statuses \subseteq Messages
    BY DEF EventsOf, Messages
  <1>7. /\ Responses \intersect Statuses = {}
        /\ \A name \in EventNames : EventsOf(name) \intersect (Responses \union Statuses) = {}
    BY DEF EventsOf, Responses, Statuses
  <1> QED
    BY <1>1, <1>2, <1>3, <1>4, <1>5, <1>6, <1>7

LEMMA AnswersQueued ==
    ASSUME NEW q \in Seq(Messages)
    PROVE  /\ ResponseIds(q) \subseteq Ids
           /\ \A id \in Ids : id \in ResponseIds(q) <=> Holds(q, Response(id))
  <1>1. DOMAIN q = 1..Len(q) /\ \A i \in 1..Len(q) : q[i] \in Messages
    BY ElementOfSeq, LenProperties
  <1>2. \A id : id \in ResponseIds(q) <=>
                 \E i \in 1..Len(q) : q[i].kind = "response" /\ q[i].id = id
    BY <1>1 DEF ResponseIds, ToSet
  <1>3. \A i \in 1..Len(q) : q[i].kind = "response" =>
           q[i].id \in Ids /\ q[i] = Response(q[i].id)
    BY <1>1, MessageKinds
  <1>4. \A id \in Ids : Response(id).kind = "response" /\ Response(id).id = id
    BY DEF Response
  <1> QED
    BY <1>2, <1>3, <1>4 DEF Holds

\* A queue cut in two.
IsCut(all, over, cut, kept) ==
    cut = SubSeq(all, 1, over) /\ kept = SubSeq(all, over + 1, Len(all))

LEMMA CutQueue ==
    ASSUME NEW all \in Seq(Messages), NEW over \in 0..Len(all), NEW cut, NEW kept,
           IsCut(all, over, cut, kept)
    PROVE  /\ cut \in Seq(Messages) /\ kept \in Seq(Messages)
           /\ Len(cut) = over /\ Len(kept) = Len(all) - over
           /\ \A i \in 1..Len(cut) : cut[i] = all[i]
           /\ \A i \in 1..Len(kept) : kept[i] = all[over + i]
  <1>1. Len(all) \in Nat /\ \A i \in 1..Len(all) : all[i] \in Messages
    BY ElementOfSeq, LenProperties
  <1>2. /\ cut \in Seq(Messages)
        /\ Len(cut) = IF 1 <= over THEN over - 1 + 1 ELSE 0
        /\ \A i \in 1..(over - 1 + 1) : cut[i] = all[1 + i - 1]
    BY <1>1, SubSeqProperties DEF IsCut
  <1>3. /\ kept \in Seq(Messages)
        /\ Len(kept) = IF over + 1 <= Len(all) THEN Len(all) - (over + 1) + 1 ELSE 0
        /\ \A i \in 1..(Len(all) - (over + 1) + 1) : kept[i] = all[over + 1 + i - 1]
    BY <1>1, SubSeqProperties DEF IsCut
  <1> QED
    BY <1>1, <1>2, <1>3

LEMMA CutOnce ==
    ASSUME NEW all \in Seq(Messages), NEW over \in 0..Len(all), NEW cut, NEW kept,
           IsCut(all, over, cut, kept), Once(all)
    PROVE  /\ Once(kept)
           /\ \A m : Holds(all, m) <=> Holds(cut, m) \/ Holds(kept, m)
           /\ \A m \in Responses : ~(Holds(cut, m) /\ Holds(kept, m))
  <1>1. /\ Len(all) \in Nat /\ Len(cut) = over /\ Len(kept) = Len(all) - over
        /\ \A i \in 1..Len(cut) : cut[i] = all[i]
        /\ \A i \in 1..Len(kept) : kept[i] = all[over + i]
    BY CutQueue, LenProperties
  <1>2. Once(kept)
    <2>1. ASSUME NEW i \in 1..Len(kept), NEW j \in 1..Len(kept), kept[i] = kept[j], kept[i] \in Responses
          PROVE  i = j
      <3>1. over + i \in 1..Len(all) /\ over + j \in 1..Len(all)
        BY ONLY <1>1, over \in 0..Len(all), i \in 1..Len(kept), j \in 1..Len(kept)
      <3>2. all[over + i] = all[over + j] /\ all[over + i] \in Responses
        BY <1>1, <2>1
      <3>3. over + i = over + j
        BY <3>1, <3>2 DEF Once
      <3> QED
        BY ONLY <3>3, over \in 0..Len(all), i \in 1..Len(kept), j \in 1..Len(kept)
    <2> QED
      BY <2>1 DEF Once
  <1>3. ASSUME NEW m PROVE Holds(all, m) <=> Holds(cut, m) \/ Holds(kept, m)
    <2>1. ASSUME NEW i \in 1..Len(all), all[i] = m PROVE Holds(cut, m) \/ Holds(kept, m)
      <3>1. CASE i <= over
        BY <1>1, <2>1, <3>1 DEF Holds
      <3>2. CASE i > over
        <4>1. i - over \in 1..Len(kept) /\ kept[i - over] = m
          BY <1>1, <2>1, <3>2
        <4> QED
          BY <4>1 DEF Holds
      <3> QED
        BY <1>1, <3>1, <3>2
    <2>2. Holds(cut, m) => Holds(all, m)
      BY <1>1 DEF Holds
    <2>3. ASSUME NEW i \in 1..Len(kept), kept[i] = m PROVE Holds(all, m)
      <3>1. over + i \in 1..Len(all) /\ all[over + i] = m
        BY <1>1, <2>3
      <3> QED
        BY <3>1 DEF Holds
    <2> QED
      BY <2>1, <2>2, <2>3 DEF Holds
  <1>4. ASSUME NEW m \in Responses, Holds(cut, m), Holds(kept, m) PROVE FALSE
    <2>1. PICK i \in 1..Len(cut) : cut[i] = m
      BY <1>4 DEF Holds
    <2>2. PICK j \in 1..Len(kept) : kept[j] = m
      BY <1>4 DEF Holds
    <2>3. /\ i \in 1..Len(all) /\ over + j \in 1..Len(all)
          /\ all[i] = m /\ all[over + j] = m /\ i # over + j
      BY <1>1, <2>1, <2>2
    <2> QED
      BY <2>3 DEF Once
  <1> QED
    BY <1>2, <1>3, <1>4

LEMMA JoinOnce ==
    ASSUME NEW q \in Seq(Messages), NEW r \in Seq(Messages), Once(q), Once(r),
           \A m \in Responses : ~(Holds(q, m) /\ Holds(r, m))
    PROVE  Once(q \o r)
  <1>1. /\ Len(q) \in Nat /\ Len(r) \in Nat /\ Len(q \o r) = Len(q) + Len(r)
        /\ \A i \in 1..(Len(q) + Len(r)) :
             (q \o r)[i] = IF i <= Len(q) THEN q[i] ELSE r[i - Len(q)]
    BY ConcatProperties, LenProperties
  <1>2. SUFFICES ASSUME NEW i \in 1..Len(q \o r), NEW j \in 1..Len(q \o r),
                        (q \o r)[i] = (q \o r)[j], (q \o r)[i] \in Responses, i <= j
                 PROVE  i = j
    BY <1>1 DEF Once
  <1>3. CASE j <= Len(q)
    BY <1>1, <1>2, <1>3 DEF Once
  <1>4. CASE i > Len(q)
    <2>1. i - Len(q) \in 1..Len(r) /\ j - Len(q) \in 1..Len(r)
      BY <1>1, <1>2, <1>4
    <2>2. r[i - Len(q)] = r[j - Len(q)] /\ r[i - Len(q)] \in Responses
      BY <1>1, <1>2, <1>4
    <2>3. i - Len(q) = j - Len(q)
      BY <2>1, <2>2 DEF Once
    <2> QED
      BY <1>1, <2>3
  <1>5. CASE i <= Len(q) /\ j > Len(q)
    <2>1. i \in 1..Len(q) /\ j - Len(q) \in 1..Len(r)
      BY <1>1, <1>2, <1>5
    <2>2. q[i] = (q \o r)[i] /\ r[j - Len(q)] = (q \o r)[i]
      BY <1>1, <1>2, <1>5
    <2> QED
      BY <1>2, <2>1, <2>2 DEF Holds
  <1> QED
    BY <1>1, <1>3, <1>4, <1>5

LEMMA JoinHolds ==
    ASSUME NEW q \in Seq(Messages), NEW r \in Seq(Messages), NEW m
    PROVE  Holds(q \o r, m) <=> Holds(q, m) \/ Holds(r, m)
  <1>1. /\ Len(q) \in Nat /\ Len(r) \in Nat /\ Len(q \o r) = Len(q) + Len(r)
        /\ \A i \in 1..(Len(q) + Len(r)) :
             (q \o r)[i] = IF i <= Len(q) THEN q[i] ELSE r[i - Len(q)]
    BY ConcatProperties, LenProperties
  <1>2. ASSUME Holds(q \o r, m) PROVE Holds(q, m) \/ Holds(r, m)
    <2>1. PICK i \in 1..(Len(q) + Len(r)) : (q \o r)[i] = m
      BY <1>1, <1>2 DEF Holds
    <2>2. CASE i <= Len(q)
      BY <1>1, <2>1, <2>2 DEF Holds
    <2>3. CASE i > Len(q)
      <3>1. i - Len(q) \in 1..Len(r) /\ r[i - Len(q)] = m
        BY <1>1, <2>1, <2>3
      <3> QED
        BY <3>1 DEF Holds
    <2> QED
      BY <1>1, <2>2, <2>3
  <1>3. Holds(q, m) => Holds(q \o r, m)
    BY <1>1 DEF Holds
  <1>4. ASSUME NEW i \in 1..Len(r), r[i] = m PROVE Holds(q \o r, m)
    <2>1. Len(q) + i \in 1..Len(q \o r) /\ (q \o r)[Len(q) + i] = m
      BY <1>1, <1>4
    <2> QED
      BY <2>1 DEF Holds
  <1> QED
    BY <1>2, <1>3, <1>4 DEF Holds

LEMMA JoinLast ==
    ASSUME NEW q \in Seq(Messages), NEW r \in Seq(Messages), NEW S, NEW m
    PROVE  /\ LastIs(r, S, m) => LastIs(q \o r, S, m)
           /\ LastIs(q, S, m) /\ NoneOf(r, S) => LastIs(q \o r, S, m)
           /\ NoneOf(q, S) /\ NoneOf(r, S) => NoneOf(q \o r, S)
  <1>1. /\ Len(q) \in Nat /\ Len(r) \in Nat /\ Len(q \o r) = Len(q) + Len(r)
        /\ \A i \in 1..(Len(q) + Len(r)) :
             (q \o r)[i] = IF i <= Len(q) THEN q[i] ELSE r[i - Len(q)]
    BY ConcatProperties, LenProperties
  <1>2. ASSUME LastIs(r, S, m) PROVE LastIs(q \o r, S, m)
    <2>1. PICK i \in 1..Len(r) :
             r[i] = m /\ m \in S /\ \A j \in (i + 1)..Len(r) : r[j] \notin S
      BY <1>2 DEF LastIs
    <2>2. Len(q) + i \in 1..Len(q \o r) /\ (q \o r)[Len(q) + i] = m
      BY <1>1, <2>1
    <2>3. ASSUME NEW j \in (Len(q) + i + 1)..Len(q \o r) PROVE (q \o r)[j] \notin S
      <3>1. j - Len(q) \in (i + 1)..Len(r) /\ (q \o r)[j] = r[j - Len(q)]
        BY <1>1, <2>1
      <3> QED
        BY <2>1, <3>1
    <2> QED
      BY <2>1, <2>2, <2>3 DEF LastIs
  <1>3. ASSUME LastIs(q, S, m), NoneOf(r, S) PROVE LastIs(q \o r, S, m)
    <2>1. PICK i \in 1..Len(q) :
             q[i] = m /\ m \in S /\ \A j \in (i + 1)..Len(q) : q[j] \notin S
      BY <1>3 DEF LastIs
    <2>2. i \in 1..Len(q \o r) /\ (q \o r)[i] = m
      BY <1>1, <2>1
    <2>3. ASSUME NEW j \in (i + 1)..Len(q \o r) PROVE (q \o r)[j] \notin S
      <3>1. CASE j <= Len(q)
        BY <1>1, <2>1, <3>1
      <3>2. CASE j > Len(q)
        <4>1. j - Len(q) \in 1..Len(r) /\ (q \o r)[j] = r[j - Len(q)]
          BY <1>1, <2>1, <3>2
        <4> QED
          BY <1>3, <4>1 DEF NoneOf
      <3> QED
        BY <1>1, <3>1, <3>2
    <2> QED
      BY <2>1, <2>2, <2>3 DEF LastIs
  <1>4. ASSUME NoneOf(q, S), NoneOf(r, S), NEW j \in 1..Len(q \o r)
        PROVE  (q \o r)[j] \notin S
    <2>1. CASE j <= Len(q)
      BY <1>1, <1>4, <2>1 DEF NoneOf
    <2>2. CASE j > Len(q)
      <3>1. j - Len(q) \in 1..Len(r) /\ (q \o r)[j] = r[j - Len(q)]
        BY <1>1, <2>2
      <3> QED
        BY <1>4, <3>1 DEF NoneOf
    <2> QED
      BY <1>1, <2>1, <2>2
  <1> QED
    BY <1>2, <1>3, <1>4 DEF NoneOf

\* What a page that shows shown will show, of the messages in S, after q.
Ends(q, S, m, shown) == LastIs(q, S, m) \/ (NoneOf(q, S) /\ shown = m)

LEMMA JoinEnds ==
    ASSUME NEW q \in Seq(Messages), NEW r \in Seq(Messages), NEW S, NEW m, NEW shown
    PROVE  /\ LastIs(r, S, m) => Ends(q \o r, S, m, shown)
           /\ Ends(q, S, m, shown) /\ NoneOf(r, S) => Ends(q \o r, S, m, shown)
  BY JoinLast DEF Ends

\* Showing the head of the queue is what Ends waits for.
LEMMA TakeEnds ==
    ASSUME NEW q \in Seq(Messages), q # <<>>, NEW S, NEW m, NEW shown, Ends(q, S, m, shown),
           NEW next, next = IF Head(q) \in S THEN Head(q) ELSE shown
    PROVE  Ends(Tail(q), S, m, next)
  <1>1. /\ Len(q) \in Nat /\ Len(q) >= 1 /\ Len(Tail(q)) = Len(q) - 1 /\ Head(q) = q[1]
        /\ \A i \in 1..Len(Tail(q)) : Tail(q)[i] = q[i + 1]
    BY HeadTailProperties, LenProperties, EmptySeq
  <1>2. ASSUME NoneOf(q, S), shown = m PROVE NoneOf(Tail(q), S) /\ next = m
    BY <1>1, <1>2 DEF NoneOf
  <1>3. ASSUME LastIs(q, S, m) PROVE Ends(Tail(q), S, m, next)
    <2>1. PICK i \in 1..Len(q) :
             q[i] = m /\ m \in S /\ \A j \in (i + 1)..Len(q) : q[j] \notin S
      BY <1>3 DEF LastIs
    <2>2. CASE i = 1
      <3>1. next = m
        BY <1>1, <2>1, <2>2
      <3>2. NoneOf(Tail(q), S)
        BY <1>1, <2>1, <2>2 DEF NoneOf
      <3> QED
        BY <3>1, <3>2 DEF Ends
    <2>3. CASE i # 1
      <3>1. i - 1 \in 1..Len(Tail(q)) /\ Tail(q)[i - 1] = m
        BY <1>1, <2>1, <2>3
      <3>2. \A j \in ((i - 1) + 1)..Len(Tail(q)) : Tail(q)[j] \notin S
        BY <1>1, <2>1
      <3> QED
        BY <2>1, <3>1, <3>2 DEF Ends, LastIs
    <2> QED
      BY <2>2, <2>3
  <1> QED
    BY <1>2, <1>3 DEF Ends

LEMMA EndsIsQueued ==
    ASSUME jsQueue \in Seq(Messages), NEW S, NEW m, NEW shown, Ends(jsQueue, S, m, shown)
    PROVE  LastQueued(S, shown) = m
  <1>1. DOMAIN jsQueue = 1..Len(jsQueue) /\ Len(jsQueue) \in Nat
    BY LenProperties
  <1> DEFINE places == {i \in DOMAIN jsQueue : jsQueue[i] \in S}
  <1>2. CASE NoneOf(jsQueue, S) /\ shown = m
    BY <1>1, <1>2 DEF NoneOf, LastQueued
  <1>3. CASE LastIs(jsQueue, S, m)
    <2>1. PICK i \in 1..Len(jsQueue) :
             jsQueue[i] = m /\ m \in S /\ \A j \in (i + 1)..Len(jsQueue) : jsQueue[j] \notin S
      BY <1>3 DEF LastIs
    <2>2. i \in places /\ \A j \in places : i >= j
      BY <1>1, <2>1
    <2>3. \A k \in places : (\A j \in places : k >= j) => k = i
      BY <1>1, <2>2
    <2>4. (CHOOSE k \in places : \A j \in places : k >= j) = i
      BY <2>2, <2>3
    <2> QED
      BY <2>1, <2>2, <2>4 DEF LastQueued
  <1> QED
    BY <1>2, <1>3 DEF Ends
-----------------------------------------------------------------------------
\* Counting the smaller ones puts the ids of a set in order: each comes once.
Below(S, id) == {i \in S : i < id}

LEMMA MoreBelow ==
    ASSUME NEW S \in SUBSET Ids
    PROVE  /\ IsFiniteSet(S) /\ Cardinality(S) \in Nat
           /\ \A id \in S : Cardinality(Below(S, id)) \in 0..(Cardinality(S) - 1)
           /\ \A id1, id2 \in S :
                Cardinality(Below(S, id1)) = Cardinality(Below(S, id2)) => id1 = id2
  <1>1. IsFiniteSet(S) /\ Cardinality(S) \in Nat /\ S \subseteq Nat
    BY IdsFinite, FS_CardinalityType DEF Ids
  <1>2. ASSUME NEW id \in S
        PROVE  /\ IsFiniteSet(Below(S, id)) /\ Cardinality(Below(S, id)) \in Nat
               /\ Cardinality(Below(S, id)) <= Cardinality(S) - 1
    <2>1. Below(S, id) \subseteq S \ {id}
      BY <1>1 DEF Below
    <2>2. IsFiniteSet(S \ {id}) /\ Cardinality(S \ {id}) = Cardinality(S) - 1
      BY <1>1, FS_RemoveElement
    <2> QED
      BY <1>1, <2>1, <2>2, FS_Subset, FS_CardinalityType
  <1>3. ASSUME NEW id1 \in S, NEW id2 \in S, id1 < id2
        PROVE  Cardinality(Below(S, id1)) < Cardinality(Below(S, id2))
    <2>1. id1 \in Nat /\ id2 \in Nat
      BY <1>1
    <2>2. \A i \in S : i < id1 => i < id2
      BY <1>1, <1>3, <2>1
    <2>3. Below(S, id1) \union {id1} \subseteq Below(S, id2) /\ id1 \notin Below(S, id1)
      <3>1. \A i \in Below(S, id1) : i \in Below(S, id2)
        BY <2>2, Zenon DEF Below
      <3>2. id1 \in Below(S, id2)
        BY <1>3, Zenon DEF Below
      <3>3. id1 \notin Below(S, id1)
        BY <2>1 DEF Below
      <3> QED
        BY <3>1, <3>2, <3>3
    <2>4. Cardinality(Below(S, id1) \union {id1}) = Cardinality(Below(S, id1)) + 1
      BY <1>2, <2>3, FS_AddElement
    <2>5. Cardinality(Below(S, id1) \union {id1}) <= Cardinality(Below(S, id2))
      BY <1>2, <2>3, FS_Subset
    <2>6. Cardinality(Below(S, id1)) \in Nat /\ Cardinality(Below(S, id2)) \in Nat
      BY <1>2
    <2> QED
      BY <2>4, <2>5, <2>6
  <1>4. ASSUME NEW id1 \in S, NEW id2 \in S,
               Cardinality(Below(S, id1)) = Cardinality(Below(S, id2))
        PROVE  id1 = id2
    <2>1. ~(id1 < id2) /\ ~(id2 < id1)
      <3>1. Cardinality(Below(S, id1)) \in Nat
        BY <1>2
      <3> QED
        BY <1>3, <1>4, <3>1
    <2> QED
      BY <1>1, <2>1
  <1> QED
    BY <1>1, <1>2, <1>4

LEMMA EveryRank ==
    ASSUME NEW S \in SUBSET Ids, NEW n \in 1..Cardinality(S)
    PROVE  \E id \in S : Cardinality(Below(S, id)) = n - 1
  <1> DEFINE size == Cardinality(S)
             rank == [id \in S |-> Cardinality(Below(S, id)) + 1]
  <1>1. /\ IsFiniteSet(S) /\ size \in Nat
        /\ \A id \in S : Cardinality(Below(S, id)) \in 0..(size - 1)
        /\ \A id1, id2 \in S :
             Cardinality(Below(S, id1)) = Cardinality(Below(S, id2)) => id1 = id2
    BY MoreBelow
  <1>2. rank \in [S -> 1..size]
    BY <1>1
  <1>3. \A a, b \in S : rank[a] = rank[b] => a = b
    BY <1>1
  <1>4. IsFiniteSet(1..size) /\ Cardinality(1..size) = size
    BY <1>1, FS_Interval
  <1>5. rank \in Injection(S, 1..size)
    BY <1>2, <1>3 DEF Injection, IsInjective
  <1>6. rank \in Surjection(S, 1..size)
    BY <1>4, <1>5, FS_Injection
  <1>7. PICK id \in S : rank[id] = n
    BY <1>6, Zenon DEF Surjection
  <1> QED
    BY <1>1, <1>7

LEMMA AscendingIsAll ==
    ASSUME NEW S \in SUBSET Ids
    PROVE  /\ Ascending(S) \in Seq(S) /\ Ascending(S) \in Seq(Ids)
           /\ \A id \in S : \E n \in 1..Len(Ascending(S)) : Ascending(S)[n] = id
           /\ \A m, n \in 1..Len(Ascending(S)) : Ascending(S)[m] = Ascending(S)[n] => m = n
  <1> DEFINE size == Cardinality(S)
             At(n) == CHOOSE id \in S : Cardinality(Below(S, id)) = n - 1
  <1>1. /\ size \in Nat
        /\ \A id \in S : Cardinality(Below(S, id)) \in 0..(size - 1)
        /\ \A id1, id2 \in S :
             Cardinality(Below(S, id1)) = Cardinality(Below(S, id2)) => id1 = id2
    BY MoreBelow
  <1>2. Ascending(S) = [n \in 1..size |-> At(n)]
    BY DEF Ascending, Below
  <1>3. \A n \in 1..size : At(n) \in S /\ Cardinality(Below(S, At(n))) = n - 1
    BY EveryRank
  <1> HIDE DEF At
  <1>4. Ascending(S) \in [1..size -> S] /\ DOMAIN Ascending(S) = 1..size
    BY <1>2, <1>3
  <1>5. Ascending(S) \in Seq(S)
    BY <1>1, <1>4
  <1>6. Len(Ascending(S)) = size
    BY <1>1, <1>4, <1>5
  <1>7. Ascending(S) \in Seq(Ids)
    BY <1>5, SeqMonotonic
  <1>8. ASSUME NEW id \in S PROVE \E n \in 1..size : Ascending(S)[n] = id
    <2> DEFINE n == Cardinality(Below(S, id)) + 1
    <2>1. n \in 1..size /\ n - 1 = Cardinality(Below(S, id))
      BY <1>1
    <2>2. At(n) \in S /\ Cardinality(Below(S, At(n))) = Cardinality(Below(S, id))
      BY <1>3, <2>1
    <2>3. At(n) = id
      BY <1>1, <2>2
    <2> QED
      BY <1>2, <2>1, <2>3
  <1>9. ASSUME NEW m \in 1..size, NEW n \in 1..size, Ascending(S)[m] = Ascending(S)[n]
        PROVE  m = n
    <2>1. At(m) = At(n)
      BY <1>2, <1>9
    <2>2. m - 1 = n - 1
      BY <1>3, <2>1
    <2> QED
      BY <2>2
  <1> QED
    BY <1>5, <1>6, <1>7, <1>8, <1>9
-----------------------------------------------------------------------------
(* What the page is owed. *)

QueueTypes ==
    /\ jsQueue \in Seq(Messages) /\ Len(jsQueue) <= MaxJsQueue
    /\ gone \subseteq Ids /\ droppedEvents \in Nat /\ evicted \in BOOLEAN

PageTypes ==
    /\ notifyQueue \in Seq(CachedEvents) /\ Len(notifyQueue) <= MaxJsQueue
    /\ cache \in Seq(CachedEvents) /\ socketFrames \in Seq(Ids)
    /\ page \in [status : Statuses, events : [EventNames -> Payloads]]
    /\ answers \in [Ids -> Nat]
    /\ heard \in 0..MaxEvents /\ toggles \in Nat /\ visible \in BOOLEAN

\* An id the page has a receipt for is in one of four places, any other in none.
OnePlace(id) ==
    /\ answers[id] \in {0, 1}
    /\ id \in panelIds <=> \/ pending[id] = "panel" \/ answers[id] = 1
                           \/ id \in gone \/ Holds(jsQueue, Response(id))
    /\ pending[id] = "panel" =>
         answers[id] = 0 /\ id \notin gone /\ ~Holds(jsQueue, Response(id))
    /\ answers[id] = 1 => id \notin gone /\ ~Holds(jsQueue, Response(id))
    /\ id \in gone => ~Holds(jsQueue, Response(id))

InOnePlace == Once(jsQueue) /\ \A id \in Ids : OnePlace(id)

StatusOwed ==
    attached /\ ~evicted =>
        Ends(jsQueue, Statuses, Status(connected, subscribed), page.status)

\* No event is cached twice.
OneEach == \A i, j \in 1..Len(cache) : cache[i].name = cache[j].name => i = j

EventsOwed ==
    attached /\ visible /\ ~evicted =>
        \A i \in 1..Len(cache) :
            Ends(jsQueue, EventsOf(cache[i].name), EventPost(cache[i]), Shown(cache[i].name))

PagePart == QueueTypes /\ PageTypes /\ InOnePlace /\ StatusOwed /\ OneEach /\ EventsOwed

PInv == RInv /\ PagePart

LEMMA OverflowFits ==
    ASSUME NEW S, NEW all \in Seq(S)
    PROVE  Overflow(all) \in 0..Len(all) /\ Len(all) - Overflow(all) <= MaxJsQueue
  BY BridgeAssumption, LenProperties DEF Overflow

\* enqueue_js_locked: an answer goes to the queue or is gone; nothing is lost of
\* a queue that did not overflow.
LEMMA EnqueueEffect ==
    ASSUME QueueTypes, NEW msgs \in Seq(Messages), NEW counted \in Nat, Enqueue(msgs, counted),
           Once(jsQueue), Once(msgs),
           \A m \in Responses : ~(Holds(jsQueue, m) /\ Holds(msgs, m)),
           \A id \in Ids : id \in gone =>
               ~Holds(jsQueue, Response(id)) /\ ~Holds(msgs, Response(id))
    PROVE  /\ jsQueue' \in Seq(Messages) /\ Len(jsQueue') <= MaxJsQueue
           /\ gone' \subseteq Ids /\ evicted' \in BOOLEAN /\ droppedEvents' \in Nat
           /\ Once(jsQueue')
           /\ \A id \in Ids : Holds(jsQueue', Response(id)) \/ id \in gone' <=>
                 Holds(jsQueue, Response(id)) \/ id \in gone \/ Holds(msgs, Response(id))
           /\ \A id \in Ids : ~(Holds(jsQueue', Response(id)) /\ id \in gone')
           /\ ~evicted' => ~evicted /\ jsQueue' = jsQueue \o msgs
  <1> DEFINE full  == jsQueue \o msgs
             excess == Overflow(full)
             lost  == SubSeq(full, 1, excess)
             rest == SubSeq(full, excess + 1, Len(full))
  <1>1. full \in Seq(Messages)
    BY ConcatProperties DEF QueueTypes
  <1>2. excess \in 0..Len(full) /\ Len(full) - excess <= MaxJsQueue
    BY <1>1, OverflowFits
  <1>3. /\ jsQueue' = rest /\ droppedEvents' = droppedEvents + excess + counted
        /\ evicted' = (evicted \/ excess > 0) /\ gone' = gone \union ResponseIds(lost)
    BY Zenon DEF Enqueue
  <1>4. Once(full) /\ \A m : Holds(full, m) <=> Holds(jsQueue, m) \/ Holds(msgs, m)
    BY JoinOnce, JoinHolds DEF QueueTypes
  <1> HIDE DEF full, excess, lost, rest
  <1>5. /\ lost \in Seq(Messages) /\ rest \in Seq(Messages) /\ Len(rest) = Len(full) - excess
        /\ Once(rest) /\ \A m : Holds(full, m) <=> Holds(lost, m) \/ Holds(rest, m)
        /\ \A m \in Responses : ~(Holds(lost, m) /\ Holds(rest, m))
    <2>1. IsCut(full, excess, lost, rest)
      BY DEF lost, rest, IsCut
    <2> QED
      BY <1>1, <1>2, <1>4, <2>1, CutQueue, CutOnce
  <1>7. /\ ResponseIds(lost) \subseteq Ids
        /\ \A id \in Ids : id \in ResponseIds(lost) <=> Holds(lost, Response(id))
    BY <1>5, AnswersQueued
  <1>8. \A id \in Ids : Response(id) \in Responses
    BY MessageKinds
  <1>9. /\ jsQueue' \in Seq(Messages) /\ Len(jsQueue') <= MaxJsQueue /\ Once(jsQueue')
        /\ gone' \subseteq Ids
    BY <1>2, <1>3, <1>5, <1>7 DEF QueueTypes
  <1>10. evicted' \in BOOLEAN
    BY <1>3, Zenon
  <1>11. droppedEvents' \in Nat
    BY <1>1, <1>2, <1>3, LenProperties DEF QueueTypes
  <1>12. \A id \in Ids : Holds(jsQueue', Response(id)) \/ id \in gone' <=>
               Holds(jsQueue, Response(id)) \/ id \in gone \/ Holds(msgs, Response(id))
    BY <1>3, <1>4, <1>5, <1>7, Zenon
  <1>13. \A id \in Ids : ~(Holds(jsQueue', Response(id)) /\ id \in gone')
    BY <1>3, <1>4, <1>5, <1>7, <1>8, Zenon
  <1>14. ASSUME ~evicted' PROVE ~evicted /\ jsQueue' = full
    <2>1. ~evicted /\ ~(excess > 0)
      BY <1>3, <1>14, Zenon
    <2>2. excess = 0
      BY <1>2, <2>1
    <2>3. rest = full
      BY <1>1, <2>2, SubSeqFull DEF rest
    <2> QED
      BY <1>3, <2>1, <2>3
  <1> QED
    BY <1>9, <1>10, <1>11, <1>12, <1>13, <1>14 DEF full

\* Post: the same for a page that is there, and otherwise the answers are gone.
LEMMA PostEffect ==
    ASSUME QueueTypes, NEW msgs \in Seq(Messages), Post(msgs),
           Once(jsQueue), Once(msgs),
           \A m \in Responses : ~(Holds(jsQueue, m) /\ Holds(msgs, m)),
           \A id \in Ids : id \in gone =>
               ~Holds(jsQueue, Response(id)) /\ ~Holds(msgs, Response(id))
    PROVE  /\ jsQueue' \in Seq(Messages) /\ Len(jsQueue') <= MaxJsQueue
           /\ gone' \subseteq Ids /\ evicted' \in BOOLEAN /\ droppedEvents' \in Nat
           /\ Once(jsQueue')
           /\ \A id \in Ids : Holds(jsQueue', Response(id)) \/ id \in gone' <=>
                 Holds(jsQueue, Response(id)) \/ id \in gone \/ Holds(msgs, Response(id))
           /\ \A id \in Ids : ~(Holds(jsQueue', Response(id)) /\ id \in gone')
           /\ attached /\ ~evicted' => ~evicted /\ jsQueue' = jsQueue \o msgs
  <1>1. CASE attached
    <2>1. Enqueue(msgs, 0)
      BY <1>1 DEF Post
    <2> QED
      BY <2>1, EnqueueEffect
  <1>2. CASE ~attached
    <2>1. /\ gone' = gone \union ResponseIds(msgs)
          /\ jsQueue' = jsQueue /\ droppedEvents' = droppedEvents /\ evicted' = evicted
      BY <1>2 DEF Post
    <2>2. /\ ResponseIds(msgs) \subseteq Ids
          /\ \A id \in Ids : id \in ResponseIds(msgs) <=> Holds(msgs, Response(id))
      BY AnswersQueued
    <2>3. \A id \in Ids : Response(id) \in Responses
      BY MessageKinds
    <2>4. /\ jsQueue' \in Seq(Messages) /\ Len(jsQueue') <= MaxJsQueue
          /\ gone' \subseteq Ids /\ droppedEvents' \in Nat /\ Once(jsQueue')
      BY <2>1, <2>2 DEF QueueTypes
    <2>5. evicted' \in BOOLEAN
      BY <2>1, Zenon DEF QueueTypes
    <2>6. \A id \in Ids :
            /\ Holds(jsQueue', Response(id)) \/ id \in gone' <=>
                 Holds(jsQueue, Response(id)) \/ id \in gone \/ Holds(msgs, Response(id))
            /\ ~(Holds(jsQueue', Response(id)) /\ id \in gone')
      BY <2>1, <2>2, <2>3, Zenon
    <2> QED
      BY <1>2, <2>4, <2>5, <2>6
  <1> QED
    BY <1>1, <1>2

\* The posts of a settlement: an answer for each of the panel's requests in S,
\* and a status if the bridge's own was among them and changed something.
LEMMA SettlementPostsAre ==
    ASSUME RInv, NEW S \in SUBSET PendingIds, NEW ok \in BOOLEAN,
           NEW posts, posts = SettlementPosts(S, ok)
    PROVE  /\ posts \in Seq(Messages) /\ Once(posts)
           /\ \A id \in Ids : Holds(posts, Response(id)) <=> id \in S /\ pending[id] = "panel"
           /\ \A name \in EventNames : NoneOf(posts, EventsOf(name))
           /\ IF (\E id \in S : pending[id] = "bridge") /\ subscribed # ok
                THEN LastIs(posts, Statuses, Status(connected, ok))
                ELSE NoneOf(posts, Statuses)
  <1> DEFINE posted == {id \in S : pending[id] = "panel" \/ subscribed # ok}
             message(id) == IF pending[id] = "panel" THEN Response(id) ELSE Status(connected, ok)
             order == Ascending(posted)
  <1>1. /\ S \in SUBSET Ids /\ posted \in SUBSET Ids
        /\ \A id \in S : pending[id] \in {"panel", "bridge"}
    BY DEF RInv, RequestTypes, PendingIds, Owners
  <1>2. /\ order \in Seq(posted) /\ order \in Seq(Ids)
        /\ \A id \in posted : \E n \in 1..Len(order) : order[n] = id
        /\ \A m, n \in 1..Len(order) : order[m] = order[n] => m = n
    BY <1>1, AscendingIsAll
  <1>3. posts = [i \in DOMAIN order |-> message(order[i])]
    BY DEF SettlementPosts
  <1>4. Status(connected, ok) \in Statuses
    <2>1. connected \in BOOLEAN
      BY DEF RInv, RequestTypes
    <2> QED
      BY <2>1, MessageKinds
  <1>5. /\ \A id \in Ids : Response(id) \in Responses /\ Response(id) \in Messages
        /\ Status(connected, ok) \in Messages
        /\ \A id \in Ids : Response(id) # Status(connected, ok) /\ Response(id) \notin Statuses
        /\ Status(connected, ok) \notin Responses
    BY <1>4, MessageKinds
  <1> HIDE DEF order
  <1>6. /\ Len(order) \in Nat /\ DOMAIN order = 1..Len(order)
        /\ \A n \in 1..Len(order) : order[n] \in posted
    BY <1>2, LenProperties, ElementOfSeq
  <1>7. \A n \in 1..Len(order) : message(order[n]) \in Messages
    BY <1>1, <1>5, <1>6
  <1>8. posts \in [1..Len(order) -> Messages]
    BY <1>3, <1>6, <1>7
  <1>9. posts \in Seq(Messages) /\ Len(posts) = Len(order)
    BY <1>6, <1>8
  <1>10. \A n \in 1..Len(posts) :
            /\ order[n] \in posted
            /\ posts[n] = IF pending[order[n]] = "panel" THEN Response(order[n])
                                                       ELSE Status(connected, ok)
    BY <1>3, <1>6, <1>9
  <1> HIDE DEF posted
  <1>11. Once(posts)
    <2> SUFFICES ASSUME NEW m \in 1..Len(posts), NEW n \in 1..Len(posts),
                        posts[m] = posts[n], posts[m] \in Responses
                 PROVE  m = n
      BY DEF Once
    <2>1. posts[m] = Response(order[m]) /\ posts[n] = Response(order[n])
      BY <1>5, <1>10
    <2>2. order[m] \in Ids /\ order[n] \in Ids
      BY <1>1, <1>10
    <2>3. order[m] = order[n]
      <3>1. Response(order[m]) = Response(order[n])
        BY <2>1
      <3> QED
        BY ONLY <2>2, <3>1, MessageKinds
    <2> QED
      BY <1>2, <1>9, <2>3
  <1>12. ASSUME NEW id \in Ids
         PROVE  Holds(posts, Response(id)) <=> id \in S /\ pending[id] = "panel"
    <2>1. ASSUME NEW n \in 1..Len(posts), posts[n] = Response(id)
          PROVE  id \in S /\ pending[id] = "panel"
      <3>1. pending[order[n]] = "panel" /\ posts[n] = Response(order[n]) /\ order[n] \in Ids
        BY <1>1, <1>5, <1>10, <2>1
      <3>2. order[n] = id
        BY <2>1, <3>1, MessageKinds
      <3> QED
        BY <1>10, <3>1, <3>2 DEF posted
    <2>2. ASSUME id \in S, pending[id] = "panel" PROVE Holds(posts, Response(id))
      <3>1. id \in posted
        BY <2>2 DEF posted
      <3>2. PICK n \in 1..Len(order) : order[n] = id
        BY <1>2, <3>1
      <3> QED
        BY <1>9, <1>10, <2>2, <3>2 DEF Holds
    <2> QED
      BY <2>1, <2>2 DEF Holds
  <1>13. \A name \in EventNames : NoneOf(posts, EventsOf(name))
    BY <1>1, <1>4, <1>5, <1>10, MessageKinds DEF NoneOf
  <1>14. ASSUME (\E id \in S : pending[id] = "bridge") /\ subscribed # ok
         PROVE  LastIs(posts, Statuses, Status(connected, ok))
    <2>1. PICK id \in S : pending[id] = "bridge"
      BY <1>14
    <2>2. id \in posted
      BY <1>14, <2>1 DEF posted
    <2>3. PICK n \in 1..Len(posts) : order[n] = id
      BY <1>2, <1>9, <2>2
    <2>4. posts[n] = Status(connected, ok)
      BY <1>10, <2>1, <2>3
    <2>5. ASSUME NEW m \in (n + 1)..Len(posts) PROVE posts[m] \notin Statuses
      <3>1. m \in 1..Len(posts) /\ m # n /\ order[m] \in Ids /\ order[m] \in S
        BY <1>1, <1>6, <1>9, <1>10 DEF posted
      <3>2. order[m] # id
        BY <1>2, <1>9, <2>3, <3>1
      <3>3. pending[order[m]] # "bridge"
        BY <1>1, <2>1, <3>1, <3>2 DEF RInv, BridgeSubscribe
      <3>4. posts[m] = Response(order[m])
        BY <1>1, <1>10, <3>1, <3>3
      <3> QED
        BY <1>5, <3>1, <3>4
    <2> QED
      BY <1>4, <2>4, <2>5 DEF LastIs
  <1>15. ASSUME ~((\E id \in S : pending[id] = "bridge") /\ subscribed # ok)
         PROVE  NoneOf(posts, Statuses)
    <2>1. ASSUME NEW n \in 1..Len(posts) PROVE posts[n] \notin Statuses
      <3>1. order[n] \in S /\ order[n] \in Ids /\ pending[order[n]] = "panel"
        BY <1>1, <1>10, <1>15 DEF posted
      <3> QED
        BY <1>5, <1>10, <3>1
    <2> QED
      BY <2>1 DEF NoneOf
  <1> QED
    BY <1>9, <1>11, <1>12, <1>13, <1>14, <1>15
-----------------------------------------------------------------------------
(* The initial state and the steps. *)

LEMMA InitPage == Init => PagePart
  <1> SUFFICES ASSUME Init PROVE PagePart
    OBVIOUS
  <1>1. /\ <<>> \in Seq(Messages) /\ <<>> \in Seq(CachedEvents) /\ <<>> \in Seq(Ids)
        /\ Len(<<>>) = 0
    BY EmptySeq
  <1>2. QueueTypes
    <2>1. evicted \in BOOLEAN
      BY Zenon DEF Init
    <2> QED
      BY <1>1, <2>1, BridgeAssumption DEF Init, QueueTypes
  <1>3. PageTypes
    <2>1. visible \in BOOLEAN
      BY Zenon DEF Init
    <2>2. Status(FALSE, FALSE) \in Statuses
      BY MessageKinds
    <2>3. [name \in EventNames |-> 0] \in [EventNames -> Payloads]
      BY BridgeAssumption DEF Payloads
    <2>4. BlankPage \in [status : Statuses, events : [EventNames -> Payloads]]
      BY <2>2, <2>3 DEF BlankPage
    <2> QED
      BY <1>1, <2>1, <2>4, BridgeAssumption DEF Init, PageTypes
  <1>4. InOnePlace
    <2>1. \A id \in Ids : pending[id] = "none" /\ answers[id] = 0
      BY DEF Init
    <2>2. \A m : ~Holds(jsQueue, m)
      BY <1>1 DEF Init, Holds
    <2> QED
      BY <1>1, <2>1, <2>2 DEF Init, InOnePlace, OnePlace, Once
  <1> QED
    BY <1>1, <1>2, <1>3, <1>4 DEF Init, PagePart, StatusOwed, OneEach, EventsOwed

\* What is posted is of requests that have just got their answer: every id stays
\* in one place.
LEMMA PlacesAfter ==
    ASSUME InOnePlace, NEW msgs, Once(jsQueue'), answers' = answers,
           \A id \in Ids : Holds(jsQueue', Response(id)) \/ id \in gone' <=>
               Holds(jsQueue, Response(id)) \/ id \in gone \/ Holds(msgs, Response(id)),
           \A id \in Ids : ~(Holds(jsQueue', Response(id)) /\ id \in gone'),
           \A id \in Ids : Holds(msgs, Response(id)) => pending[id] = "panel" \/ id \notin panelIds,
           \A id \in Ids : pending'[id] = "panel" <=>
               pending[id] = "panel" /\ ~Holds(msgs, Response(id)),
           \A id \in Ids : id \in panelIds' <=> id \in panelIds \/ Holds(msgs, Response(id))
    PROVE  InOnePlace'
  <1>1. ASSUME NEW id \in Ids PROVE OnePlace(id)'
    BY <1>1 DEF InOnePlace, OnePlace
  <1> QED
    BY <1>1 DEF InOnePlace

\* The posts of a step, onto a queue that has none of their answers yet.
Posts(msgs) == Post(msgs) \/ \E counted \in Nat : Enqueue(msgs, counted)

LEMMA PostKeeps ==
    ASSUME QueueTypes, InOnePlace, NEW msgs \in Seq(Messages), Once(msgs), Posts(msgs),
           answers' = answers,
           \A id \in Ids : Holds(msgs, Response(id)) => pending[id] = "panel" \/ id \notin panelIds,
           \A id \in Ids : pending'[id] = "panel" <=>
               pending[id] = "panel" /\ ~Holds(msgs, Response(id)),
           \A id \in Ids : id \in panelIds' <=> id \in panelIds \/ Holds(msgs, Response(id))
    PROVE  /\ QueueTypes' /\ InOnePlace'
           /\ attached /\ ~evicted' => ~evicted /\ jsQueue' = jsQueue \o msgs
  <1>1. Once(jsQueue)
    BY DEF InOnePlace
  <1>2. \A id \in Ids : Holds(msgs, Response(id)) =>
           id \notin gone /\ ~Holds(jsQueue, Response(id))
    BY DEF InOnePlace, OnePlace
  <1>3. \A id \in Ids : id \in gone =>
           ~Holds(jsQueue, Response(id)) /\ ~Holds(msgs, Response(id))
    BY <1>2 DEF InOnePlace, OnePlace
  <1>4. \A m \in Responses : ~(Holds(jsQueue, m) /\ Holds(msgs, m))
    BY <1>2, MessageKinds
  <1>5. /\ jsQueue' \in Seq(Messages) /\ Len(jsQueue') <= MaxJsQueue
        /\ gone' \subseteq Ids /\ evicted' \in BOOLEAN /\ droppedEvents' \in Nat
        /\ Once(jsQueue')
        /\ \A id \in Ids : Holds(jsQueue', Response(id)) \/ id \in gone' <=>
              Holds(jsQueue, Response(id)) \/ id \in gone \/ Holds(msgs, Response(id))
        /\ \A id \in Ids : ~(Holds(jsQueue', Response(id)) /\ id \in gone')
        /\ attached /\ ~evicted' => ~evicted /\ jsQueue' = jsQueue \o msgs
    <2>1. CASE Post(msgs)
      BY <1>1, <1>3, <1>4, <2>1, PostEffect
    <2>2. CASE \E counted \in Nat : Enqueue(msgs, counted)
      BY <1>1, <1>3, <1>4, <2>2, EnqueueEffect
    <2> QED
      BY <2>1, <2>2 DEF Posts
  <1>6. InOnePlace'
    BY <1>5, PlacesAfter
  <1> QED
    BY <1>5, <1>6 DEF QueueTypes

\* A step that posts every change of the status keeps the page's last one true.
LEMMA PostKeepsStatus ==
    ASSUME QueueTypes, StatusOwed, NEW msgs \in Seq(Messages),
           attached /\ ~evicted' => ~evicted /\ jsQueue' = jsQueue \o msgs,
           attached' => attached, page' = page,
           \/ LastIs(msgs, Statuses, Status(connected', subscribed'))
           \/ NoneOf(msgs, Statuses) /\ connected' = connected /\ subscribed' = subscribed
    PROVE  StatusOwed'
  <1> SUFFICES ASSUME attached', ~evicted'
               PROVE  Ends(jsQueue', Statuses, Status(connected', subscribed'), page'.status)
    BY DEF StatusOwed, Status
  <1>1. ~evicted /\ jsQueue' = jsQueue \o msgs /\ jsQueue \in Seq(Messages)
    BY DEF QueueTypes
  <1>2. Ends(jsQueue, Statuses, Status(connected, subscribed), page.status)
    BY <1>1 DEF StatusOwed
  <1>3. CASE LastIs(msgs, Statuses, Status(connected', subscribed'))
    BY <1>1, <1>3, JoinEnds
  <1>4. CASE NoneOf(msgs, Statuses) /\ connected' = connected /\ subscribed' = subscribed
    BY <1>1, <1>2, <1>4, JoinEnds
  <1> QED
    BY <1>3, <1>4

\* A step that posts no event and loses nothing leaves the page owed what it was.
LEMMA PostKeepsEvents ==
    ASSUME QueueTypes, PageTypes, EventsOwed, NEW msgs \in Seq(Messages),
           attached /\ ~evicted' => ~evicted /\ jsQueue' = jsQueue \o msgs,
           attached' => attached, visible' = visible, page' = page, cache' = cache,
           \A name \in EventNames : NoneOf(msgs, EventsOf(name))
    PROVE  EventsOwed'
  <1> SUFFICES ASSUME attached', visible', ~evicted', NEW i \in 1..Len(cache)
               PROVE  Ends(jsQueue', EventsOf(cache[i].name), EventPost(cache[i]),
                           Shown(cache[i].name)')
    BY DEF EventsOwed, EventsOf, EventPost, Payloads
  <1>1. ~evicted /\ jsQueue' = jsQueue \o msgs /\ jsQueue \in Seq(Messages)
    BY DEF QueueTypes
  <1>2. Shown(cache[i].name)' = Shown(cache[i].name)
    BY DEF Shown, EventPost
  <1>3. Ends(jsQueue, EventsOf(cache[i].name), EventPost(cache[i]), Shown(cache[i].name))
    BY <1>1 DEF EventsOwed
  <1>4. cache[i].name \in EventNames
    <2>1. cache[i] \in CachedEvents
      BY ElementOfSeq DEF PageTypes
    <2> QED
      BY <2>1, MessageKinds
  <1> QED
    BY <1>1, <1>2, <1>3, <1>4, JoinEnds

\* submit, answered by the plugin: the answer is of an id that was nowhere.
LEMMA SubmitLocalPage == PInv /\ SubmitLocal => PagePart'
  <1> SUFFICES ASSUME RInv, PagePart, SubmitLocal PROVE PagePart'
    BY DEF PInv
  <1> DEFINE n == nextRequestId
             msgs == <<Response(nextRequestId)>>
  <1>1. /\ n \in Ids /\ n \notin panelIds
        /\ panelIds' = panelIds \union {n} /\ pending' = pending
        /\ Post(msgs) /\ answers' = answers /\ page' = page
        /\ connected' = connected /\ subscribed' = subscribed
        /\ attached' = attached /\ visible' = visible
        /\ notifyQueue' = notifyQueue /\ cache' = cache /\ heard' = heard
        /\ socketFrames' = socketFrames /\ toggles' = toggles
    BY BridgeAssumption DEF SubmitLocal, RInv, RequestTypes, Ids, linkVars, eventVars
  <1>2. QueueTypes /\ PageTypes /\ InOnePlace /\ StatusOwed /\ OneEach /\ EventsOwed
    BY DEF PagePart
  <1>3. /\ Response(n) \in Messages /\ Response(n) \in Responses
        /\ Response(n) \notin Statuses
        /\ \A name \in EventNames : Response(n) \notin EventsOf(name)
    BY <1>1, MessageKinds
  <1>4. msgs \in Seq(Messages) /\ Len(msgs) = 1 /\ msgs[1] = Response(n)
    BY <1>3
  <1> HIDE DEF msgs
  <1>5. /\ Once(msgs) /\ NoneOf(msgs, Statuses)
        /\ \A name \in EventNames : NoneOf(msgs, EventsOf(name))
    BY <1>3, <1>4 DEF Once, NoneOf
  <1>6. \A id \in Ids : Holds(msgs, Response(id)) <=> id = n
    BY <1>1, <1>4, MessageKinds DEF Holds
  <1>7. pending[n] # "panel"
    BY <1>1 DEF RInv, IdsInOrder
  <1>8. /\ QueueTypes' /\ InOnePlace'
        /\ attached /\ ~evicted' => ~evicted /\ jsQueue' = jsQueue \o msgs
    <2>1. \A id \in Ids : pending'[id] = "panel" <=>
             pending[id] = "panel" /\ ~Holds(msgs, Response(id))
      BY <1>1, <1>6, <1>7
    <2>2. \A id \in Ids : id \in panelIds' <=> id \in panelIds \/ Holds(msgs, Response(id))
      BY <1>1, <1>6
    <2>3. \A id \in Ids : Holds(msgs, Response(id)) => pending[id] = "panel" \/ id \notin panelIds
      BY <1>1, <1>6
    <2>4. Posts(msgs)
      BY <1>1, Zenon DEF Posts
    <2> QED
      BY <1>1, <1>2, <1>4, <1>5, <2>1, <2>2, <2>3, <2>4, PostKeeps
  <1>9. StatusOwed'
    BY <1>1, <1>2, <1>4, <1>5, <1>8, PostKeepsStatus
  <1>10. EventsOwed'
    BY <1>1, <1>2, <1>4, <1>5, <1>8, PostKeepsEvents
  <1>11. PageTypes' /\ OneEach'
    BY <1>1, <1>2 DEF PageTypes, OneEach
  <1> QED
    BY <1>8, <1>9, <1>10, <1>11 DEF PagePart

\* A step that posts nothing, and moves only what is owed to the console.
LEMMA QuietPage ==
    ASSUME PagePart, PageTypes',
           UNCHANGED <<connected, subscribed, attached, visible, jsQueue, droppedEvents, gone,
                       evicted, cache, answers, page>>,
           \A id \in Ids : pending'[id] = "panel" <=> pending[id] = "panel",
           panelIds' = panelIds
    PROVE  PagePart'
  <1>1. QueueTypes' /\ OneEach'
    BY DEF PagePart, QueueTypes, OneEach
  <1>2. InOnePlace'
    BY DEF PagePart, InOnePlace, OnePlace
  <1>3. StatusOwed'
    BY DEF PagePart, StatusOwed, Status
  <1>4. EventsOwed'
    BY DEF PagePart, EventsOwed, EventPost, Shown
  <1> QED
    BY <1>1, <1>2, <1>3, <1>4 DEF PagePart

\* submit, proxied: the id was nowhere and is awaited now.
LEMMA SubmitPage == PInv /\ Submit => PagePart'
  <1> SUFFICES ASSUME RInv, PagePart, Submit PROVE PagePart'
    BY DEF PInv
  <1> DEFINE n == nextRequestId
  <1>1. /\ n \in Ids /\ n \notin panelIds
        /\ panelIds' = panelIds \union {n}
        /\ pending' = [pending EXCEPT ![n] = "panel"] /\ pending \in [Ids -> Owners]
        /\ jsQueue' = jsQueue /\ gone' = gone /\ evicted' = evicted
        /\ droppedEvents' = droppedEvents
        /\ answers' = answers /\ page' = page
        /\ connected' = connected /\ subscribed' = subscribed
        /\ attached' = attached /\ visible' = visible
        /\ notifyQueue' = notifyQueue /\ cache' = cache /\ heard' = heard
        /\ socketFrames' = Append(socketFrames, n) /\ toggles' = toggles
    BY BridgeAssumption
       DEF Submit, RInv, RequestTypes, Ids, linkVars, eventVars, queueVars
  <1>2. QueueTypes /\ PageTypes /\ InOnePlace /\ StatusOwed /\ OneEach /\ EventsOwed
    BY DEF PagePart
  <1>3. InOnePlace'
    <2>1. ASSUME NEW id \in Ids PROVE OnePlace(id)'
      <3>1. pending'[id] = IF id = n THEN "panel" ELSE pending[id]
        BY <1>1
      <3>2. pending[n] # "panel"
        BY <1>1 DEF RInv, IdsInOrder
      <3> QED
        BY <1>1, <1>2, <3>1, <3>2 DEF InOnePlace, OnePlace
    <2> QED
      BY <1>1, <1>2, <2>1 DEF InOnePlace
  <1>4. PageTypes'
    <2>1. Append(socketFrames, n) \in Seq(Ids)
      BY <1>1, <1>2, AppendProperties DEF PageTypes
    <2> QED
      BY <1>1, <1>2, <2>1 DEF PageTypes
  <1>5. QueueTypes' /\ OneEach' /\ StatusOwed'
    BY <1>1, <1>2 DEF QueueTypes, OneEach, StatusOwed, Status
  <1>6. EventsOwed'
    BY <1>1, <1>2 DEF EventsOwed, EventPost, Shown
  <1> QED
    BY <1>3, <1>4, <1>5, <1>6 DEF PagePart

LEMMA QuietStepPage ==
    ASSUME PInv,
           TakeSocketFrames \/ TakeNotificationEvent \/ DeadlinePasses \/ UNCHANGED vars
    PROVE  PagePart'
  <1>1. PagePart /\ PageTypes
    BY DEF PInv, PagePart
  <1>2. /\ UNCHANGED <<connected, subscribed, attached, visible, jsQueue, droppedEvents, gone,
                       evicted, cache, answers, page>>
        /\ pending' = pending /\ panelIds' = panelIds
        /\ heard' = heard /\ toggles' = toggles
        /\ socketFrames' \in {socketFrames, <<>>}
        /\ notifyQueue' = notifyQueue \/ (notifyQueue # <<>> /\ notifyQueue' = Tail(notifyQueue))
    BY DEF TakeSocketFrames, TakeNotificationEvent, DeadlinePasses, vars, requestVars,
           linkVars, queueVars, eventVars, pageVars
  <1>3. notifyQueue' \in Seq(CachedEvents) /\ Len(notifyQueue') <= MaxJsQueue
    <2>1. CASE notifyQueue' = notifyQueue
      BY <1>1, <2>1 DEF PageTypes
    <2>2. CASE notifyQueue # <<>> /\ notifyQueue' = Tail(notifyQueue)
      <3>1. /\ Tail(notifyQueue) \in Seq(CachedEvents)
            /\ Len(Tail(notifyQueue)) = Len(notifyQueue) - 1
            /\ Len(notifyQueue) \in Nat
        BY <1>1, <2>2, HeadTailProperties, LenProperties DEF PageTypes
      <3> QED
        BY <1>1, <2>2, <3>1, BridgeAssumption DEF PageTypes
    <2> QED
      BY <1>2, <2>1, <2>2
  <1>4. PageTypes'
    <2>1. socketFrames' \in Seq(Ids)
      BY <1>1, <1>2, EmptySeq DEF PageTypes
    <2> QED
      BY <1>1, <1>2, <1>3, <2>1 DEF PageTypes
  <1> QED
    BY <1>1, <1>2, <1>4, QuietPage

\* An answer, or a round of timeouts: what is settled is what is posted.
LEMMA SettlePage ==
    ASSUME PInv, NEW S \in SUBSET PendingIds, NEW ok \in BOOLEAN, SettleAndPost(S, ok)
    PROVE  PagePart'
  <1> DEFINE msgs == SettlementPosts(S, ok)
  <1>1. /\ RInv /\ QueueTypes /\ PageTypes /\ InOnePlace /\ StatusOwed /\ OneEach
        /\ EventsOwed
    BY DEF PInv, PagePart
  <1>2. /\ Settle(S) /\ S \in SUBSET Ids /\ Post(msgs)
        /\ subscribed' = IF \E id \in S : pending[id] = "bridge" THEN ok ELSE subscribed
        /\ connected' = connected /\ attached' = attached /\ visible' = visible
        /\ notifyQueue' = notifyQueue /\ cache' = cache /\ heard' = heard
        /\ panelIds' = panelIds /\ answers' = answers /\ page' = page
        /\ socketFrames' = socketFrames /\ toggles' = toggles
    BY DEF SettleAndPost, Settle, eventVars, pageVars, PendingIds
  <1>3. /\ msgs \in Seq(Messages) /\ Once(msgs)
        /\ \A id \in Ids : Holds(msgs, Response(id)) <=> id \in S /\ pending[id] = "panel"
        /\ \A name \in EventNames : NoneOf(msgs, EventsOf(name))
        /\ IF (\E id \in S : pending[id] = "bridge") /\ subscribed # ok
             THEN LastIs(msgs, Statuses, Status(connected, ok))
             ELSE NoneOf(msgs, Statuses)
    BY <1>1, SettlementPostsAre
  <1> HIDE DEF msgs
  <1>4. \A id \in Ids : pending'[id] = "panel" <=> pending[id] = "panel" /\ id \notin S
    BY <1>1, <1>2, SettleEffect
  <1>5. /\ QueueTypes' /\ InOnePlace'
        /\ attached /\ ~evicted' => ~evicted /\ jsQueue' = jsQueue \o msgs
    <2>1. \A id \in Ids : pending'[id] = "panel" <=>
             pending[id] = "panel" /\ ~Holds(msgs, Response(id))
      BY <1>3, <1>4
    <2>2. \A id \in Ids : id \in panelIds' <=> id \in panelIds \/ Holds(msgs, Response(id))
      BY <1>1, <1>2, <1>3 DEF RInv, IdsInOrder
    <2>3. Posts(msgs)
      BY <1>2, Zenon DEF Posts
    <2> QED
      BY <1>1, <1>2, <1>3, <2>1, <2>2, <2>3, PostKeeps
  <1>6. \/ LastIs(msgs, Statuses, Status(connected', subscribed'))
        \/ NoneOf(msgs, Statuses) /\ connected' = connected /\ subscribed' = subscribed
    <2>1. CASE (\E id \in S : pending[id] = "bridge") /\ subscribed # ok
      BY <1>2, <1>3, <2>1
    <2>2. CASE ~((\E id \in S : pending[id] = "bridge") /\ subscribed # ok)
      BY <1>2, <1>3, <2>2
    <2> QED
      BY <2>1, <2>2
  <1>7. StatusOwed'
    BY <1>1, <1>2, <1>3, <1>5, <1>6, PostKeepsStatus
  <1>8. EventsOwed'
    BY <1>1, <1>2, <1>3, <1>5, PostKeepsEvents
  <1>9. PageTypes' /\ OneEach'
    BY <1>1, <1>2 DEF PageTypes, OneEach
  <1> QED
    BY <1>5, <1>7, <1>8, <1>9 DEF PagePart

\* replay_locked: a status, and of each event that is cached its newest payload.
LEMMA ReplayPosts ==
    ASSUME cache \in Seq(CachedEvents), OneEach, NEW c \in BOOLEAN, NEW s \in BOOLEAN,
           NEW msgs, msgs = Replay(c, s)
    PROVE  /\ msgs \in Seq(Messages) /\ Once(msgs) /\ \A id \in Ids : ~Holds(msgs, Response(id))
           /\ LastIs(msgs, Statuses, Status(c, s))
           /\ \A i \in 1..Len(cache) : LastIs(msgs, EventsOf(cache[i].name), EventPost(cache[i]))
  <1> DEFINE events == [i \in DOMAIN cache |-> EventPost(cache[i])]
             size == Len(cache)
  <1>1. /\ size \in Nat /\ DOMAIN cache = 1..size
        /\ \A i \in 1..size : cache[i] \in CachedEvents
    BY ElementOfSeq, LenProperties
  <1>2. \A i \in 1..size : /\ EventPost(cache[i]) \in EventsOf(cache[i].name)
                           /\ cache[i].name \in EventNames
                           /\ EventPost(cache[i]) \in Messages
                           /\ EventPost(cache[i]) \notin Responses
                           /\ EventPost(cache[i]) \notin Statuses
    BY <1>1, MessageKinds
  <1>3. /\ Status(c, s) \in Statuses /\ Status(c, s) \in Messages
        /\ Status(c, s) \notin Responses
    BY MessageKinds
  <1>4. events \in [1..size -> Messages]
    BY <1>1, <1>2
  <1>5. events \in Seq(Messages) /\ Len(events) = size
    BY <1>1, <1>4
  <1>6. \A i \in 1..size : events[i] = EventPost(cache[i])
    BY <1>1
  <1>7. <<Status(c, s)>> \in Seq(Messages) /\ Len(<<Status(c, s)>>) = 1
    BY <1>3
  <1>8. msgs = <<Status(c, s)>> \o events
    BY DEF Replay
  <1> HIDE DEF events, size
  <1>9. msgs \in Seq(Messages) /\ Len(msgs) = 1 + size
    BY <1>5, <1>7, <1>8, ConcatProperties
  <1>10. msgs[1] = Status(c, s) /\ \A i \in 1..size : msgs[i + 1] = EventPost(cache[i])
    BY <1>1, <1>5, <1>6, <1>7, <1>8, ConcatProperties
  <1>11. \A j \in 1..Len(msgs) : msgs[j] \notin Responses
    <2>1. ASSUME NEW j \in 1..Len(msgs) PROVE j = 1 \/ (j - 1 \in 1..size /\ j = (j - 1) + 1)
      BY <1>1, <1>9
    <2> QED
      BY <1>2, <1>3, <1>10, <2>1
  <1>12. Once(msgs)
    BY <1>11 DEF Once
  <1>13. \A id \in Ids : ~Holds(msgs, Response(id))
    BY <1>11, MessageKinds DEF Holds
  <1>14. LastIs(msgs, Statuses, Status(c, s))
    <2>1. ASSUME NEW j \in (1 + 1)..Len(msgs) PROVE msgs[j] \notin Statuses
      <3>1. j - 1 \in 1..size /\ j = (j - 1) + 1
        BY <1>1, <1>9
      <3> QED
        BY <1>2, <1>10, <3>1
    <2>2. 1 \in 1..Len(msgs)
      BY <1>1, <1>9
    <2> QED
      BY <1>3, <1>10, <2>1, <2>2 DEF LastIs
  <1>15. ASSUME NEW i \in 1..size
         PROVE  LastIs(msgs, EventsOf(cache[i].name), EventPost(cache[i]))
    <2>1. ASSUME NEW j \in ((i + 1) + 1)..Len(msgs)
          PROVE  msgs[j] \notin EventsOf(cache[i].name)
      <3>1. j - 1 \in 1..size /\ j = (j - 1) + 1 /\ j - 1 # i
        BY <1>1, <1>9
      <3>2. cache[j - 1].name # cache[i].name
        BY <3>1 DEF OneEach, size
      <3>3. msgs[j] = EventPost(cache[j - 1])
        BY <1>10, <3>1
      <3> QED
        BY <3>2, <3>3 DEF EventsOf, EventPost
    <2>2. i + 1 \in 1..Len(msgs)
      BY <1>1, <1>9
    <2> QED
      BY <1>2, <1>10, <2>1, <2>2 DEF LastIs
  <1> QED
    BY <1>9, <1>12, <1>13, <1>14, <1>15 DEF size

\* subscribe_locked or not: the panel's requests are the same, and the frames
\* are still of ids.
LEMMA MaySubscribe ==
    ASSUME RInv, PageTypes, Subscribe \/ UNCHANGED requestVars
    PROVE  /\ \A id \in Ids : pending'[id] = "panel" <=> pending[id] = "panel"
           /\ socketFrames' \in Seq(Ids)
  <1>1. CASE Subscribe
    <2>1. /\ nextRequestId \in Ids
          /\ \A id \in Ids : pending'[id] = "panel" <=> pending[id] = "panel"
      BY <1>1, SubscribeEffect
    <2>2. socketFrames' = Append(socketFrames, nextRequestId)
      BY <1>1 DEF Subscribe
    <2> QED
      BY <2>1, <2>2, AppendProperties DEF PageTypes
  <1>2. CASE UNCHANGED requestVars
    BY <1>2 DEF requestVars, PageTypes
  <1> QED
    BY <1>1, <1>2

\* attach_panel: the queue is a replay, which ends in what is current.
LEMMA AttachPage == PInv /\ AttachPanel => PagePart'
  <1> SUFFICES ASSUME RInv, PagePart, AttachPanel PROVE PagePart'
    BY DEF PInv
  <1> DEFINE posts == Replay(connected, subscribed)
             over  == Overflow(posts)
             lost  == SubSeq(posts, 1, over)
             rest  == SubSeq(posts, over + 1, Len(posts))
  <1>1. QueueTypes /\ PageTypes /\ InOnePlace /\ StatusOwed /\ OneEach /\ EventsOwed
    BY DEF PagePart
  <1>2. /\ attached' = TRUE /\ visible' = TRUE /\ page' = BlankPage
        /\ Subscribe \/ UNCHANGED requestVars
        /\ toggles' = toggles + 1
        /\ gone' = gone \union ResponseIds(jsQueue)
        /\ connected' = connected /\ subscribed' = subscribed
        /\ notifyQueue' = notifyQueue /\ cache' = cache /\ heard' = heard
        /\ panelIds' = panelIds /\ answers' = answers
    BY DEF AttachPanel, Toggle, eventVars
  <1>3. /\ jsQueue' = rest /\ droppedEvents' = droppedEvents + over /\ evicted' = (over > 0)
    BY DEF AttachPanel
  <1>4. connected \in BOOLEAN /\ subscribed \in BOOLEAN
    BY DEF RInv, RequestTypes
  <1>5. /\ posts \in Seq(Messages) /\ Once(posts)
        /\ \A id \in Ids : ~Holds(posts, Response(id))
        /\ LastIs(posts, Statuses, Status(connected, subscribed))
        /\ \A i \in 1..Len(cache) : LastIs(posts, EventsOf(cache[i].name), EventPost(cache[i]))
    BY <1>1, <1>4, ReplayPosts DEF PageTypes
  <1>6. over \in 0..Len(posts) /\ Len(posts) - over <= MaxJsQueue /\ Len(posts) \in Nat
    BY <1>5, OverflowFits, LenProperties
  <1>7. /\ rest \in Seq(Messages) /\ Len(rest) = Len(posts) - over /\ Once(rest)
        /\ \A m : Holds(posts, m) <=> Holds(lost, m) \/ Holds(rest, m)
    <2>1. IsCut(posts, over, lost, rest)
      BY DEF IsCut
    <2> HIDE DEF posts, over, lost, rest
    <2> QED
      BY <1>5, <1>6, <2>1, CutQueue, CutOnce
  <1>8. ASSUME ~evicted' PROVE rest = posts
    <2> HIDE DEF over
    <2>1. ~(over > 0)
      BY <1>3, <1>8, Zenon
    <2>2. over = 0
      BY <1>6, <2>1
    <2> QED
      BY <1>5, <2>2, SubSeqFull
  <1>9. /\ \A id \in Ids : pending'[id] = "panel" <=> pending[id] = "panel"
        /\ socketFrames' \in Seq(Ids)
    BY <1>1, <1>2, MaySubscribe
  <1>10. /\ ResponseIds(jsQueue) \subseteq Ids
         /\ \A id \in Ids : id \in ResponseIds(jsQueue) <=> Holds(jsQueue, Response(id))
    BY <1>1, AnswersQueued DEF QueueTypes
  <1> HIDE DEF posts, over, lost, rest
  <1>11. QueueTypes'
    <2>1. evicted' \in BOOLEAN
      BY <1>3
    <2>2. droppedEvents' \in Nat
      BY <1>1, <1>3, <1>6 DEF QueueTypes
    <2>3. gone' \subseteq Ids
      BY <1>1, <1>2, <1>10 DEF QueueTypes
    <2> QED
      BY <1>3, <1>6, <1>7, <2>1, <2>2, <2>3 DEF QueueTypes
  <1>12. InOnePlace'
    <2>1. ASSUME NEW id \in Ids PROVE OnePlace(id)'
      <3>1. ~Holds(jsQueue', Response(id))
        BY <1>3, <1>5, <1>7
      <3>2. id \in gone' <=> id \in gone \/ Holds(jsQueue, Response(id))
        BY <1>2, <1>10
      <3> QED
        BY <1>1, <1>2, <1>9, <3>1, <3>2 DEF InOnePlace, OnePlace
    <2> QED
      BY <1>3, <1>7, <2>1 DEF InOnePlace
  <1>13. StatusOwed'
    BY <1>2, <1>3, <1>5, <1>8 DEF StatusOwed, Ends, Status
  <1>14. EventsOwed'
    BY <1>2, <1>3, <1>5, <1>8 DEF EventsOwed, Ends, EventPost
  <1>15. BlankPage \in [status : Statuses, events : [EventNames -> Payloads]]
    <2>1. Status(FALSE, FALSE) \in Statuses
      BY MessageKinds
    <2>2. [name \in EventNames |-> 0] \in [EventNames -> Payloads]
      BY BridgeAssumption DEF Payloads
    <2> QED
      BY <2>1, <2>2 DEF BlankPage
  <1>16. PageTypes' /\ OneEach'
    <2>1. visible' \in BOOLEAN
      BY <1>2, Zenon
    <2> QED
      BY <1>1, <1>2, <1>9, <1>15, <2>1 DEF PageTypes, OneEach
  <1> QED
    BY <1>11, <1>12, <1>13, <1>14, <1>16 DEF PagePart

\* detach_panel: what was awaited or queued is gone.
LEMMA DetachPage == PInv /\ DetachPanel => PagePart'
  <1> SUFFICES ASSUME RInv, PagePart, DetachPanel PROVE PagePart'
    BY DEF PInv
  <1>1. QueueTypes /\ PageTypes /\ InOnePlace /\ OneEach
    BY DEF PagePart
  <1>2. /\ attached' = FALSE /\ visible' = FALSE /\ jsQueue' = <<>>
        /\ pending' = [id \in Ids |-> "none"] /\ toggles' = toggles + 1
        /\ gone' = gone \union ResponseIds(jsQueue) \union {id \in Ids : pending[id] = "panel"}
        /\ socketFrames' = socketFrames
        /\ droppedEvents' = droppedEvents /\ evicted' = evicted
        /\ notifyQueue' = notifyQueue /\ cache' = cache /\ heard' = heard
        /\ panelIds' = panelIds /\ answers' = answers /\ page' = page
    BY DEF DetachPanel, Toggle, eventVars, pageVars
  <1>3. /\ ResponseIds(jsQueue) \subseteq Ids
        /\ \A id \in Ids : id \in ResponseIds(jsQueue) <=> Holds(jsQueue, Response(id))
    BY <1>1, AnswersQueued DEF QueueTypes
  <1>4. <<>> \in Seq(Messages) /\ Len(<<>>) = 0
    BY EmptySeq
  <1>5. QueueTypes'
    <2>1. evicted' \in BOOLEAN
      BY <1>1, <1>2, Zenon DEF QueueTypes
    <2> QED
      BY <1>1, <1>2, <1>3, <1>4, <2>1, BridgeAssumption DEF QueueTypes
  <1>6. InOnePlace'
    <2>1. ASSUME NEW id \in Ids PROVE OnePlace(id)'
      <3>1. ~Holds(jsQueue', Response(id)) /\ pending'[id] # "panel"
        BY <1>2, <1>4 DEF Holds
      <3>2. id \in gone' <=> id \in gone \/ Holds(jsQueue, Response(id)) \/ pending[id] = "panel"
        BY <1>2, <1>3
      <3> QED
        BY <1>1, <1>2, <3>1, <3>2 DEF InOnePlace, OnePlace
    <2> QED
      BY <1>2, <1>4, <2>1 DEF InOnePlace, Once
  <1>7. PageTypes'
    <2>1. visible' \in BOOLEAN
      BY <1>2, Zenon
    <2> QED
      BY <1>1, <1>2, <2>1 DEF PageTypes
  <1> QED
    BY <1>1, <1>2, <1>5, <1>6, <1>7 DEF PagePart, StatusOwed, EventsOwed, OneEach

\* set_panel_visible: hidden, the page is owed nothing more; shown, a replay.
LEMMA VisiblePage == PInv /\ SetPanelVisible => PagePart'
  <1> SUFFICES ASSUME RInv, PagePart, SetPanelVisible PROVE PagePart'
    BY DEF PInv
  <1> DEFINE msgs == IF visible' THEN Replay(connected, subscribed) ELSE <<>>
  <1>1. QueueTypes /\ PageTypes /\ InOnePlace /\ StatusOwed /\ OneEach /\ EventsOwed
    BY DEF PagePart
  <1>2. /\ visible' = ~visible /\ Post(msgs) /\ toggles' = toggles + 1
        /\ pending' = pending /\ socketFrames' = socketFrames
        /\ connected' = connected /\ subscribed' = subscribed /\ attached' = attached
        /\ notifyQueue' = notifyQueue /\ cache' = cache /\ heard' = heard
        /\ panelIds' = panelIds /\ answers' = answers /\ page' = page
    BY DEF SetPanelVisible, Toggle, requestVars, eventVars, pageVars
  <1>3. connected \in BOOLEAN /\ subscribed \in BOOLEAN
    BY DEF RInv, RequestTypes
  <1>4. /\ msgs \in Seq(Messages) /\ Once(msgs) /\ \A id \in Ids : ~Holds(msgs, Response(id))
        /\ \/ LastIs(msgs, Statuses, Status(connected, subscribed)) \/ NoneOf(msgs, Statuses)
        /\ visible' => \A i \in 1..Len(cache) :
                          LastIs(msgs, EventsOf(cache[i].name), EventPost(cache[i]))
    <2>1. CASE visible'
      BY <1>1, <1>3, <2>1, ReplayPosts DEF PageTypes
    <2>2. CASE ~visible'
      <3>1. msgs = <<>> /\ <<>> \in Seq(Messages) /\ Len(<<>>) = 0
        BY <2>2, EmptySeq
      <3> HIDE DEF msgs
      <3> QED
        BY <2>2, <3>1 DEF Once, Holds, NoneOf
    <2> QED
      BY <2>1, <2>2
  <1> HIDE DEF msgs
  <1>5. /\ QueueTypes' /\ InOnePlace'
        /\ attached /\ ~evicted' => ~evicted /\ jsQueue' = jsQueue \o msgs
    <2>1. Posts(msgs)
      BY <1>2, Zenon DEF Posts
    <2> QED
      BY <1>1, <1>2, <1>4, <2>1, PostKeeps
  <1>6. StatusOwed'
    BY <1>1, <1>2, <1>4, <1>5, PostKeepsStatus
  <1>7. EventsOwed'
    <2> SUFFICES ASSUME attached', visible', ~evicted', NEW i \in 1..Len(cache)
                 PROVE  Ends(jsQueue', EventsOf(cache[i].name), EventPost(cache[i]),
                             Shown(cache[i].name)')
      BY <1>2 DEF EventsOwed, EventsOf, EventPost, Payloads
    <2>1. jsQueue' = jsQueue \o msgs /\ jsQueue \in Seq(Messages)
      BY <1>1, <1>2, <1>5 DEF QueueTypes
    <2>2. LastIs(msgs, EventsOf(cache[i].name), EventPost(cache[i]))
      BY <1>4
    <2> QED
      BY <1>4, <2>1, <2>2, JoinEnds
  <1>8. PageTypes' /\ OneEach'
    <2>1. visible' \in BOOLEAN
      BY <1>1, <1>2, Zenon DEF PageTypes
    <2> QED
      BY <1>1, <1>2, <2>1 DEF PageTypes, OneEach
  <1> QED
    BY <1>5, <1>6, <1>7, <1>8 DEF PagePart

LEMMA OneMessage ==
    ASSUME NEW m \in Messages, NEW msgs, msgs = <<m>>
    PROVE  /\ msgs \in Seq(Messages) /\ Once(msgs)
           /\ \A n : Holds(msgs, n) <=> n = m
           /\ \A S : IF m \in S THEN LastIs(msgs, S, m) ELSE NoneOf(msgs, S)
  <1>1. msgs \in Seq(Messages) /\ Len(msgs) = 1 /\ msgs[1] = m
    OBVIOUS
  <1>2. \A i \in 1..Len(msgs) : i = 1
    BY <1>1
  <1>3. Once(msgs)
    BY <1>2 DEF Once
  <1>4. \A n : Holds(msgs, n) <=> n = m
    BY <1>1, <1>2 DEF Holds
  <1>5. ASSUME NEW S, m \in S PROVE LastIs(msgs, S, m)
    <2>1. 1 \in 1..Len(msgs) /\ \A j \in (1 + 1)..Len(msgs) : FALSE
      BY <1>1
    <2> QED
      BY <1>1, <1>5, <2>1 DEF LastIs
  <1>6. ASSUME NEW S, m \notin S PROVE NoneOf(msgs, S)
    BY <1>1, <1>2, <1>6 DEF NoneOf
  <1> QED
    BY <1>1, <1>3, <1>4, <1>5, <1>6

\* set_connected(true): the status follows, whether or not it subscribes.
LEMMA ConnectedPage == PInv /\ SetConnected => PagePart'
  <1> SUFFICES ASSUME RInv, PagePart, SetConnected PROVE PagePart'
    BY DEF PInv
  <1> DEFINE msgs == <<Status(TRUE, subscribed)>>
  <1>1. QueueTypes /\ PageTypes /\ InOnePlace /\ StatusOwed /\ OneEach /\ EventsOwed
    BY DEF PagePart
  <1>2. /\ connected' = TRUE /\ Post(msgs) /\ toggles' = toggles + 1
        /\ Subscribe \/ UNCHANGED requestVars
        /\ subscribed' = subscribed /\ attached' = attached /\ visible' = visible
        /\ notifyQueue' = notifyQueue /\ cache' = cache /\ heard' = heard
        /\ panelIds' = panelIds /\ answers' = answers /\ page' = page
    BY DEF SetConnected, Toggle, eventVars, pageVars
  <1>3. /\ \A id \in Ids : pending'[id] = "panel" <=> pending[id] = "panel"
        /\ socketFrames' \in Seq(Ids)
    BY <1>1, <1>2, MaySubscribe
  <1>4. /\ Status(TRUE, subscribed) \in Statuses /\ Status(TRUE, subscribed) \in Messages
        /\ Status(TRUE, subscribed) \notin Responses
        /\ \A name \in EventNames : Status(TRUE, subscribed) \notin EventsOf(name)
    <2>1. subscribed \in BOOLEAN
      BY DEF RInv, RequestTypes
    <2> QED
      BY <2>1, MessageKinds
  <1>5. /\ msgs \in Seq(Messages) /\ Once(msgs)
        /\ \A m : Holds(msgs, m) <=> m = Status(TRUE, subscribed)
        /\ LastIs(msgs, Statuses, Status(TRUE, subscribed))
        /\ \A name \in EventNames : NoneOf(msgs, EventsOf(name))
    BY <1>4, OneMessage
  <1> HIDE DEF msgs
  <1>6. \A id \in Ids : ~Holds(msgs, Response(id))
    BY <1>4, <1>5, MessageKinds
  <1>7. LastIs(msgs, Statuses, Status(connected', subscribed'))
    BY <1>2, <1>5
  <1>8. /\ QueueTypes' /\ InOnePlace'
        /\ attached /\ ~evicted' => ~evicted /\ jsQueue' = jsQueue \o msgs
    <2>1. Posts(msgs)
      BY <1>2, Zenon DEF Posts
    <2> QED
      BY <1>1, <1>2, <1>3, <1>5, <1>6, <2>1, PostKeeps
  <1>9. StatusOwed'
    BY <1>1, <1>2, <1>5, <1>7, <1>8, PostKeepsStatus
  <1>10. EventsOwed'
    BY <1>1, <1>2, <1>5, <1>8, PostKeepsEvents
  <1>11. PageTypes' /\ OneEach'
    BY <1>1, <1>2, <1>3 DEF PageTypes, OneEach
  <1> QED
    BY <1>8, <1>9, <1>10, <1>11 DEF PagePart

\* fail_all_locked: an answer for each of the panel's requests.
LEMMA FailuresPosted ==
    ASSUME NEW mine, mine = Ascending(PanelPending),
           NEW msgs, msgs = [i \in DOMAIN mine |-> Response(mine[i])]
    PROVE  /\ msgs \in Seq(Messages) /\ Once(msgs)
           /\ \A id \in Ids : Holds(msgs, Response(id)) <=> pending[id] = "panel"
           /\ \A name \in EventNames : NoneOf(msgs, EventsOf(name))
  <1>1. PanelPending \in SUBSET Ids
    BY DEF PanelPending
  <1>2. /\ mine \in Seq(PanelPending)
        /\ \A id \in PanelPending : \E n \in 1..Len(mine) : mine[n] = id
        /\ \A m, n \in 1..Len(mine) : mine[m] = mine[n] => m = n
    BY <1>1, AscendingIsAll
  <1>3. /\ Len(mine) \in Nat /\ DOMAIN mine = 1..Len(mine)
        /\ \A n \in 1..Len(mine) : mine[n] \in PanelPending /\ mine[n] \in Ids
    BY <1>1, <1>2, LenProperties, ElementOfSeq
  <1>4. \A n \in 1..Len(mine) : Response(mine[n]) \in Responses /\ Response(mine[n]) \in Messages
    BY <1>3, MessageKinds
  <1>5. msgs \in [1..Len(mine) -> Messages]
    BY <1>3, <1>4
  <1>6. msgs \in Seq(Messages) /\ Len(msgs) = Len(mine)
    BY <1>3, <1>5
  <1>7. \A n \in 1..Len(msgs) : msgs[n] = Response(mine[n])
    BY <1>3, <1>6
  <1>8. Once(msgs)
    <2> SUFFICES ASSUME NEW m \in 1..Len(msgs), NEW n \in 1..Len(msgs), msgs[m] = msgs[n]
                 PROVE  m = n
      BY DEF Once
    <2>1. mine[m] = mine[n]
      BY <1>3, <1>6, <1>7, MessageKinds
    <2> QED
      BY <1>2, <1>6, <2>1
  <1>9. ASSUME NEW id \in Ids PROVE Holds(msgs, Response(id)) <=> pending[id] = "panel"
    <2>1. ASSUME NEW n \in 1..Len(msgs), msgs[n] = Response(id) PROVE pending[id] = "panel"
      <3>1. mine[n] = id /\ mine[n] \in PanelPending
        BY <1>3, <1>6, <1>7, <2>1, MessageKinds
      <3> QED
        BY <3>1 DEF PanelPending
    <2>2. ASSUME pending[id] = "panel" PROVE Holds(msgs, Response(id))
      <3>1. PICK n \in 1..Len(mine) : mine[n] = id
        BY <1>2, <2>2 DEF PanelPending
      <3> QED
        BY <1>6, <1>7, <3>1 DEF Holds
    <2> QED
      BY <2>1, <2>2 DEF Holds
  <1>10. \A name \in EventNames : NoneOf(msgs, EventsOf(name))
    BY <1>4, <1>6, <1>7, MessageKinds DEF NoneOf
  <1> QED
    BY <1>6, <1>8, <1>9, <1>10

\* set_connected(false): every request fails, and then the status says so.
LEMMA DisconnectedPage == PInv /\ SetDisconnected => PagePart'
  <1> SUFFICES ASSUME RInv, PagePart, SetDisconnected PROVE PagePart'
    BY DEF PInv
  <1> DEFINE mine == Ascending(PanelPending)
             failures == [i \in DOMAIN mine |-> Response(mine[i])]
             last == <<Status(FALSE, FALSE)>>
             msgs == failures \o last
  <1>1. QueueTypes /\ PageTypes /\ InOnePlace /\ StatusOwed /\ OneEach /\ EventsOwed
    BY DEF PagePart
  <1>2. /\ connected' = FALSE /\ subscribed' = FALSE /\ Post(msgs) /\ toggles' = toggles + 1
        /\ Settle(PendingIds) /\ PendingIds \in SUBSET Ids
        /\ attached' = attached /\ visible' = visible
        /\ notifyQueue' = notifyQueue /\ cache' = cache /\ heard' = heard
        /\ panelIds' = panelIds /\ answers' = answers /\ page' = page
    BY DEF SetDisconnected, Toggle, eventVars, pageVars, PanelPending, PendingIds
  <1>3. /\ \A id \in Ids : pending'[id] = "panel" <=> pending[id] = "panel" /\ id \notin PendingIds
        /\ socketFrames' = socketFrames
    BY <1>2, SettleEffect DEF Settle
  <1>4. /\ failures \in Seq(Messages) /\ Once(failures)
        /\ \A id \in Ids : Holds(failures, Response(id)) <=> pending[id] = "panel"
        /\ \A name \in EventNames : NoneOf(failures, EventsOf(name))
    BY FailuresPosted
  <1>5. /\ Status(FALSE, FALSE) \in Statuses /\ Status(FALSE, FALSE) \in Messages
        /\ Status(FALSE, FALSE) \notin Responses
        /\ \A name \in EventNames : Status(FALSE, FALSE) \notin EventsOf(name)
    BY MessageKinds
  <1>6. /\ last \in Seq(Messages) /\ Once(last)
        /\ \A m : Holds(last, m) <=> m = Status(FALSE, FALSE)
        /\ LastIs(last, Statuses, Status(FALSE, FALSE))
        /\ \A name \in EventNames : NoneOf(last, EventsOf(name))
    BY <1>5, OneMessage
  <1> HIDE DEF failures, last
  <1>7. \A m \in Responses : ~Holds(last, m)
    BY <1>5, <1>6
  <1>8. LastIs(last, Statuses, Status(connected', subscribed'))
    BY <1>2, <1>6
  <1>9. /\ msgs \in Seq(Messages) /\ Once(msgs)
        /\ LastIs(msgs, Statuses, Status(connected', subscribed'))
        /\ \A name \in EventNames : NoneOf(msgs, EventsOf(name))
    <2>1. msgs \in Seq(Messages)
      BY <1>4, <1>6, ConcatProperties
    <2>2. Once(msgs)
      BY <1>4, <1>6, <1>7, JoinOnce
    <2>3. LastIs(msgs, Statuses, Status(connected', subscribed'))
      BY <1>4, <1>6, <1>8, JoinLast
    <2>4. \A name \in EventNames : NoneOf(msgs, EventsOf(name))
      BY <1>4, <1>6, <1>7, JoinLast
    <2> QED
      BY <2>1, <2>2, <2>3, <2>4
  <1>10. \A id \in Ids : Holds(msgs, Response(id)) <=> pending[id] = "panel"
    <2>1. \A id \in Ids : Response(id) \in Responses
      BY MessageKinds
    <2> QED
      BY <1>4, <1>6, <1>7, <2>1, JoinHolds
  <1> HIDE DEF msgs
  <1>11. /\ QueueTypes' /\ InOnePlace'
         /\ attached /\ ~evicted' => ~evicted /\ jsQueue' = jsQueue \o msgs
    <2>1. \A id \in Ids : pending'[id] = "panel" <=>
             pending[id] = "panel" /\ ~Holds(msgs, Response(id))
      BY <1>3, <1>10 DEF PendingIds
    <2>2. \A id \in Ids : id \in panelIds' <=> id \in panelIds \/ Holds(msgs, Response(id))
      BY <1>2, <1>10 DEF RInv, IdsInOrder
    <2>3. \A id \in Ids : Holds(msgs, Response(id)) => pending[id] = "panel" \/ id \notin panelIds
      BY <1>10
    <2>4. Posts(msgs)
      BY <1>2, Zenon DEF Posts
    <2> QED
      BY <1>1, <1>2, <1>9, <2>1, <2>2, <2>3, <2>4, PostKeeps
  <1>12. StatusOwed'
    BY <1>1, <1>2, <1>9, <1>11, PostKeepsStatus
  <1>13. EventsOwed'
    BY <1>1, <1>2, <1>9, <1>11, PostKeepsEvents
  <1>14. PageTypes' /\ OneEach'
    BY <1>1, <1>2, <1>3 DEF PageTypes, OneEach
  <1> QED
    BY <1>11, <1>12, <1>13, <1>14 DEF PagePart

\* on_socket_frame with an event: the entry of its name is the new event, and
\* there is still one of each.
LEMMA CacheEffect ==
    ASSUME PageTypes, OneEach, NEW name \in EventNames, NEW payload \in Payloads,
           CacheEvent(name, payload),
           NEW e, e = [name |-> name, payload |-> payload]
    PROVE  /\ cache' \in Seq(CachedEvents) /\ OneEach'
           /\ \A i \in 1..Len(cache') :
                 \/ cache'[i] = e
                 \/ cache'[i].name # name /\ \E j \in 1..Len(cache) : cache'[i] = cache[j]
  <1> DEFINE held == {i \in DOMAIN cache : cache[i].name = name}
             size == Len(cache)
  <1>1. /\ size \in Nat /\ DOMAIN cache = 1..size /\ cache \in Seq(CachedEvents)
        /\ \A i \in 1..size : cache[i] \in CachedEvents
    BY ElementOfSeq, LenProperties DEF PageTypes
  <1>2. e \in CachedEvents /\ e.name = name
    BY DEF CachedEvents
  <1>3. CASE held = {}
    <2>1. cache' = Append(cache, e)
      BY <1>3 DEF CacheEvent
    <2>2. /\ cache' \in Seq(CachedEvents) /\ Len(cache') = size + 1
          /\ \A i \in 1..size : cache'[i] = cache[i]
          /\ cache'[size + 1] = e
      BY <1>1, <1>2, <2>1, AppendProperties
    <2>3. \A i \in 1..size : cache[i].name # name
      BY <1>1, <1>3
    <2> HIDE DEF size
    <2>4. \A i \in 1..Len(cache') : i \in 1..size \/ i = size + 1
      BY <1>1, <2>2
    <2>5. OneEach'
      <3> SUFFICES ASSUME NEW i \in 1..Len(cache'), NEW j \in 1..Len(cache'),
                          cache'[i].name = cache'[j].name
                   PROVE  i = j
        BY DEF OneEach
      <3>1. CASE i \in 1..size /\ j \in 1..size
        BY <2>2, <3>1 DEF OneEach, size
      <3>2. CASE i = size + 1 \/ j = size + 1
        BY <1>2, <2>2, <2>3, <2>4, <3>2
      <3> QED
        BY <2>4, <3>1, <3>2
    <2> QED
      BY <2>2, <2>3, <2>4, <2>5 DEF size
  <1>4. CASE held # {}
    <2>1. cache' = [i \in DOMAIN cache |-> IF i \in held THEN e ELSE cache[i]]
      BY <1>4 DEF CacheEvent
    <2>2. cache' \in [1..size -> CachedEvents]
      BY <1>1, <1>2, <2>1
    <2>3. cache' \in Seq(CachedEvents) /\ Len(cache') = size
      BY <1>1, <2>2
    <2>4. \A i \in 1..size : /\ cache'[i] = IF cache[i].name = name THEN e ELSE cache[i]
                             /\ cache'[i].name = cache[i].name
      BY <1>1, <1>2, <2>1
    <2>5. OneEach'
      BY <2>3, <2>4 DEF OneEach
    <2> QED
      BY <2>3, <2>4, <2>5
  <1> QED
    BY <1>3, <1>4

LEMMA EventPage == PInv /\ GuiEvent => PagePart'
  <1> SUFFICES ASSUME RInv, PagePart, GuiEvent PROVE PagePart'
    BY DEF PInv
  <1>1. QueueTypes /\ PageTypes /\ InOnePlace /\ StatusOwed /\ OneEach /\ EventsOwed
    BY DEF PagePart
  <1>2. PICK name \in EventNames :
           LET e     == [name |-> name, payload |-> heard']
               posts == IF attached /\ visible THEN <<EventPost(e)>> ELSE <<>>
               unseen == (\E i \in DOMAIN cache : cache[i].name = name)
                           /\ ~(attached /\ visible)
               owed  == Append(notifyQueue, e)
           IN  /\ CacheEvent(name, heard')
               /\ notifyQueue' = SubSeq(owed, Overflow(owed) + 1, Len(owed))
               /\ Enqueue(posts, IF unseen THEN 1 ELSE 0)
    BY DEF GuiEvent
  <1> DEFINE e == [name |-> name, payload |-> heard']
             msgs == IF attached /\ visible THEN <<EventPost(e)>> ELSE <<>>
             owed == Append(notifyQueue, e)
  <1>3. /\ heard < MaxEvents /\ heard' = heard + 1
        /\ pending' = pending /\ socketFrames' = socketFrames
        /\ connected' = connected /\ subscribed' = subscribed
        /\ attached' = attached /\ visible' = visible
        /\ panelIds' = panelIds /\ answers' = answers /\ page' = page /\ toggles' = toggles
    BY DEF GuiEvent, requestVars, linkVars, pageVars
  <1>4. heard' \in Payloads
    BY <1>1, <1>3, BridgeAssumption DEF PageTypes, Payloads
  <1>5. e \in CachedEvents /\ e.name = name
    BY <1>4 DEF CachedEvents
  <1>6. /\ cache' \in Seq(CachedEvents) /\ OneEach'
        /\ \A i \in 1..Len(cache') :
              \/ cache'[i] = e
              \/ cache'[i].name # name /\ \E j \in 1..Len(cache) : cache'[i] = cache[j]
    BY <1>1, <1>2, <1>4, CacheEffect
  <1>7. notifyQueue' = SubSeq(owed, Overflow(owed) + 1, Len(owed))
    BY <1>2
  <1>8. Posts(msgs)
    <2>1. \E counted \in {0, 1} : Enqueue(msgs, counted)
      BY <1>2
    <2> QED
      BY <2>1 DEF Posts
  <1>9. notifyQueue' \in Seq(CachedEvents) /\ Len(notifyQueue') <= MaxJsQueue
    <2>1. owed \in Seq(CachedEvents)
      BY <1>1, <1>5, AppendProperties DEF PageTypes
    <2> DEFINE over == Overflow(owed)
    <2>2. over \in 0..Len(owed) /\ Len(owed) - over <= MaxJsQueue /\ Len(owed) \in Nat
      BY <2>1, OverflowFits, LenProperties
    <2> HIDE DEF over, owed
    <2>3. \A i \in (over + 1)..Len(owed) : owed[i] \in CachedEvents
      BY <2>1, <2>2, ElementOfSeq
    <2>4. /\ notifyQueue' \in Seq(CachedEvents)
          /\ Len(notifyQueue') = IF over + 1 <= Len(owed) THEN Len(owed) - (over + 1) + 1 ELSE 0
      BY <1>7, <2>1, <2>2, <2>3, SubSeqProperties DEF over
    <2> QED
      BY <2>2, <2>4, BridgeAssumption
  <1>10. /\ EventPost(e) \in Messages /\ EventPost(e) \in EventsOf(name)
         /\ EventPost(e) \notin Responses /\ EventPost(e) \notin Statuses
         /\ \A other \in EventNames : other # name => EventPost(e) \notin EventsOf(other)
    <2>1. \A other \in EventNames : other # name => EventPost(e) \notin EventsOf(other)
      BY DEF EventPost, EventsOf
    <2> HIDE DEF e
    <2> QED
      BY <1>5, <2>1, MessageKinds
  <1> HIDE DEF e, owed
  <1>11. /\ msgs \in Seq(Messages) /\ Once(msgs) /\ NoneOf(msgs, Statuses)
         /\ \A id \in Ids : ~Holds(msgs, Response(id))
         /\ \A other \in EventNames : other # name => NoneOf(msgs, EventsOf(other))
         /\ attached /\ visible => LastIs(msgs, EventsOf(name), EventPost(e))
    <2>1. CASE attached /\ visible
      <3>1. msgs = <<EventPost(e)>>
        BY <2>1
      <3> HIDE DEF msgs
      <3>2. /\ msgs \in Seq(Messages) /\ Once(msgs)
            /\ \A m : Holds(msgs, m) <=> m = EventPost(e)
            /\ \A S : IF EventPost(e) \in S THEN LastIs(msgs, S, EventPost(e)) ELSE NoneOf(msgs, S)
        BY <1>10, <3>1, OneMessage
      <3>3. \A id \in Ids : Response(id) # EventPost(e)
        BY <1>10, MessageKinds
      <3> QED
        BY <1>10, <3>2, <3>3
    <2>2. CASE ~(attached /\ visible)
      <3>1. msgs = <<>> /\ <<>> \in Seq(Messages) /\ Len(<<>>) = 0
        BY <2>2, EmptySeq
      <3> HIDE DEF msgs
      <3> QED
        BY <2>2, <3>1 DEF Once, Holds, NoneOf
    <2> QED
      BY <2>1, <2>2
  <1> HIDE DEF msgs
  <1>12. /\ QueueTypes' /\ InOnePlace'
         /\ attached /\ ~evicted' => ~evicted /\ jsQueue' = jsQueue \o msgs
    BY <1>1, <1>3, <1>8, <1>11, PostKeeps
  <1>13. StatusOwed'
    BY <1>1, <1>3, <1>11, <1>12, PostKeepsStatus
  <1>14. EventsOwed'
    <2> SUFFICES ASSUME attached, visible, ~evicted', NEW i \in 1..Len(cache')
                 PROVE  Ends(jsQueue', EventsOf(cache'[i].name), EventPost(cache'[i]),
                             Shown(cache'[i].name))
      BY <1>3 DEF EventsOwed, EventsOf, EventPost, Payloads, Shown
    <2>1. ~evicted /\ jsQueue' = jsQueue \o msgs /\ jsQueue \in Seq(Messages)
      BY <1>1, <1>12 DEF QueueTypes
    <2>2. CASE cache'[i] = e
      BY <1>5, <1>11, <2>1, <2>2, JoinEnds
    <2>3. ASSUME cache'[i].name # name, NEW j \in 1..Len(cache), cache'[i] = cache[j]
          PROVE  Ends(jsQueue', EventsOf(cache'[i].name), EventPost(cache'[i]),
                      Shown(cache'[i].name))
      <3>1. Ends(jsQueue, EventsOf(cache[j].name), EventPost(cache[j]), Shown(cache[j].name))
        BY <1>1, <2>1 DEF EventsOwed
      <3>2. Shown(cache'[i].name) = Shown(cache[j].name)
        BY <2>3
      <3>3. cache[j].name \in EventNames
        <4>1. cache[j] \in CachedEvents
          BY <1>1, ElementOfSeq DEF PageTypes
        <4> QED
          BY <4>1, MessageKinds
      <3>4. NoneOf(msgs, EventsOf(cache[j].name))
        BY <1>11, <2>3, <3>3
      <3>5. Ends(jsQueue', EventsOf(cache[j].name), EventPost(cache[j]), Shown(cache[j].name))
        BY <1>11, <2>1, <3>1, <3>4, JoinEnds
      <3> QED
        BY <2>3, <3>2, <3>5
    <2> QED
      BY <1>6, <2>2, <2>3
  <1>15. PageTypes'
    <2>1. heard' \in 0..MaxEvents
      BY <1>4 DEF Payloads
    <2> QED
      BY <1>1, <1>3, <1>6, <1>9, <2>1 DEF PageTypes
  <1> QED
    BY <1>6, <1>12, <1>13, <1>14, <1>15 DEF PagePart

\* A queue and its head: an answer is one of them or the other.
LEMMA TakeOnce ==
    ASSUME NEW q \in Seq(Messages), q # <<>>, Once(q)
    PROVE  /\ Head(q) \in Messages /\ Tail(q) \in Seq(Messages) /\ Len(Tail(q)) = Len(q) - 1
           /\ Once(Tail(q))
           /\ \A m : Holds(q, m) <=> m = Head(q) \/ Holds(Tail(q), m)
           /\ \A m \in Responses : ~(m = Head(q) /\ Holds(Tail(q), m))
  <1>1. /\ Len(q) \in Nat /\ Len(q) >= 1 /\ Len(Tail(q)) = Len(q) - 1 /\ Head(q) = q[1]
        /\ Tail(q) \in Seq(Messages) /\ Head(q) \in Messages
        /\ \A i \in 1..Len(Tail(q)) : Tail(q)[i] = q[i + 1]
    BY HeadTailProperties, LenProperties, EmptySeq
  <1>2. Once(Tail(q))
    <2> SUFFICES ASSUME NEW i \in 1..Len(Tail(q)), NEW j \in 1..Len(Tail(q)),
                        Tail(q)[i] = Tail(q)[j], Tail(q)[i] \in Responses
                 PROVE  i = j
      BY DEF Once
    <2>1. i + 1 \in 1..Len(q) /\ j + 1 \in 1..Len(q) /\ q[i + 1] = q[j + 1]
          /\ q[i + 1] \in Responses
      BY <1>1
    <2>2. i + 1 = j + 1
      BY <2>1 DEF Once
    <2> QED
      BY <2>2
  <1>3. ASSUME NEW m PROVE Holds(q, m) <=> m = Head(q) \/ Holds(Tail(q), m)
    <2>1. ASSUME NEW i \in 1..Len(q), q[i] = m PROVE m = Head(q) \/ Holds(Tail(q), m)
      <3>1. CASE i = 1
        BY <1>1, <2>1, <3>1
      <3>2. CASE i # 1
        <4>1. i - 1 \in 1..Len(Tail(q)) /\ Tail(q)[i - 1] = m
          BY <1>1, <2>1, <3>2
        <4> QED
          BY <4>1 DEF Holds
      <3> QED
        BY <3>1, <3>2
    <2>2. Holds(q, Head(q))
      BY <1>1 DEF Holds
    <2>3. ASSUME NEW i \in 1..Len(Tail(q)), Tail(q)[i] = m PROVE Holds(q, m)
      <3>1. i + 1 \in 1..Len(q) /\ q[i + 1] = m
        BY <1>1, <2>3
      <3> QED
        BY <3>1 DEF Holds
    <2> QED
      BY <2>1, <2>2, <2>3 DEF Holds
  <1>4. ASSUME Head(q) \in Responses, NEW i \in 1..Len(Tail(q)), Tail(q)[i] = Head(q)
        PROVE  FALSE
    <2>1. i + 1 \in 1..Len(q) /\ 1 \in 1..Len(q) /\ q[i + 1] = q[1] /\ q[1] \in Responses
      BY <1>1, <1>4
    <2>2. i + 1 = 1
      BY <2>1 DEF Once
    <2> QED
      BY <2>2
  <1>5. \A m \in Responses : ~(m = Head(q) /\ Holds(Tail(q), m))
    BY <1>4 DEF Holds
  <1> QED
    BY <1>1, <1>2, <1>3, <1>5

\* What a page that is posted m shows of the status, and of each event.
LEMMA ShowsOne ==
    ASSUME page \in [status : Statuses, events : [EventNames -> Payloads]],
           NEW m \in Messages, page' = Shows(page, m)
    PROVE  /\ page' \in [status : Statuses, events : [EventNames -> Payloads]]
           /\ page'.status = IF m \in Statuses THEN m ELSE page.status
           /\ \A name \in EventNames :
                 EventPost([name |-> name, payload |-> page'.events[name]]) =
                   IF m \in EventsOf(name) THEN m ELSE Shown(name)
  <1>1. CASE m \in Responses
    <2>1. page' = page
      BY <1>1 DEF Shows, Responses
    <2> QED
      BY <1>1, <2>1, MessageKinds DEF Shown
  <1>2. CASE m \in Statuses
    <2>1. page' = [page EXCEPT !.status = m]
      BY <1>2 DEF Shows, Statuses
    <2>2. page' \in [status : Statuses, events : [EventNames -> Payloads]]
      BY <1>2, <2>1
    <2>3. page'.status = m /\ page'.events = page.events
      BY <2>1
    <2> QED
      BY <1>2, <2>2, <2>3, MessageKinds DEF Shown
  <1>3. CASE m \in [kind : {"event"}, name : EventNames, payload : Payloads]
    <2>1. /\ m.kind = "event" /\ m.name \in EventNames /\ m.payload \in Payloads
          /\ m \in EventsOf(m.name) /\ m \notin Statuses
          /\ m = [kind |-> "event", name |-> m.name, payload |-> m.payload]
          /\ \A name \in EventNames : m \in EventsOf(name) <=> name = m.name
      BY <1>3 DEF EventsOf, Statuses
    <2>2. page' = [page EXCEPT !.events = [@ EXCEPT ![m.name] = m.payload]]
      BY <2>1 DEF Shows
    <2>3. page' \in [status : Statuses, events : [EventNames -> Payloads]]
      BY <2>1, <2>2
    <2>4. /\ page'.status = page.status
          /\ page'.events = [page.events EXCEPT ![m.name] = m.payload]
      BY <2>2
    <2>5. ASSUME NEW name \in EventNames
          PROVE  EventPost([name |-> name, payload |-> page'.events[name]]) =
                   IF m \in EventsOf(name) THEN m ELSE Shown(name)
      <3>1. page'.events[name] = IF name = m.name THEN m.payload ELSE page.events[name]
        BY <2>4
      <3> QED
        BY <2>1, <3>1 DEF EventPost, Shown
    <2> QED
      BY <2>1, <2>3, <2>4, <2>5
  <1> QED
    BY <1>1, <1>2, <1>3 DEF Messages

\* take_js_messages: what was queued for the page is with the page.
LEMMA TakePage == PInv /\ TakeJsMessage => PagePart'
  <1> SUFFICES ASSUME RInv, PagePart, TakeJsMessage PROVE PagePart'
    BY DEF PInv
  <1> DEFINE h == Head(jsQueue)
  <1>1. QueueTypes /\ PageTypes /\ InOnePlace /\ StatusOwed /\ OneEach /\ EventsOwed
    BY DEF PagePart
  <1>2. /\ jsQueue # <<>> /\ jsQueue' = Tail(jsQueue) /\ page' = Shows(page, h)
        /\ answers' = IF h.kind = "response" THEN [answers EXCEPT ![h.id] = @ + 1] ELSE answers
        /\ pending' = pending /\ socketFrames' = socketFrames /\ panelIds' = panelIds
        /\ connected' = connected /\ subscribed' = subscribed
        /\ attached' = attached /\ visible' = visible
        /\ notifyQueue' = notifyQueue /\ cache' = cache /\ heard' = heard
        /\ gone' = gone /\ evicted' = evicted /\ droppedEvents' = droppedEvents
        /\ toggles' = toggles
    BY DEF TakeJsMessage, requestVars, linkVars, eventVars
  <1>3. /\ h \in Messages /\ jsQueue' \in Seq(Messages) /\ Len(jsQueue') = Len(jsQueue) - 1
        /\ Once(jsQueue')
        /\ \A m : Holds(jsQueue, m) <=> m = h \/ Holds(jsQueue', m)
        /\ \A m \in Responses : ~(m = h /\ Holds(jsQueue', m))
    BY <1>1, <1>2, TakeOnce DEF QueueTypes, InOnePlace
  <1>4. /\ page' \in [status : Statuses, events : [EventNames -> Payloads]]
        /\ page'.status = IF h \in Statuses THEN h ELSE page.status
        /\ \A name \in EventNames :
              EventPost([name |-> name, payload |-> page'.events[name]]) =
                IF h \in EventsOf(name) THEN h ELSE Shown(name)
    BY <1>1, <1>2, <1>3, ShowsOne DEF PageTypes
  <1> HIDE DEF h
  <1>5. QueueTypes'
    <2>1. Len(jsQueue) \in Nat
      BY <1>1, LenProperties DEF QueueTypes
    <2> QED
      BY <1>1, <1>2, <1>3, <2>1, BridgeAssumption DEF QueueTypes
  <1>6. /\ answers' \in [Ids -> Nat]
        /\ \A id \in Ids : answers'[id] = IF h = Response(id) THEN answers[id] + 1 ELSE answers[id]
    <2>1. answers \in [Ids -> Nat]
      BY <1>1 DEF PageTypes
    <2>2. CASE h \in Responses
      <3>1. h.kind = "response" /\ h.id \in Ids /\ h = Response(h.id)
        BY <1>3, <2>2, MessageKinds
      <3>2. answers' = [answers EXCEPT ![h.id] = answers[h.id] + 1]
        BY <1>2, <3>1
      <3>3. \A id \in Ids : h = Response(id) <=> id = h.id
        BY <3>1, MessageKinds
      <3> QED
        BY <2>1, <3>1, <3>2, <3>3
    <2>3. CASE h \notin Responses
      <3>1. answers' = answers
        BY <1>2, <1>3, <2>3, MessageKinds
      <3>2. \A id \in Ids : h # Response(id)
        BY <2>3, MessageKinds
      <3> QED
        BY <2>1, <3>1, <3>2
    <2> QED
      BY <2>2, <2>3
  <1>7. InOnePlace'
    <2>1. ASSUME NEW id \in Ids PROVE OnePlace(id)'
      <3>1. /\ Holds(jsQueue, Response(id)) <=> h = Response(id) \/ Holds(jsQueue', Response(id))
            /\ ~(h = Response(id) /\ Holds(jsQueue', Response(id)))
        BY <1>3, MessageKinds
      <3>2. OnePlace(id) /\ answers'[id] = IF h = Response(id) THEN answers[id] + 1 ELSE answers[id]
        BY <1>1, <1>6 DEF InOnePlace
      <3>3. CASE h = Response(id)
        <4>1. answers[id] = 0 /\ answers'[id] = 1 /\ pending[id] # "panel" /\ id \notin gone
              /\ id \in panelIds /\ ~Holds(jsQueue', Response(id))
          BY <3>1, <3>2, <3>3 DEF OnePlace
        <4> QED
          BY <1>2, <4>1 DEF OnePlace
      <3>4. CASE h # Response(id)
        BY <1>2, <3>1, <3>2, <3>4 DEF OnePlace
      <3> QED
        BY <3>3, <3>4
    <2> QED
      BY <1>3, <2>1 DEF InOnePlace
  <1>8. StatusOwed'
    <2> SUFFICES ASSUME attached, ~evicted
                 PROVE  Ends(jsQueue', Statuses, Status(connected, subscribed), page'.status)
      BY <1>2 DEF StatusOwed, Status
    <2>1. Ends(jsQueue, Statuses, Status(connected, subscribed), page.status)
      BY <1>1 DEF StatusOwed
    <2> QED
      BY <1>1, <1>2, <1>4, <2>1, TakeEnds DEF QueueTypes, h
  <1>9. EventsOwed'
    <2> SUFFICES ASSUME attached, visible, ~evicted, NEW i \in 1..Len(cache)
                 PROVE  Ends(jsQueue', EventsOf(cache[i].name), EventPost(cache[i]),
                    EventPost([name |-> cache[i].name, payload |-> page'.events[cache[i].name]]))
      BY <1>2 DEF EventsOwed, EventsOf, EventPost, Payloads, Shown
    <2>1. Ends(jsQueue, EventsOf(cache[i].name), EventPost(cache[i]), Shown(cache[i].name))
      BY <1>1 DEF EventsOwed
    <2>2. cache[i].name \in EventNames
      <3>1. cache[i] \in CachedEvents
        BY <1>1, ElementOfSeq DEF PageTypes
      <3> QED
        BY <3>1, MessageKinds
    <2>3. EventPost([name |-> cache[i].name, payload |-> page'.events[cache[i].name]]) =
            IF h \in EventsOf(cache[i].name) THEN h ELSE Shown(cache[i].name)
      BY <1>4, <2>2
    <2> QED
      BY <1>1, <1>2, <2>1, <2>3, TakeEnds DEF QueueTypes, h
  <1>10. PageTypes' /\ OneEach'
    BY <1>1, <1>2, <1>4, <1>6 DEF PageTypes, OneEach
  <1> QED
    BY <1>5, <1>7, <1>8, <1>9, <1>10 DEF PagePart
-----------------------------------------------------------------------------
LEMMA StepPage == PInv /\ [Next]_vars => PInv'
  <1> SUFFICES ASSUME PInv, [Next]_vars PROVE PInv'
    OBVIOUS
  <1>1. RInv'
    BY StepRequests DEF PInv
  <1>2. CASE SubmitLocal \/ Submit
    BY <1>1, <1>2, SubmitLocalPage, SubmitPage DEF PInv
  <1>3. CASE AttachPanel \/ DetachPanel \/ SetPanelVisible
    BY <1>1, <1>3, AttachPage, DetachPage, VisiblePage DEF PInv
  <1>4. CASE GuiResponse
    BY <1>1, <1>4, SettlePage DEF PInv, GuiResponse
  <1>5. CASE TickExpires
    <2>1. ripe \in SUBSET PendingIds /\ FALSE \in BOOLEAN /\ SettleAndPost(ripe, FALSE)
      BY <1>5 DEF TickExpires, PInv, RInv, RequestTypes
    <2> QED
      BY <1>1, <2>1, SettlePage DEF PInv
  <1>6. CASE GuiEvent
    BY <1>1, <1>6, EventPage DEF PInv
  <1>7. CASE SetConnected \/ SetDisconnected
    BY <1>1, <1>7, ConnectedPage, DisconnectedPage DEF PInv
  <1>8. CASE TakeJsMessage
    BY <1>1, <1>8, TakePage DEF PInv
  <1>9. CASE TakeSocketFrames \/ TakeNotificationEvent \/ DeadlinePasses \/ UNCHANGED vars
    BY <1>1, <1>9, QuietStepPage DEF PInv
  <1> QED
    BY <1>2, <1>3, <1>4, <1>5, <1>6, <1>7, <1>8, <1>9 DEF Next

LEMMA PageInvariance == Spec => []PInv
  BY InitRequests, InitPage, StepPage, PTL DEF Spec, PInv

\* For every bound: the state of the bridge and of its page is what TypeOK says.
THEOREM TypeCorrect == Spec => []TypeOK
  <1>1. PInv => TypeOK
    <2> SUFFICES ASSUME RInv, QueueTypes, PageTypes PROVE TypeOK
      BY DEF PInv, PagePart
    <2>1. {connected, subscribed, attached, visible, evicted} \subseteq BOOLEAN
      <3>1. /\ connected \in BOOLEAN /\ subscribed \in BOOLEAN /\ attached \in BOOLEAN
            /\ visible \in BOOLEAN /\ evicted \in BOOLEAN
        BY Zenon DEF RInv, RequestTypes, QueueTypes, PageTypes
      <3> QED
        BY <3>1
    <2>2. {droppedEvents, heard, toggles} \subseteq Nat
      BY BridgeAssumption DEF QueueTypes, PageTypes
    <2> QED
      BY <2>1, <2>2 DEF RInv, RequestTypes, QueueTypes, PageTypes, TypeOK
  <1> QED
    BY <1>1, PageInvariance, PTL

\* Each of the places holds an id at most once, so they can be counted.
LEMMA OneIsOnce == RInv /\ QueueTypes /\ InOnePlace => AnsweredOnce
  <1> SUFFICES ASSUME RInv, QueueTypes, InOnePlace, NEW id \in Ids
               PROVE  One(pending[id] = "panel") + answers[id] + One(id \in gone)
                        + Cardinality({i \in DOMAIN jsQueue : jsQueue[i] = Response(id)})
                          = One(id \in panelIds)
    BY DEF AnsweredOnce
  <1> DEFINE places == {i \in DOMAIN jsQueue : jsQueue[i] = Response(id)}
  <1>1. DOMAIN jsQueue = 1..Len(jsQueue)
    BY LenProperties DEF QueueTypes
  <1>2. CASE Holds(jsQueue, Response(id))
    <2>1. PICK i \in 1..Len(jsQueue) : jsQueue[i] = Response(id)
      BY <1>2 DEF Holds
    <2>2. \A j \in 1..Len(jsQueue) : jsQueue[j] = Response(id) => j = i
      BY <2>1, MessageKinds DEF InOnePlace, Once
    <2>3. places = {i}
      BY <1>1, <2>1, <2>2
    <2>4. Cardinality(places) = 1
      BY <2>3, FS_Singleton
    <2>5. /\ pending[id] # "panel" /\ answers[id] = 0 /\ id \notin gone /\ id \in panelIds
      BY <1>2 DEF InOnePlace, OnePlace
    <2> QED
      BY <2>4, <2>5 DEF One
  <1>3. CASE ~Holds(jsQueue, Response(id))
    <2>1. places = {}
      BY <1>1, <1>3 DEF Holds
    <2>2. Cardinality(places) = 0
      BY <2>1, FS_EmptySet
    <2>3. OnePlace(id)
      BY DEF InOnePlace
    <2> QED
      BY <1>3, <2>2, <2>3 DEF One, OnePlace
  <1> QED
    BY <1>2, <1>3

\* For every bound: an accepted request is in one place, and so is its answer;
\* no answer, timeout, disconnect and reload settle it twice between them, and
\* none is lost without its page or its place in the queue having gone.
THEOREM AnswersOnce == Spec => []AnsweredOnce
  <1>1. PInv => AnsweredOnce
    BY OneIsOnce DEF PInv, PagePart
  <1> QED
    BY <1>1, PageInvariance, PTL

\* For every bound: unless the queue overflowed, the last status the page is
\* owed is the current one, whatever the order of connects, subscribes, timeouts,
\* answers and reloads.
THEOREM StatusStaysCurrent == Spec => []StatusIsCurrent
  <1>1. PInv => StatusIsCurrent
    BY EndsIsQueued DEF PInv, PagePart, QueueTypes, StatusOwed, StatusIsCurrent, StatusToBe
  <1> QED
    BY <1>1, PageInvariance, PTL

\* For every bound: a panel that is showing is owed the newest payload of every
\* event that was ever pushed, also of those pushed before it was there to see.
THEOREM ShownPanelStaysCurrent == Spec => []ShownPanelIsCurrent
  <1>1. PInv => ShownPanelIsCurrent
    <2> SUFFICES ASSUME PInv, attached, visible, ~evicted, NEW i \in DOMAIN cache
                 PROVE  EventToBe(cache[i].name) = EventPost(cache[i])
      BY DEF ShownPanelIsCurrent
    <2>1. i \in 1..Len(cache)
      BY LenProperties DEF PInv, PagePart, PageTypes
    <2>2. Ends(jsQueue, EventsOf(cache[i].name), EventPost(cache[i]), Shown(cache[i].name))
      BY <2>1 DEF PInv, PagePart, EventsOwed
    <2> QED
      BY <2>2, EndsIsQueued DEF PInv, PagePart, QueueTypes, EventToBe
  <1> QED
    BY <1>1, PageInvariance, PTL
============================================================================
