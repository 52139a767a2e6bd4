------------------------- MODULE DeliveryOrderProofs -------------------------
(***************************************************************************)
(* How the cursors of a chat keep the order of its messages: what holds of *)
(* MessageDelivery for all chats and messages where no plugin is awaited   *)
(* (Slow = {}), and, where also every message comes by IM in its order     *)
(* (Web = Late = {}), what becomes of each message.                        *)
(*                                                                         *)
(* The hypotheses are needed: a handler that has awaited an expansion sets *)
(* the cursors to a message that others have passed meanwhile, and a web   *)
(* message is piped ahead of earlier ones that wait for a run.             *)
(***************************************************************************)
EXTENDS MessageDeliveryProofs

PlainMessages == Slow = {}

-----------------------------------------------------------------------------
(* The invariant behind the cursors that only advance *)

(* Nothing is held across an await of the plugin expander, and the loop holds
   messages only while it works on them. *)
NothingExpands ==
  /\ webWait = {} /\ loop.step # "expanding"
  /\ loop.step = "sleep" => loop.polled = {}
  /\ \A c \in Chats : run[c].phase # "expanding"

(* A cursor stands at a message of its chat, a run has messages of its chat. *)
PlacesTaken ==
  /\ \A c \in Chats : nextPull[c] \in {0} \cup StoredOf(c)
  /\ \A c \in Chats : run[c].batch \subseteq StoredOf(c)
  /\ loop.polled \subseteq stored

(* The loop works on the last messages of a chat. *)
PolledLast ==
  \A p \in loop.polled, m \in stored \ loop.polled : ChatOf[m] = ChatOf[p] => m < p

OrderInv == DeliveryInv /\ NothingExpands /\ PlacesTaken /\ PolledLast

(* What a step does to the cursors: they move on, to a message of the chat. *)
CursorsOnward ==
  \A c \in Chats :
    /\ nextPull'[c] >= nextPull[c] /\ committed'[c] >= committed[c]
    /\ nextPull'[c] = nextPull[c] \/ (nextPull'[c] \in stored' /\ ChatOf[nextPull'[c]] = c)

OrderKept == CursorsOnward /\ NothingExpands' /\ PlacesTaken' /\ PolledLast'

-----------------------------------------------------------------------------
(* Moves of the cursors *)

(* The types that the moves are about. *)
LEMMA OrderTypes ==
  ASSUME OrderInv
  PROVE  /\ stored \subseteq Msgs /\ Msgs \subseteq Places /\ Places \subseteq Int
         /\ nextPull \in [Chats -> Places] /\ committed \in [Chats -> Places]
         /\ \A c \in Chats : committed[c] <= nextPull[c]
         /\ ChatOf \in [Msgs -> Chats]
BY PlacesOfMessages, TypeOKIsParts, DeliveryAssumption
   DEF OrderInv, DeliveryInv, CommittedBehindNextPull, CursorsOK, MessagesOK, Places

LEMMA SameOnward ==
  ASSUME OrderInv, UNCHANGED <<nextPull, committed>>
  PROVE  CursorsOnward
BY OrderTypes DEF CursorsOnward

LEMMA SetOnward ==
  ASSUME OrderInv, NEW c \in Chats, NEW m \in stored', m \in Msgs, ChatOf[m] = c,
         nextPull[c] <= m, SetCursors(c, m)
  PROVE  CursorsOnward
<1>1. committed[c] <= m
  BY OrderTypes
<1>. QED
  BY <1>1, OrderTypes DEF SetCursors, CursorsOnward

(* The next-pull cursor moves to the last of some messages of the chat. *)
LEMMA LastOnward ==
  ASSUME OrderInv, NEW c \in Chats, NEW S \in SUBSET StoredOf(c), UNCHANGED stored,
         nextPull' = [nextPull EXCEPT ![c] = Max({@} \cup S)],
         UNCHANGED committed \/ committed' = [committed EXCEPT ![c] = Max({nextPull[c]} \cup S)]
  PROVE  CursorsOnward
<1>. DEFINE n == Max({nextPull[c]} \cup S)
<1>1. S \subseteq Msgs /\ \A m \in S : m \in stored /\ ChatOf[m] = c
  BY OrderTypes DEF StoredOf
<1>2. n \in {nextPull[c]} \cup S /\ n \in Places /\ nextPull[c] <= n
  BY <1>1, OrderTypes, MaxOfPlaces
<1>3. committed[c] <= n
  BY <1>2, OrderTypes
<1>4. nextPull' = [nextPull EXCEPT ![c] = n]
      /\ (UNCHANGED committed \/ committed' = [committed EXCEPT ![c] = n])
  OBVIOUS
<1>. HIDE DEF n
<1>. QED
  BY <1>1, <1>2, <1>3, <1>4, OrderTypes DEF CursorsOnward

(* A run records its batch: its last message, unless the cursor is past it. *)
LEMMA CommitOnward ==
  ASSUME OrderInv, NEW c \in Chats, run[c].phase # "none", CommitCursor(c), UNCHANGED stored
  PROVE  CursorsOnward
<1>1. /\ run[c].batch \subseteq StoredOf(c) /\ run[c].batch # {}
      /\ run[c].batch \subseteq Msgs
  BY OrderTypes DEF OrderInv, DeliveryInv, BatchesHold, PlacesTaken, StoredOf
<1>2. Max(run[c].batch) \in StoredOf(c)
  BY <1>1, OrderTypes, MaxOfPlaces
<1>3. CASE run[c].recorded
  BY <1>3, SameOnward DEF CommitCursor
<1>4. CASE ~run[c].recorded
  <2>. DEFINE S == {Max(run[c].batch)}
  <2>1. {nextPull[c], Max(run[c].batch)} = {nextPull[c]} \cup S
    OBVIOUS
  <2>2. /\ nextPull' = [nextPull EXCEPT ![c] = Max({nextPull[c]} \cup S)]
        /\ committed' = [committed EXCEPT ![c] = Max({nextPull[c]} \cup S)]
    BY <1>4, <2>1 DEF CommitCursor, AdvanceCursors, SetCursors
  <2>3. S \in SUBSET StoredOf(c)
    BY <1>2
  <2>. HIDE DEF S
  <2>. QED
    BY <2>2, <2>3, LastOnward
<1>. QED
  BY <1>3, <1>4

LEMMA SendOnward ==
  ASSUME OrderInv, NEW c \in Chats, NEW S \in SUBSET StoredOf(c), Send(c, S, {}),
         UNCHANGED <<committed, stored>>
  PROVE  CursorsOnward
<1>1. {} \subseteq StoredOf(c) /\ \A x : {x} \cup S \cup {} = {x} \cup S
  OBVIOUS
<1>2. CASE nextPull' = [nextPull EXCEPT ![c] = Max({@} \cup S \cup {})]
  BY <1>1, <1>2, LastOnward
<1>3. CASE nextPull' = [nextPull EXCEPT ![c] = Max({@} \cup {})]
  BY <1>1, <1>3, LastOnward
<1>. QED
  BY <1>2, <1>3 DEF Send

-----------------------------------------------------------------------------
(* Each step of the server *)

(* What remains to be shown of a step that leaves the messages and the loop alone. *)
LEMMA RunsKeepOrder ==
  ASSUME OrderInv, CursorsOnward, UNCHANGED <<stored, loop, webWait>>,
         \A d \in Chats : /\ run'[d].phase # "expanding"
                          /\ run'[d].batch \in {run[d].batch, {}, Since(d)}
  PROVE  OrderKept
<1>1. NothingExpands' /\ PolledLast'
  BY DEF OrderInv, NothingExpands, PolledLast
<1>2. \A d \in Chats : Since(d) \subseteq StoredOf(d) /\ StoredOf(d)' = StoredOf(d)
  BY DEF Since, StoredOf
<1>3. \A d \in Chats : run'[d].batch \subseteq StoredOf(d)'
  BY <1>2 DEF OrderInv, PlacesTaken
<1>4. \A d \in Chats : nextPull'[d] \in {0} \cup StoredOf(d)'
  BY <1>2 DEF OrderInv, PlacesTaken, CursorsOnward, StoredOf
<1>. QED
  BY <1>1, <1>3, <1>4 DEF OrderInv, OrderKept, PlacesTaken

LEMMA RunTypes ==
  ASSUME OrderInv
  PROVE  /\ run \in [Chats -> Runs]
         /\ \A c \in Chats : run[c].phase # "expanding"
         /\ NoRun.phase = "none" /\ NoRun.batch = {}
BY TypeOKIsParts DEF OrderInv, DeliveryInv, ControlOK, NothingExpands, NoRun

LEMMA RunStepRuns ==
  ASSUME OrderInv, PlainMessages, NEW c \in Chats, RunStep(c)
  PROVE  /\ UNCHANGED <<stored, loop, webWait>>
         /\ \A d \in Chats : /\ run'[d].phase # "expanding"
                             /\ run'[d].batch \in {run[d].batch, {}, Since(d)}
<1>1. UNCHANGED <<stored, loop, webWait>>
  BY DEF RunStep, StartRun, RunExpanded, RunDenied, Spawn, SpawnFails, TakeIpc, Answer, Record,
     TurnIsQuiet, RunDone, RunClosed, RunFails, RunGivesUp, RunEnds, looping
<1>2. ~RunExpanded(c)
  BY RunTypes DEF RunExpanded
<1>3. CASE StartRun(c)
  <2>1. Since(c) \cap Slow = {}
    BY DEF PlainMessages
  <2>. QED
    BY <1>1, <1>3, <2>1, RunTypes DEF StartRun, NoRun, Runs
<1>4. CASE TakeIpc(c) \/ TurnIsQuiet(c)
  BY <1>1, <1>4, RunTypes DEF TakeIpc, TurnIsQuiet, runs
<1>5. CASE Spawn(c) \/ Answer(c) \/ Record(c)
  BY <1>1, <1>5, RunTypes DEF Spawn, Answer, Record, Runs
<1>6. CASE RunDenied(c) \/ SpawnFails(c) \/ RunDone(c) \/ RunClosed(c) \/ RunFails(c) \/ RunGivesUp(c)
  <2>1. run' = [run EXCEPT ![c] = NoRun]
    BY <1>6 DEF RunDenied, SpawnFails, RunDone, RunClosed, RunFails, RunGivesUp, RunEnds
  <2>. QED
    BY <1>1, <2>1, RunTypes
<1>. QED
  BY <1>1, <1>2, <1>3, <1>4, <1>5, <1>6 DEF RunStep

LEMMA RunStepOrder ==
  ASSUME OrderInv, PlainMessages, NEW c \in Chats, RunStep(c)
  PROVE  OrderKept
<1>1. ~RunExpanded(c)
  BY RunTypes DEF RunExpanded
<1>2. \/ UNCHANGED <<nextPull, committed>>
      \/ run[c].phase # "none" /\ CommitCursor(c)
  BY <1>1 DEF RunStep, StartRun, RunDenied, Spawn, SpawnFails, TakeIpc, Answer, Record,
     TurnIsQuiet, RunDone, RunClosed, RunFails, RunGivesUp, Fail, cursors
<1>3. UNCHANGED stored
  BY RunStepRuns
<1>4. CursorsOnward
  BY <1>2, <1>3, SameOnward, CommitOnward
<1>. QED
  BY <1>4, RunStepRuns, RunsKeepOrder

LEMMA ReceiveOrder ==
  ASSUME OrderInv, PlainMessages, ~Urgent, NEW m \in Msgs, ReceiveIm(m) \/ ReceiveWeb(m)
  PROVE  OrderKept
<1>1. loop.step = "sleep" /\ loop.polled = {} /\ loop' = loop
  BY TypeOKIsParts DEF OrderInv, DeliveryInv, ControlOK, Loops, NothingExpands, Urgent,
     ReceiveIm, ReceiveWeb, WebDenied, WebSend, looping
<1>2. stored' = stored \cup {m}
  BY DEF ReceiveIm, ReceiveWeb
<1>3. CursorsOnward
  <2>. DEFINE c == ChatOf[m]
  <2>1. CASE UNCHANGED <<nextPull, committed>>
    BY <2>1, SameOnward
  <2>2. CASE ReceiveWeb(m) /\ SetCursors(c, m)
    <3>1. \A n \in stored : n < m
      BY <2>2, DeliveryAssumption DEF ReceiveWeb, Timely
    <3>2. c \in Chats
      BY DeliveryAssumption
    <3>3. nextPull[c] = 0 \/ nextPull[c] \in stored
      BY <3>2 DEF OrderInv, PlacesTaken, StoredOf
    <3>4. nextPull[c] <= m
      BY <3>1, <3>3, OrderTypes DEF Msgs
    <3>5. m \in stored'
      BY <1>2
    <3>. QED
      BY <2>2, <3>2, <3>4, <3>5, SetOnward
  <2>3. ReceiveIm(m) => UNCHANGED <<nextPull, committed>>
    BY DEF ReceiveIm, cursors
  <2>4. ReceiveWeb(m) => SetCursors(c, m) \/ UNCHANGED <<nextPull, committed>>
    BY DEF ReceiveWeb, WebDenied, WebSend, cursors
  <2>. QED
    BY <2>1, <2>2, <2>3, <2>4
<1>4. /\ webWait' = {}
      /\ \A d \in Chats : run'[d].phase # "expanding" /\ run'[d].batch = run[d].batch
  <2>1. webWait' = {}
    BY DEF PlainMessages, OrderInv, NothingExpands, ReceiveIm, ReceiveWeb, WebDenied
  <2>2. CASE UNCHANGED run
    BY <2>1, <2>2, RunTypes
  <2>3. CASE Pipe(ChatOf[m], {m}, {})
    BY <2>1, <2>3, RunTypes DEF Pipe, Runs
  <2>4. UNCHANGED run \/ Pipe(ChatOf[m], {m}, {})
    BY DEF ReceiveIm, ReceiveWeb, WebDenied, WebSend, runs
  <2>. QED
    BY <2>1, <2>2, <2>3, <2>4
<1>5. NothingExpands' /\ PolledLast'
  BY <1>1, <1>4 DEF NothingExpands, PolledLast
<1>6. PlacesTaken'
  <2>1. \A d \in Chats : StoredOf(d) \subseteq StoredOf(d)'
    BY <1>2 DEF StoredOf
  <2>2. \A d \in Chats : run'[d].batch \subseteq StoredOf(d)'
    BY <1>4, <2>1 DEF OrderInv, PlacesTaken
  <2>3. \A d \in Chats : nextPull'[d] \in {0} \cup StoredOf(d)'
    BY <1>3, <2>1 DEF OrderInv, PlacesTaken, CursorsOnward, StoredOf
  <2>. QED
    BY <1>1, <2>2, <2>3 DEF PlacesTaken
<1>. QED
  BY <1>3, <1>5, <1>6 DEF OrderKept

LEMMA PollOrder ==
  ASSUME OrderInv, Poll
  PROVE  OrderKept
<1>. DEFINE new == {m \in stored : m > globalCursor}
<1>1. UNCHANGED <<stored, nextPull, committed, run, webWait>>
  BY DEF Poll, runs
<1>2. /\ loop'.polled = new /\ loop'.step = NextStep(new)
  BY DEF Poll, Asleep
<1>3. CursorsOnward
  BY <1>1, SameOnward
<1>4. NothingExpands'
  BY <1>1, <1>2 DEF OrderInv, NothingExpands, NextStep
<1>5. PolledLast'
  <2>1. globalCursor \in Places
    BY TypeOKIsParts DEF OrderInv, DeliveryInv, ControlOK
  <2>2. \A p \in new, m \in stored \ new : m < p
    BY <2>1, OrderTypes
  <2>. QED
    BY <1>1, <1>2, <2>2 DEF PolledLast
<1>6. PlacesTaken'
  BY <1>1, <1>2 DEF OrderInv, PlacesTaken, StoredOf
<1>. QED
  BY <1>3, <1>4, <1>5, <1>6 DEF OrderKept

(* The chat the loop is at, and its messages among those polled. *)
LoopsChat == ChatOf[Min(loop.polled)]
LoopsGroup == {m \in loop.polled : ChatOf[m] = LoopsChat}
LoopsBatch == IF Since(LoopsChat) # {} THEN Since(LoopsChat) ELSE LoopsGroup

(* The group is of the chat's last messages. *)
LEMMA GroupIsLast ==
  ASSUME OrderInv, LoopChat
  PROVE  /\ LoopsChat \in Chats
         /\ LoopsGroup \subseteq StoredOf(LoopsChat) /\ LoopsGroup \subseteq Msgs
         /\ Max(LoopsGroup) \in LoopsGroup
         /\ \A m \in StoredOf(LoopsChat) : m <= Max(LoopsGroup)
         /\ LoopsBatch \in SUBSET StoredOf(LoopsChat)
<1>1. loop.polled \in SUBSET Msgs /\ loop.polled # {} /\ loop.polled \subseteq stored
  BY OrderTypes DEF OrderInv, DeliveryInv, BatchesHold, PlacesTaken, LoopChat
<1>2. Min(loop.polled) \in loop.polled
  BY <1>1, MinOfMessages
<1>3. LoopsChat \in Chats /\ LoopsGroup \in SUBSET Msgs /\ LoopsGroup # {}
  BY <1>1, <1>2, DeliveryAssumption DEF LoopsChat, LoopsGroup
<1>4. LoopsGroup \subseteq StoredOf(LoopsChat)
  BY <1>1 DEF LoopsGroup, StoredOf
<1>5. /\ Max(LoopsGroup) \in LoopsGroup
      /\ \A m \in LoopsGroup : m <= Max(LoopsGroup)
  BY <1>3, OrderTypes, MaxOfPlaces
<1>6. ASSUME NEW m \in StoredOf(LoopsChat)
      PROVE  m <= Max(LoopsGroup)
  <2>0. m \in Int /\ Max(LoopsGroup) \in Int
    BY <1>3, <1>5, OrderTypes DEF StoredOf
  <2>1. CASE m \in loop.polled
    BY <1>5, <2>1 DEF LoopsGroup, StoredOf
  <2>2. CASE m \notin loop.polled
    <3>1. m < Max(LoopsGroup)
      BY <1>5, <2>2 DEF OrderInv, PolledLast, LoopsGroup, StoredOf
    <3>. QED
      BY <2>0, <3>1
  <2>. QED
    BY <2>1, <2>2
<1>7. LoopsBatch \in SUBSET StoredOf(LoopsChat)
  BY <1>4 DEF LoopsBatch, Since
<1>. QED
  BY <1>3, <1>4, <1>5, <1>6, <1>7

LEMMA LoopChatCases ==
  ASSUME PlainMessages, LoopChat
  PROVE  /\ Resume(loop.polled \ LoopsGroup)
         /\ UNCHANGED <<stored, globalCursor, woken, injected, webWait, inRunner, env>>
         /\ \/ /\ SetCursors(LoopsChat, Max(LoopsGroup))
               /\ Settle({m \in LoopsGroup \cup Since(LoopsChat) : m <= Max(LoopsGroup)}, "dropped")
               /\ UNCHANGED <<due, run, ipc>>
            \/ /\ Send(LoopsChat, LoopsBatch, {})
               /\ UNCHANGED committed
BY DEF PlainMessages, LoopChat, LoopsChat, LoopsGroup, LoopsBatch

LEMMA LoopChatOrder ==
  ASSUME OrderInv, PlainMessages, LoopChat
  PROVE  OrderKept
<1>. DEFINE rest == loop.polled \ LoopsGroup
<1>1. UNCHANGED <<stored, webWait>> /\ loop'.polled = rest /\ loop'.step = NextStep(rest)
  BY LoopChatCases DEF Resume, Asleep
<1>2. CursorsOnward
  <2>1. CASE SetCursors(LoopsChat, Max(LoopsGroup))
    <3>1. nextPull[LoopsChat] <= Max(LoopsGroup)
      BY GroupIsLast, OrderTypes DEF OrderInv, PlacesTaken, Msgs
    <3>2. Max(LoopsGroup) \in stored' /\ Max(LoopsGroup) \in Msgs /\ ChatOf[Max(LoopsGroup)] = LoopsChat
      BY <1>1, GroupIsLast DEF StoredOf
    <3>. QED
      BY <2>1, <3>1, <3>2, GroupIsLast, SetOnward
  <2>2. CASE Send(LoopsChat, LoopsBatch, {}) /\ UNCHANGED committed
    BY <1>1, <2>2, GroupIsLast, SendOnward
  <2>. QED
    BY <2>1, <2>2, LoopChatCases
<1>3. \A d \in Chats : run'[d].phase # "expanding" /\ run'[d].batch = run[d].batch
  <2>1. CASE UNCHANGED run
    BY <2>1, RunTypes
  <2>2. CASE Pipe(LoopsChat, LoopsBatch, {})
    BY <2>2, RunTypes DEF Pipe, Runs
  <2>. QED
    BY <2>1, <2>2, LoopChatCases DEF Send
<1>4. NothingExpands'
  BY <1>1, <1>3 DEF OrderInv, NothingExpands, NextStep
<1>5. PolledLast'
  <2>1. \A p \in rest, m \in stored \ rest : ChatOf[m] = ChatOf[p] => m \notin loop.polled
    BY DEF LoopsGroup
  <2>. QED
    BY <1>1, <2>1 DEF OrderInv, PolledLast
<1>6. PlacesTaken'
  <2>1. \A d \in Chats : StoredOf(d)' = StoredOf(d)
    BY <1>1 DEF StoredOf
  <2>2. \A d \in Chats : nextPull'[d] \in {0} \cup StoredOf(d)'
    BY <1>2, <2>1 DEF OrderInv, PlacesTaken, CursorsOnward, StoredOf
  <2>. QED
    BY <1>1, <1>3, <2>1, <2>2 DEF OrderInv, PlacesTaken
<1>. QED
  BY <1>2, <1>4, <1>5, <1>6 DEF OrderKept

LEMMA RestartOrder ==
  ASSUME OrderInv, Restart
  PROVE  OrderKept
<1>1. CursorsOnward
  BY OrderTypes DEF Restart, CursorsOnward, Places
<1>2. /\ \A c \in Chats : run'[c].phase = "none" /\ run'[c].batch = {}
      /\ loop'.step = "sleep" /\ loop'.polled = {} /\ webWait' = {}
  BY RunTypes DEF Restart, Asleep
<1>3. PlacesTaken'
  BY <1>2 DEF OrderInv, PlacesTaken, Restart, StoredOf
<1>. QED
  BY <1>1, <1>2, <1>3 DEF OrderKept, NothingExpands, PolledLast

(* A step of the server, or none, moves the cursors on. *)
LEMMA OrderStep ==
  ASSUME OrderInv, PlainMessages, [Next]_vars
  PROVE  OrderKept
<1>1. CASE UNCHANGED vars
  <2>1. UNCHANGED <<stored, nextPull, committed, loop, webWait, run>>
    BY <1>1 DEF vars, cursors, looping, runs
  <2>2. \A d \in Chats : run'[d].phase # "expanding" /\ run'[d].batch = run[d].batch
    BY <2>1, RunTypes
  <2>. QED
    BY <2>1, <2>2, SameOnward, RunsKeepOrder
<1>2. ASSUME NEW c \in Chats, SetAccess(c)
      PROVE  OrderKept
  <2>1. UNCHANGED <<stored, nextPull, committed, loop, webWait, run>>
    BY <1>2 DEF SetAccess, cursors, looping, runs
  <2>2. \A d \in Chats : run'[d].phase # "expanding" /\ run'[d].batch = run[d].batch
    BY <2>1, RunTypes
  <2>. QED
    BY <2>1, <2>2, SameOnward, RunsKeepOrder
<1>3. ~LoopExpanded /\ \A m \in Msgs : ~WebExpanded(m)
  BY DEF OrderInv, NothingExpands, LoopExpanded, WebExpanded
<1>4. CASE Next
  BY <1>2, <1>3, <1>4, PollOrder, LoopChatOrder, ReceiveOrder, RunStepOrder, RestartOrder DEF Next
<1>. QED
  BY <1>1, <1>4

LEMMA OrderInit == Init => OrderInv
<1>. SUFFICES ASSUME Init PROVE OrderInv
  OBVIOUS
<1>. QED
  BY DeliveryInit DEF Init, OrderInv, NothingExpands, PlacesTaken, PolledLast, StoredOf, Asleep, NoRun

LEMMA OrderIsKept == PlainMessages /\ OrderInv /\ [Next]_vars => OrderInv'
BY DeliveryStep, OrderStep DEF OrderInv, OrderKept

(* "never regressing behind existing position": where no plugin is awaited, no
   handler moves a chat's cursors backwards, however IM messages (late ones
   included), web messages, runs, failures, lost access and restarts meet. *)
THEOREM CursorsNeverRegress ==
  ASSUME Slow = {}
  PROVE  Spec => CursorsAdvance
<1>1. PlainMessages
  BY DEF PlainMessages
<1>2. PlainMessages /\ OrderInv /\ [Next]_vars
        => [\A c \in Chats : nextPull'[c] >= nextPull[c] /\ committed'[c] >= committed[c]]_vars
  BY OrderStep DEF OrderKept, CursorsOnward
<1>. QED
  BY <1>1, <1>2, OrderInit, OrderIsKept, PTL DEF Spec, CursorsAdvance, PlainMessages

-----------------------------------------------------------------------------
(* The fates of messages *)

ImInOrder == Slow = {} /\ Web = {} /\ Late = {}

(* Handled messages stay handled, and a fate that is final stays so. *)
FatesKept ==
  \A m \in Msgs : /\ fate[m] # "none" => fate'[m] # "none"
                  /\ Open(m)' => Open(m)

LEMMA SameFates == UNCHANGED fate => FatesKept
BY DEF FatesKept, Open

LEMMA HandFates ==
  ASSUME NEW S, NEW R, Hand(S, R)
  PROVE  /\ FatesKept
         /\ \A m \in Msgs \cap (S \cup R) : fate'[m] # "none"
BY DEF Hand, FatesKept, Open

LEMMA SettleFates ==
  ASSUME NEW S, NEW f \in {"answered", "quiet", "dropped"}, Settle(S, f)
  PROVE  /\ FatesKept
         /\ \A m \in Msgs \cap S : fate'[m] # "none" /\ ~Open(m)'
BY DEF Settle, FatesKept, Open

(* What a step of the loop or of a run does to the fates. *)
LEMMA SendFates ==
  ASSUME NEW c \in Chats, NEW S, Send(c, S, {})
  PROVE  FatesKept
<1>1. CASE Pipe(c, S, {})
  BY <1>1, HandFates DEF Pipe
<1>2. CASE Settle({}, "answered")
  BY <1>2, SettleFates
<1>. QED
  BY <1>1, <1>2 DEF Send

LEMMA RunStepFates ==
  ASSUME OrderInv, NEW c \in Chats, RunStep(c)
  PROVE  FatesKept
<1>1. ~RunExpanded(c)
  BY RunTypes DEF RunExpanded
<1>2. \/ UNCHANGED fate
      \/ Hand(run[c].batch, {})
      \/ \E S, f : f \in {"answered", "quiet", "dropped"} /\ Settle(S, f)
  BY <1>1 DEF RunStep, StartRun, RunDenied, Spawn, SpawnFails, TakeIpc, Answer, Record,
     TurnIsQuiet, RunDone, RunClosed, RunFails, RunGivesUp
<1>. QED
  BY <1>2, SameFates, HandFates, SettleFates

-----------------------------------------------------------------------------
(* No message is passed by *)

(* A run has taken everything up to its last message that was not passed before. *)
BatchTakesAll ==
  \A c \in Chats : \A m \in StoredOf(c), x \in run[c].batch :
    m <= x => m \in run[c].batch \/ m <= nextPull[c]

BatchHanded == \A c \in Chats : Live(c) => \A x \in run[c].batch : fate[x] # "none"

SkipInv == OrderInv /\ BatchTakesAll /\ BatchHanded /\ NothingSkipped

SkipKept == BatchTakesAll' /\ BatchHanded' /\ NothingSkipped'

LEMMA SameSkips ==
  ASSUME SkipInv, FatesKept, UNCHANGED <<stored, nextPull>>
  PROVE  NothingSkipped'
BY OrderTypes DEF SkipInv, NothingSkipped, FatesKept

(* The commit of a run whose batch has been handled passes nothing by. *)
LEMMA CommitSkipsNone ==
  ASSUME SkipInv, FatesKept, NEW c \in Chats, run[c].phase # "none", CommitCursor(c), UNCHANGED stored,
         \A x \in run[c].batch : fate'[x] # "none"
  PROVE  NothingSkipped'
<1>. OrderInv
  BY DEF SkipInv
<1>1. CASE run[c].recorded
  BY <1>1, SameSkips DEF CommitCursor
<1>2. CASE ~run[c].recorded
  <2>. DEFINE x == Max(run[c].batch)
              n == Max({nextPull[c], x})
  <2>1. run[c].batch \subseteq Msgs /\ run[c].batch # {}
    BY OrderTypes DEF OrderInv, DeliveryInv, BatchesHold, PlacesTaken, StoredOf
  <2>2. x \in run[c].batch /\ x \in Msgs
    BY <2>1, OrderTypes, MaxOfPlaces
  <2>3. n \in {nextPull[c], x}
    BY <2>2, OrderTypes, MaxOfPlaces
  <2>4. nextPull' = [nextPull EXCEPT ![c] = n]
    BY <1>2 DEF CommitCursor, AdvanceCursors, SetCursors
  <2>. HIDE DEF x, n
  <2>5. ASSUME NEW m \in stored, m <= nextPull'[ChatOf[m]]
        PROVE  fate'[m] # "none"
    <3>1. m \in Msgs /\ ChatOf[m] \in Chats
      BY OrderTypes
    <3>2. CASE m <= nextPull[ChatOf[m]]
      BY <3>1, <3>2 DEF SkipInv, NothingSkipped, FatesKept
    <3>3. CASE ChatOf[m] = c /\ m <= x /\ ~(m <= nextPull[c])
      <4>1. m \in StoredOf(c)
        BY <3>3 DEF StoredOf
      <4>2. m \in run[c].batch
        BY <2>2, <3>3, <4>1 DEF SkipInv, BatchTakesAll
      <4>. QED
        BY <4>2
    <3>. QED
      BY <2>3, <2>4, <2>5, <3>1, <3>2, <3>3, OrderTypes
  <2>. QED
    BY <2>5 DEF NothingSkipped
<1>. QED
  BY <1>1, <1>2

LEMMA RunStepSkips ==
  ASSUME SkipInv, ImInOrder, NEW c \in Chats, RunStep(c)
  PROVE  SkipKept
<1>. OrderInv /\ PlainMessages
  BY DEF SkipInv, ImInOrder, PlainMessages
<1>1. /\ UNCHANGED stored
      /\ \A d \in Chats : run'[d].batch \in {run[d].batch, {}, Since(d)}
      /\ \A d \in Chats : nextPull'[d] >= nextPull[d]
  BY RunStepRuns, RunStepOrder DEF OrderKept, CursorsOnward
<1>2. nextPull' \in [Chats -> Places]
  <2>1. StepOK
    BY StartRunStep, RunExpandedStep, RunDeniedStep, SpawnStep, TurnStep, EndStep DEF OrderInv, RunStep
  <2>. QED
    BY <2>1, CursorStepIsSafe DEF OrderInv, DeliveryInv, StepOK
<1>3. BatchTakesAll'
  <2>. SUFFICES ASSUME NEW d \in Chats, NEW m \in StoredOf(d), NEW x \in run'[d].batch, m <= x
                PROVE  m \in run'[d].batch \/ m <= nextPull'[d]
    BY <1>1 DEF BatchTakesAll, StoredOf
  <2>1. m \in Msgs
    BY OrderTypes DEF StoredOf
  <2>2. m \in run'[d].batch \/ m <= nextPull[d]
    <3>1. CASE run'[d].batch = run[d].batch
      BY <3>1 DEF SkipInv, BatchTakesAll
    <3>2. CASE run'[d].batch = Since(d)
      BY <3>2, <2>1, OrderTypes DEF Since
    <3>. QED
      BY <1>1, <3>1, <3>2
  <2>. QED
    BY <1>1, <1>2, <2>1, <2>2, OrderTypes
<1>4. FatesKept
  BY RunStepFates
<1>5. ~RunExpanded(c) /\ run[c].batch \subseteq Msgs
  BY RunTypes, OrderTypes DEF RunExpanded, OrderInv, PlacesTaken, StoredOf
<1>6. CASE RunDenied(c)
  <2>1. \A x \in run[c].batch : fate'[x] # "none"
    BY <1>5, <1>6, SettleFates DEF RunDenied
  <2>2. NothingSkipped'
    BY <1>1, <1>4, <1>6, <2>1, CommitSkipsNone DEF RunDenied
  <2>3. BatchHanded'
    BY <1>4, <1>6, RunTypes, OrderTypes DEF RunDenied, SkipInv, BatchHanded, Live, FatesKept, OrderInv, PlacesTaken, StoredOf
  <2>. QED
    BY <1>3, <2>2, <2>3 DEF SkipKept
<1>7. CASE ~RunDenied(c)
  <2>1. \/ UNCHANGED nextPull
        \/ Live(c) /\ CommitCursor(c)
    BY <1>5, <1>7 DEF RunStep, StartRun, Spawn, SpawnFails, TakeIpc, Answer, Record,
       TurnIsQuiet, RunDone, RunClosed, RunFails, RunGivesUp, Fail, cursors, Live
  <2>2. NothingSkipped'
    <3>1. CASE UNCHANGED nextPull
      BY <1>1, <1>4, <3>1, SameSkips
    <3>2. CASE Live(c) /\ CommitCursor(c)
      <4>1. \A x \in run[c].batch : fate'[x] # "none"
        BY <1>4, <1>5, <3>2 DEF SkipInv, BatchHanded, FatesKept
      <4>. QED
        BY <1>1, <1>4, <3>2, <4>1, CommitSkipsNone DEF Live
    <3>. QED
      BY <2>1, <3>1, <3>2
  <2>3. \A d \in Chats : run[d].batch \subseteq Msgs
    BY OrderTypes DEF OrderInv, PlacesTaken, StoredOf
  <2>4. BatchHanded'
    <3>1. CASE Spawn(c)
      <4>1. \A x \in run[c].batch : fate'[x] # "none"
        BY <1>5, <3>1, HandFates DEF Spawn
      <4>. QED
        BY <1>4, <2>3, <3>1, <4>1, RunTypes DEF Spawn, SkipInv, BatchHanded, Live, FatesKept, Runs
    <3>2. CASE StartRun(c)
      BY <1>4, <2>3, <3>2, RunTypes DEF StartRun, SkipInv, BatchHanded, Live, FatesKept, Runs, NoRun, PlainMessages
    <3>3. CASE TakeIpc(c) \/ Answer(c) \/ Record(c) \/ TurnIsQuiet(c)
      <4>1. \A d \in Chats : run'[d].batch = run[d].batch /\ (Live(d)' => Live(d))
        BY <3>3, RunTypes DEF TakeIpc, Answer, Record, TurnIsQuiet, runs, Live, Runs
      <4>. QED
        BY <1>4, <2>3, <4>1 DEF SkipInv, BatchHanded, FatesKept
    <3>4. CASE run' = [run EXCEPT ![c] = NoRun]
      <4>1. \A d \in Chats : Live(d)' => Live(d) /\ run'[d].batch = run[d].batch
        BY <3>4, RunTypes DEF Live
      <4>. QED
        BY <1>4, <2>3, <4>1 DEF SkipInv, BatchHanded, FatesKept
    <3>5. SpawnFails(c) \/ RunDone(c) \/ RunClosed(c) \/ RunFails(c) \/ RunGivesUp(c)
            => run' = [run EXCEPT ![c] = NoRun]
      BY DEF SpawnFails, RunDone, RunClosed, RunFails, RunGivesUp, RunEnds
    <3>. QED
      BY <1>5, <1>7, <3>1, <3>2, <3>3, <3>4, <3>5 DEF RunStep
  <2>. QED
    BY <1>3, <2>2, <2>4 DEF SkipKept
<1>. QED
  BY <1>6, <1>7

(* Steps that leave the runs of the chats what they were. *)
LEMMA SameRunsSkips ==
  ASSUME SkipInv, OrderKept, FatesKept, UNCHANGED stored,
         \A d \in Chats : /\ run'[d].batch = run[d].batch \/ run'[d].batch = {}
                          /\ Live(d)' => Live(d),
         nextPull' \in [Chats -> Places]
  PROVE  BatchTakesAll' /\ BatchHanded'
<1>. OrderInv
  BY DEF SkipInv
<1>1. \A d \in Chats : run[d].batch \subseteq Msgs
  BY OrderTypes DEF OrderInv, PlacesTaken, StoredOf
<1>2. ASSUME NEW d \in Chats, NEW x \in run'[d].batch
      PROVE  run'[d].batch = run[d].batch
  BY <1>2
<1>3. BatchHanded'
  <2>1. ASSUME NEW d \in Chats, Live(d)', NEW x \in run'[d].batch
        PROVE  fate'[x] # "none"
    <3>1. x \in run[d].batch /\ Live(d)
      BY <1>2, <2>1
    <3>. QED
      BY <1>1, <3>1 DEF SkipInv, BatchHanded, FatesKept
  <2>. QED
    BY <2>1 DEF BatchHanded
<1>4. ASSUME NEW d \in Chats, NEW m \in StoredOf(d), NEW x \in run'[d].batch, m <= x
      PROVE  m \in run'[d].batch \/ m <= nextPull'[d]
  <2>1. m \in Msgs /\ nextPull'[d] >= nextPull[d]
    BY OrderTypes DEF StoredOf, OrderKept, CursorsOnward
  <2>2. run'[d].batch = run[d].batch
    BY <1>2
  <2>3. m \in run[d].batch \/ m <= nextPull[d]
    BY <1>4, <2>2 DEF SkipInv, BatchTakesAll
  <2>. QED
    BY <2>1, <2>2, <2>3, OrderTypes
<1>. QED
  BY <1>3, <1>4 DEF BatchTakesAll, StoredOf

LEMMA ReceiveSkips ==
  ASSUME SkipInv, ImInOrder, NEW m \in Msgs, ReceiveIm(m)
  PROVE  SkipKept
<1>. OrderInv
  BY DEF SkipInv
<1>1. /\ stored' = stored \cup {m} /\ UNCHANGED <<nextPull, run, fate>>
      /\ \A n \in stored : n < m
  BY DEF ReceiveIm, ImInOrder, Timely, cursors, runs
<1>2. m \notin stored /\ ~(m <= nextPull[ChatOf[m]])
  <2>1. ChatOf[m] \in Chats
    BY OrderTypes
  <2>2. nextPull[ChatOf[m]] = 0 \/ nextPull[ChatOf[m]] \in stored
    BY <2>1 DEF OrderInv, PlacesTaken, StoredOf
  <2>. QED
    BY <1>1, <2>2, OrderTypes DEF Msgs, ReceiveIm
<1>3. NothingSkipped'
  BY <1>1, <1>2 DEF SkipInv, NothingSkipped
<1>4. BatchTakesAll'
  <2>. SUFFICES ASSUME NEW d \in Chats, NEW n \in stored', ChatOf[n] = d, NEW x \in run[d].batch, n <= x
                PROVE  n \in run[d].batch \/ n <= nextPull[d]
    BY <1>1 DEF BatchTakesAll, StoredOf
  <2>1. x \in stored /\ x \in Msgs
    BY OrderTypes DEF OrderInv, PlacesTaken, StoredOf
  <2>2. n # m
    BY <1>1, <2>1 DEF Msgs
  <2>3. n \in StoredOf(d)
    BY <1>1, <2>2 DEF StoredOf
  <2>. QED
    BY <2>3 DEF SkipInv, BatchTakesAll
<1>5. BatchHanded'
  BY <1>1 DEF SkipInv, BatchHanded, Live
<1>. QED
  BY <1>3, <1>4, <1>5 DEF SkipKept

LEMMA LoopChatSkips ==
  ASSUME SkipInv, ImInOrder, LoopChat
  PROVE  SkipKept
<1>. DEFINE c == LoopsChat
<1>. OrderInv /\ PlainMessages
  BY DEF SkipInv, ImInOrder, PlainMessages
<1>1. OrderKept /\ UNCHANGED stored
  BY LoopChatOrder, LoopChatCases
<1>2. nextPull' \in [Chats -> Places]
  BY LoopChatStep, CursorStepIsSafe DEF OrderInv, DeliveryInv, StepOK
<1>3. CASE /\ SetCursors(c, Max(LoopsGroup))
           /\ Settle({m \in LoopsGroup \cup Since(c) : m <= Max(LoopsGroup)}, "dropped")
           /\ UNCHANGED run
  <2>1. FatesKept
    BY <1>3, SettleFates
  <2>2. ASSUME NEW m \in stored, m <= nextPull'[ChatOf[m]]
        PROVE  fate'[m] # "none"
    <3>1. m \in Msgs /\ ChatOf[m] \in Chats
      BY OrderTypes
    <3>2. CASE m <= nextPull[ChatOf[m]]
      BY <2>1, <3>1, <3>2 DEF SkipInv, NothingSkipped, FatesKept
    <3>3. CASE ChatOf[m] = c /\ ~(m <= nextPull[c])
      <4>1. m \in StoredOf(c) /\ m \in Since(c)
        BY <3>1, <3>3, OrderTypes, GroupIsLast DEF Since, StoredOf
      <4>2. m <= Max(LoopsGroup)
        BY <4>1, GroupIsLast
      <4>. QED
        BY <1>3, <3>1, <4>1, <4>2, SettleFates
    <3>4. CASE ChatOf[m] # c
      BY <1>3, <2>2, <3>1, <3>2, <3>4, OrderTypes DEF SetCursors
    <3>. QED
      BY <3>2, <3>3, <3>4
  <2>3. NothingSkipped'
    BY <1>1, <2>2 DEF NothingSkipped
  <2>4. BatchTakesAll' /\ BatchHanded'
    BY <1>1, <1>2, <1>3, <2>1, SameRunsSkips DEF Live
  <2>. QED
    BY <2>3, <2>4 DEF SkipKept
<1>4. CASE Send(c, LoopsBatch, {})
  <2>1. FatesKept
    BY <1>4, GroupIsLast, SendFates
  <2>2. CASE Pipe(c, LoopsBatch, {}) /\ nextPull' = [nextPull EXCEPT ![c] = Max({@} \cup LoopsBatch \cup {})]
    <3>1. \A m \in Msgs \cap LoopsBatch : fate'[m] # "none"
      BY <2>2, HandFates DEF Pipe
    <3>2. ASSUME NEW m \in stored, m <= nextPull'[ChatOf[m]]
          PROVE  fate'[m] # "none"
      <4>1. m \in Msgs /\ ChatOf[m] \in Chats
        BY OrderTypes
      <4>2. CASE m <= nextPull[ChatOf[m]]
        BY <2>1, <4>1, <4>2 DEF SkipInv, NothingSkipped, FatesKept
      <4>3. CASE ChatOf[m] = c /\ ~(m <= nextPull[c])
        <5>1. m \in Since(c)
          BY <4>1, <4>3, OrderTypes, GroupIsLast DEF Since, StoredOf
        <5>. QED
          BY <3>1, <4>1, <5>1 DEF LoopsBatch
      <4>4. CASE ChatOf[m] # c
        BY <2>2, <3>2, <4>1, <4>2, <4>4, OrderTypes
      <4>. QED
        BY <4>2, <4>3, <4>4
    <3>3. NothingSkipped'
      BY <1>1, <3>2 DEF NothingSkipped
    <3>4. \A d \in Chats : run'[d].batch = run[d].batch /\ (Live(d)' => Live(d))
      BY <2>2, RunTypes DEF Pipe, Live, Runs
    <3>. QED
      BY <1>1, <1>2, <2>1, <3>3, <3>4, SameRunsSkips DEF SkipKept
  <2>3. CASE UNCHANGED run /\ nextPull' = [nextPull EXCEPT ![c] = Max({@} \cup {})]
    <3>1. \A x \in Places : Max({x} \cup {}) = x
      BY MaxOfPlaces
    <3>2. nextPull' = nextPull
      BY <2>3, <3>1, OrderTypes, GroupIsLast
    <3>3. NothingSkipped'
      BY <1>1, <2>1, <3>2, SameSkips
    <3>. QED
      BY <1>1, <1>2, <2>1, <2>3, <3>3, SameRunsSkips DEF SkipKept, Live
  <2>. QED
    BY <1>4, <2>2, <2>3 DEF Send
<1>. QED
  BY <1>3, <1>4, LoopChatCases

(* The steps that neither move the next-pull cursor nor settle messages. *)
LEMMA OtherSkips ==
  ASSUME SkipInv, ImInOrder, [Next]_vars,
         UNCHANGED <<stored, nextPull, fate>>,
         \A d \in Chats : /\ run'[d].batch = run[d].batch \/ run'[d].batch = {}
                          /\ Live(d)' => Live(d)
  PROVE  SkipKept
<1>1. OrderKept
  BY OrderStep DEF SkipInv, ImInOrder, PlainMessages
<1>2. nextPull' \in [Chats -> Places]
  BY OrderTypes DEF SkipInv
<1>3. FatesKept
  BY SameFates
<1>. QED
  BY <1>1, <1>2, <1>3, SameSkips, SameRunsSkips DEF SkipKept

LEMMA SkipStep == ImInOrder /\ SkipInv /\ [Next]_vars => SkipInv'
<1>. SUFFICES ASSUME ImInOrder, SkipInv, [Next]_vars PROVE SkipInv'
  OBVIOUS
<1>. OrderInv /\ PlainMessages
  BY DEF SkipInv, ImInOrder, PlainMessages
<1>1. OrderInv'
  BY OrderIsKept
<1>2. SkipKept
  <2>1. CASE UNCHANGED vars
    BY <2>1, OtherSkips DEF vars, cursors, runs, Live
  <2>2. CASE Poll
    BY <2>2, OtherSkips DEF Poll, runs, Live
  <2>3. ASSUME NEW c \in Chats, SetAccess(c) PROVE SkipKept
    BY <2>3, OtherSkips DEF SetAccess, cursors, runs, Live
  <2>4. CASE Restart
    <3>1. \A d \in Chats : run'[d].batch = {} /\ ~Live(d)'
      BY <2>4, RunTypes DEF Restart, Live
    <3>. QED
      BY <2>4, <3>1, OtherSkips DEF Restart
  <2>5. ~LoopExpanded /\ \A m \in Msgs : ~WebExpanded(m) /\ ~ReceiveWeb(m)
    BY DEF OrderInv, NothingExpands, LoopExpanded, WebExpanded, ReceiveWeb, ImInOrder
  <2>6. CASE Next
    BY <2>2, <2>3, <2>4, <2>5, <2>6, LoopChatSkips, ReceiveSkips, RunStepSkips DEF Next
  <2>. QED
    BY <2>1, <2>6
<1>. QED
  BY <1>1, <1>2 DEF SkipInv, SkipKept

LEMMA SkipInit == Init => SkipInv
<1>. SUFFICES ASSUME Init PROVE SkipInv
  OBVIOUS
<1>. QED
  BY OrderInit DEF Init, SkipInv, BatchTakesAll, BatchHanded, NothingSkipped, NoRun, Live

(* Where messages come by IM, in order and without slash commands, the next
   pull passes none by: each one behind the cursor was handed to a runner, or
   dropped because its chat's owner had lost access, however the loop, runs
   that start, commit, fail or end, and restarts interleave. *)
THEOREM NothingIsSkipped ==
  ASSUME Slow = {}, Web = {}, Late = {}
  PROVE  Spec => []NothingSkipped
<1>1. ImInOrder
  BY DEF ImInOrder
<1>2. SkipInv => NothingSkipped
  BY DEF SkipInv
<1>. QED
  BY <1>1, <1>2, SkipInit, SkipStep, PTL DEF Spec, ImInOrder

-----------------------------------------------------------------------------
(* No message is forgotten *)

(* The loop has seen what is stored, unless it has just been woken. *)
LoopHasSeen ==
  /\ globalCursor \in {0} \cup stored
  /\ woken => loop.step = "sleep"
  /\ woken \/ \A m \in stored : m <= globalCursor

(* What the loop has still to hand on was not pulled by a run. *)
PolledIsFresh ==
  \A m \in stored :
    m > globalCursor \/ m \in loop.polled =>
      m > nextPull[ChatOf[m]] /\ m \notin run[ChatOf[m]].batch

(* The next run pulls the message, also when the present one has recorded its batch. *)
Waits(m) ==
  LET c == ChatOf[m] IN
  m > nextPull[c] /\ c \in due /\ \A x \in run[c].batch : x < m

Held(m) ==
  LET c == ChatOf[m] IN
  \/ m \in ipc[c]
  \/ Waits(m)
  \/ run[c].phase = "starting" /\ m \in run[c].batch
  \/ Live(c) /\ m \in inRunner[c]

UnsettledHeld ==
  fails = 0 /\ crashes = 0 =>
    \A m \in stored : Open(m) /\ m <= globalCursor /\ m \notin loop.polled => Held(m)

HeldInv == OrderInv /\ LoopHasSeen /\ PolledIsFresh /\ UnsettledHeld

HeldKept == LoopHasSeen' /\ PolledIsFresh' /\ UnsettledHeld'

LEMMA HeldTypes ==
  ASSUME HeldInv
  PROVE  /\ globalCursor \in Places /\ fails \in Nat /\ crashes \in Nat /\ woken \in BOOLEAN
         /\ due \subseteq Chats
         /\ ipc \in [Chats -> SUBSET Msgs] /\ inRunner \in [Chats -> SUBSET Msgs]
         /\ \A c \in Chats : run[c].batch \subseteq Msgs
BY TypeOKIsParts, OrderTypes, DeliveryAssumption
   DEF HeldInv, OrderInv, DeliveryInv, ControlOK, MessagesOK, PlacesTaken, StoredOf

(* A message is held as before where nothing of its chat is taken away. *)
LEMMA StaysHeld ==
  ASSUME HeldInv, NEW m \in stored, Held(m), NEW d \in Chats, d = ChatOf[m],
         ipc[d] \subseteq ipc'[d], inRunner[d] \subseteq inRunner'[d],
         nextPull'[d] = nextPull[d], d \in due => d \in due',
         run'[d].batch = run[d].batch, run'[d].phase = run[d].phase
  PROVE  Held(m)'
BY DEF Held, Waits, Live

(* Between the steps of the loop there is nothing it has not seen. *)
LEMMA QuietLoop ==
  ASSUME HeldInv, ~Urgent
  PROVE  /\ ~woken /\ loop.step = "sleep" /\ loop.polled = {}
         /\ \A m \in stored : m <= globalCursor
BY TypeOKIsParts DEF HeldInv, OrderInv, DeliveryInv, ControlOK, Loops, NothingExpands, Urgent, LoopHasSeen

LEMMA ReceiveHeld ==
  ASSUME HeldInv, ImInOrder, ~Urgent, NEW m \in Msgs, ReceiveIm(m)
  PROVE  HeldKept
<1>. OrderInv
  BY DEF HeldInv
<1>1. /\ stored' = stored \cup {m} /\ woken' = TRUE
      /\ UNCHANGED <<globalCursor, nextPull, loop, due, run, ipc, inRunner, fails, crashes, fate>>
      /\ \A n \in stored : n < m
  BY QuietLoop DEF ReceiveIm, ImInOrder, Timely, cursors, runs, runners, env
<1>2. ChatOf[m] \in Chats
  BY OrderTypes
<1>3. m > globalCursor /\ m > nextPull[ChatOf[m]] /\ m \notin run[ChatOf[m]].batch
  <2>1. globalCursor = 0 \/ globalCursor \in stored
    BY DEF HeldInv, LoopHasSeen
  <2>2. nextPull[ChatOf[m]] = 0 \/ nextPull[ChatOf[m]] \in stored
    BY <1>2 DEF OrderInv, PlacesTaken, StoredOf
  <2>3. m \notin stored /\ run[ChatOf[m]].batch \subseteq stored
    BY <1>2 DEF ReceiveIm, OrderInv, PlacesTaken, StoredOf
  <2>. QED
    BY <1>1, <2>1, <2>2, <2>3, OrderTypes DEF Msgs
<1>4. LoopHasSeen'
  BY <1>1, QuietLoop DEF HeldInv, LoopHasSeen
<1>5. PolledIsFresh'
  BY <1>1, <1>3 DEF HeldInv, PolledIsFresh
<1>6. UnsettledHeld'
  <2>. SUFFICES ASSUME fails = 0, crashes = 0, NEW n \in stored', Open(n), n <= globalCursor, n \notin loop.polled
                PROVE  Held(n)'
    BY <1>1 DEF UnsettledHeld, Open
  <2>1. n \in stored
    BY <1>1, <1>3, HeldTypes, OrderTypes
  <2>2. Held(n) /\ ChatOf[n] \in Chats
    BY <2>1, OrderTypes DEF HeldInv, UnsettledHeld
  <2>. QED
    BY <1>1, <2>1, <2>2, StaysHeld
<1>. QED
  BY <1>4, <1>5, <1>6 DEF HeldKept

LEMMA PollHeld ==
  ASSUME HeldInv, Poll
  PROVE  HeldKept
<1>. DEFINE new == {m \in stored : m > globalCursor}
<1>. OrderInv
  BY DEF HeldInv
<1>1. /\ loop.polled = {} /\ woken' = FALSE /\ loop'.polled = new
      /\ globalCursor' = Max(new \cup {globalCursor})
      /\ UNCHANGED <<stored, nextPull, due, run, ipc, inRunner, fails, crashes, fate>>
  BY DEF Poll, PolledCursor, Asleep, runs, runners, env, OrderInv, NothingExpands
<1>2. /\ globalCursor' \in new \cup {globalCursor} /\ globalCursor' \in Places
      /\ \A m \in stored : m <= globalCursor'
  <2>1. /\ Max(new \cup {globalCursor}) \in new \cup {globalCursor}
        /\ Max(new \cup {globalCursor}) \in Places
        /\ \A m \in new \cup {globalCursor} : m <= Max(new \cup {globalCursor})
    BY MaxOfPlaces, HeldTypes, OrderTypes
  <2>. HIDE DEF new
  <2>2. ASSUME NEW m \in stored PROVE m <= globalCursor'
    <3>1. m \in Int /\ globalCursor \in Int /\ globalCursor' \in Int
      BY <1>1, <2>1, HeldTypes, OrderTypes
    <3>2. CASE m \in new
      BY <1>1, <2>1, <3>2
    <3>3. CASE m <= globalCursor
      BY <1>1, <2>1, <3>1, <3>3
    <3>4. m \in new \/ m <= globalCursor
      BY <3>1 DEF new
    <3>. QED
      BY <3>2, <3>3, <3>4
  <2>. QED
    BY <1>1, <2>1, <2>2
<1>3. LoopHasSeen'
  BY <1>1, <1>2 DEF HeldInv, LoopHasSeen
<1>4. PolledIsFresh'
  <2>. SUFFICES ASSUME NEW m \in stored, m \in new
                PROVE  m > nextPull[ChatOf[m]] /\ m \notin run[ChatOf[m]].batch
    <3>1. \A m \in stored : ~(m > globalCursor')
      BY <1>2, OrderTypes
    <3>. HIDE DEF new
    <3>. QED
      BY <1>1, <3>1 DEF PolledIsFresh
  <2>. QED
    BY DEF HeldInv, PolledIsFresh
<1>5. UnsettledHeld'
  <2>. SUFFICES ASSUME fails = 0, crashes = 0, NEW n \in stored, Open(n), n \notin new
                PROVE  Held(n)'
    BY <1>1 DEF UnsettledHeld, Open
  <2>1. n <= globalCursor /\ ChatOf[n] \in Chats
    BY HeldTypes, OrderTypes
  <2>2. Held(n)
    BY <1>1, <2>1 DEF HeldInv, UnsettledHeld
  <2>. QED
    BY <1>1, <2>1, <2>2, StaysHeld
<1>. QED
  BY <1>3, <1>4, <1>5 DEF HeldKept

LEMMA LoopChatHeld ==
  ASSUME HeldInv, ImInOrder, LoopChat
  PROVE  HeldKept
<1>. DEFINE c == LoopsChat
            rest == loop.polled \ LoopsGroup
<1>. OrderInv /\ PlainMessages
  BY DEF HeldInv, ImInOrder, PlainMessages
<1>1. /\ loop'.polled = rest
      /\ UNCHANGED <<stored, globalCursor, woken, inRunner, fails, crashes>>
  BY LoopChatCases DEF Resume, Asleep, env
<1>2. ~woken /\ \A m \in stored : m <= globalCursor
  BY DEF HeldInv, LoopHasSeen, LoopChat
<1>3. LoopHasSeen'
  BY <1>1, <1>2, HeldTypes DEF HeldInv, LoopHasSeen
<1>4. /\ c \in Chats
      /\ \A d \in Chats : d # c => nextPull'[d] = nextPull[d]
      /\ \A d \in Chats : run'[d].batch = run[d].batch /\ run'[d].phase = run[d].phase
      /\ due \subseteq due' /\ \A d \in Chats : ipc[d] \subseteq ipc'[d]
      /\ FatesKept
  <2>1. c \in Chats
    BY GroupIsLast
  <2>2. CASE /\ SetCursors(c, Max(LoopsGroup))
             /\ Settle({m \in LoopsGroup \cup Since(c) : m <= Max(LoopsGroup)}, "dropped")
             /\ UNCHANGED <<due, run, ipc>>
    BY <2>1, <2>2, OrderTypes, SettleFates DEF SetCursors
  <2>3. CASE Send(c, LoopsBatch, {})
    <3>1. FatesKept
      BY <2>1, <2>3, SendFates
    <3>2. \A d \in Chats : d # c => nextPull'[d] = nextPull[d]
      BY <2>1, <2>3, OrderTypes DEF Send
    <3>3. \A d \in Chats : run'[d].batch = run[d].batch /\ run'[d].phase = run[d].phase
      BY <2>1, <2>3, RunTypes DEF Send, Pipe, Runs
    <3>4. due \subseteq due' /\ \A d \in Chats : ipc[d] \subseteq ipc'[d]
      BY <2>1, <2>3, HeldTypes DEF Send, Pipe
    <3>. QED
      BY <2>1, <3>1, <3>2, <3>3, <3>4
  <2>. QED
    BY <2>2, <2>3, LoopChatCases
<1>5. PolledIsFresh'
  <2>. SUFFICES ASSUME NEW m \in stored, m \in rest
                PROVE  m > nextPull'[ChatOf[m]] /\ m \notin run'[ChatOf[m]].batch
    BY <1>1, <1>2, HeldTypes, OrderTypes DEF PolledIsFresh
  <2>1. m \in loop.polled /\ ChatOf[m] \in Chats /\ ChatOf[m] # c
    BY OrderTypes DEF LoopsGroup
  <2>. QED
    BY <1>4, <2>1 DEF HeldInv, PolledIsFresh
<1>6. UnsettledHeld'
  <2>. SUFFICES ASSUME fails = 0, crashes = 0, NEW m \in stored, Open(m)', m \notin rest
                PROVE  Held(m)'
    BY <1>1 DEF UnsettledHeld
  <2>1. m \in Msgs /\ ChatOf[m] \in Chats /\ Open(m) /\ m <= globalCursor
    BY <1>2, <1>4, OrderTypes DEF FatesKept
  <2>2. m \notin LoopsGroup => Held(m)
    BY <2>1 DEF HeldInv, UnsettledHeld
  <2>3. CASE ChatOf[m] # c
    <3>1. m \notin LoopsGroup
      BY <2>3 DEF LoopsGroup
    <3>. QED
      BY <1>1, <1>4, <2>1, <2>2, <2>3, <3>1, StaysHeld
  <2>4. CASE ChatOf[m] = c /\ ~(m > nextPull[c])
    <3>1. m \notin LoopsGroup
      BY <2>4 DEF LoopsGroup, HeldInv, PolledIsFresh
    <3>2. Held(m) /\ ~Waits(m)
      BY <2>2, <2>4, <3>1 DEF Waits
    <3>. QED
      BY <1>1, <1>4, <2>4, <3>2 DEF Held, Live
  <2>5. CASE ChatOf[m] = c /\ m > nextPull[c]
    <3>1. m \in Since(c) /\ m \in LoopsBatch /\ m <= Max(LoopsGroup)
      BY <2>1, <2>5, GroupIsLast DEF Since, StoredOf, LoopsBatch
    <3>2. CASE Settle({n \in LoopsGroup \cup Since(c) : n <= Max(LoopsGroup)}, "dropped")
      <4>1. ~Open(m)'
        BY <2>1, <3>1, <3>2, SettleFates
      <4>. QED
        BY <4>1
    <3>3. CASE Pipe(c, LoopsBatch, {})
      BY <1>4, <2>5, <3>1, <3>3, HeldTypes DEF Pipe, Held
    <3>4. CASE /\ due' = due \cup {c}
               /\ nextPull' = [nextPull EXCEPT ![c] = Max({@} \cup {})]
               /\ UNCHANGED <<ipc, run>>
      <4>1. \A x \in Places : Max({x} \cup {}) = x
        BY MaxOfPlaces
      <4>2. nextPull' = nextPull
        BY <1>4, <3>4, <4>1, OrderTypes
      <4>3. CASE m \in LoopsGroup
        <5>1. ASSUME NEW x \in run[c].batch PROVE x < m
          <6>1. x \in stored /\ ChatOf[x] = c
            BY <1>4 DEF OrderInv, PlacesTaken, StoredOf
          <6>2. x \notin loop.polled
            BY <6>1 DEF HeldInv, PolledIsFresh
          <6>. QED
            BY <2>5, <4>3, <6>1, <6>2 DEF OrderInv, PolledLast, LoopsGroup
        <5>. QED
          BY <2>5, <3>4, <4>2, <5>1 DEF Held, Waits
      <4>4. CASE m \notin LoopsGroup
        BY <1>1, <1>4, <2>1, <2>2, <4>2, <4>4, StaysHeld
      <4>. QED
        BY <4>3, <4>4
    <3>. QED
      BY <3>2, <3>3, <3>4, LoopChatCases DEF Send
  <2>. QED
    BY <2>3, <2>4, <2>5
<1>. QED
  BY <1>3, <1>5, <1>6 DEF HeldKept

-----------------------------------------------------------------------------
(* The steps of a run *)

(* What is shown of the messages of the run's own chat; the others are not touched. *)
OwnHeld(c) == \A m \in stored : ChatOf[m] = c /\ Held(m) /\ Open(m)' => Held(m)'

LEMMA RunStepElsewhere ==
  ASSUME HeldInv, NEW c \in Chats, RunStep(c), NEW d \in Chats, d # c
  PROVE  /\ ipc'[d] = ipc[d] /\ inRunner'[d] = inRunner[d] /\ nextPull'[d] = nextPull[d]
         /\ run'[d] = run[d] /\ (d \in due => d \in due')
<1>. OrderInv
  BY DEF HeldInv
<1>1. ~RunExpanded(c)
  BY RunTypes DEF RunExpanded
<1>2. ipc'[d] = ipc[d] /\ inRunner'[d] = inRunner[d]
  BY <1>1, HeldTypes DEF RunStep, StartRun, RunDenied, Spawn, SpawnFails, TakeIpc, Answer, Record,
     TurnIsQuiet, RunDone, RunClosed, RunFails, RunGivesUp, RunEnds, runners
<1>3. run'[d] = run[d]
  BY <1>1, RunTypes DEF RunStep, StartRun, RunDenied, Spawn, SpawnFails, TakeIpc, Answer, Record,
     TurnIsQuiet, RunDone, RunClosed, RunFails, RunGivesUp, RunEnds, runs
<1>4. d \in due => d \in due'
  BY <1>1 DEF RunStep, StartRun, RunDenied, Spawn, SpawnFails, TakeIpc, Answer, Record,
     TurnIsQuiet, RunDone, RunClosed, RunFails, RunGivesUp, RunEnds, Retry, runs
<1>5. UNCHANGED nextPull \/ CommitCursor(c)
  BY <1>1 DEF RunStep, StartRun, RunDenied, Spawn, SpawnFails, TakeIpc, Answer, Record,
     TurnIsQuiet, RunDone, RunClosed, RunFails, RunGivesUp, cursors
<1>6. nextPull'[d] = nextPull[d]
  BY <1>5, OrderTypes DEF CommitCursor, AdvanceCursors, SetCursors
<1>. QED
  BY <1>2, <1>3, <1>4, <1>6

(* Recording a batch leaves the messages that wait in front of the cursor. *)
LEMMA CommitWaits ==
  ASSUME HeldInv, NEW c \in Chats, run[c].phase # "none", CommitCursor(c),
         NEW m \in stored, ChatOf[m] = c, Waits(m)
  PROVE  m > nextPull'[c]
<1>. OrderInv
  BY DEF HeldInv
<1>1. CASE run[c].recorded
  BY <1>1 DEF CommitCursor, Waits
<1>2. CASE ~run[c].recorded
  <2>. DEFINE x == Max(run[c].batch)
              n == Max({nextPull[c], x})
  <2>1. run[c].batch \subseteq Msgs /\ run[c].batch # {}
    BY HeldTypes DEF OrderInv, DeliveryInv, BatchesHold
  <2>2. x \in run[c].batch /\ x \in Msgs
    BY <2>1, OrderTypes, MaxOfPlaces
  <2>3. n \in {nextPull[c], x}
    BY <2>2, OrderTypes, MaxOfPlaces
  <2>4. nextPull'[c] = n
    BY <1>2, OrderTypes DEF CommitCursor, AdvanceCursors, SetCursors
  <2>5. m > nextPull[c] /\ x < m
    BY <2>2 DEF Waits
  <2>. QED
    BY <2>2, <2>3, <2>4, <2>5, OrderTypes
<1>. QED
  BY <1>1, <1>2

LEMMA StartRunOwn ==
  ASSUME HeldInv, ImInOrder, NEW c \in Chats, StartRun(c)
  PROVE  OwnHeld(c)
<1>. OrderInv
  BY DEF HeldInv
<1>. SUFFICES ASSUME NEW m \in stored, ChatOf[m] = c, Held(m)
              PROVE  Held(m)'
  BY DEF OwnHeld
<1>1. m \in ipc[c] \/ Waits(m)
  BY DEF Held, StartRun, Live
<1>2. CASE m \in ipc[c]
  BY <1>2 DEF StartRun, Held, runners
<1>3. CASE Waits(m)
  <2>1. m \in Since(c) /\ Since(c) \cap Slow = {}
    BY <1>3 DEF Waits, Since, StoredOf, ImInOrder
  <2>2. run'[c].phase = "starting" /\ run'[c].batch = Since(c)
    BY <2>1, RunTypes DEF StartRun, NoRun
  <2>. QED
    BY <2>1, <2>2 DEF Held
<1>. QED
  BY <1>1, <1>2, <1>3

LEMMA StartingOwn ==
  ASSUME HeldInv, NEW c \in Chats, RunDenied(c) \/ Spawn(c)
  PROVE  OwnHeld(c)
<1>. OrderInv
  BY DEF HeldInv
<1>. SUFFICES ASSUME NEW m \in stored, ChatOf[m] = c, Held(m), Open(m)'
              PROVE  Held(m)'
  BY DEF OwnHeld
<1>1. run[c].phase = "starting" /\ ~Live(c) /\ m \in Msgs
  BY OrderTypes DEF RunDenied, Spawn, Live
<1>2. CASE RunDenied(c)
  <2>1. m \notin run[c].batch
    BY <1>1, <1>2, SettleFates DEF RunDenied
  <2>2. m \in ipc[c] \/ Waits(m)
    BY <1>1, <2>1 DEF Held
  <2>3. CASE m \in ipc[c]
    BY <1>2, <2>3 DEF RunDenied, Held, runners
  <2>4. CASE Waits(m)
    <3>1. m > nextPull'[c]
      BY <1>1, <1>2, <2>4, CommitWaits DEF RunDenied
    <3>2. run'[c].batch = {}
      BY <1>2, RunTypes DEF RunDenied
    <3>. QED
      BY <1>2, <2>4, <3>1, <3>2 DEF RunDenied, Held, Waits
  <2>. QED
    BY <2>2, <2>3, <2>4
<1>3. CASE Spawn(c)
  <2>1. /\ inRunner'[c] = run[c].batch \cup ipc[c] /\ run'[c].phase = "live" /\ run'[c].batch = run[c].batch
        /\ UNCHANGED <<nextPull, due>>
    BY <1>3, HeldTypes, RunTypes DEF Spawn, Runs, cursors
  <2>2. CASE m \in ipc[c] \/ m \in run[c].batch
    BY <2>1, <2>2 DEF Held, Live
  <2>3. CASE Waits(m)
    BY <2>1, <2>3 DEF Held, Waits
  <2>. QED
    BY <1>1, <2>2, <2>3 DEF Held
<1>. QED
  BY <1>2, <1>3

LEMMA TurnOwn ==
  ASSUME HeldInv, NEW c \in Chats, TakeIpc(c) \/ Answer(c) \/ Record(c) \/ TurnIsQuiet(c)
  PROVE  OwnHeld(c)
<1>. OrderInv
  BY DEF HeldInv
<1>. SUFFICES ASSUME NEW m \in stored, ChatOf[m] = c, Held(m), Open(m)'
              PROVE  Held(m)'
  BY DEF OwnHeld
<1>1. Live(c) /\ run[c].phase # "starting" /\ run[c].phase # "none" /\ m \in Msgs
  BY OrderTypes DEF TakeIpc, Answer, Record, TurnIsQuiet, Live
<1>2. Live(c)' /\ run'[c].batch = run[c].batch /\ UNCHANGED due
  BY <1>1, RunTypes DEF TakeIpc, Answer, Record, TurnIsQuiet, Live, Runs, runs
<1>3. CASE Waits(m)
  <2>1. UNCHANGED nextPull \/ CommitCursor(c)
    BY DEF TakeIpc, Answer, Record, TurnIsQuiet, cursors
  <2>2. m > nextPull'[c]
    BY <1>1, <1>3, <2>1, CommitWaits DEF Waits
  <2>. QED
    BY <1>2, <1>3, <2>2 DEF Held, Waits
<1>4. CASE m \in ipc[c]
  <2>1. m \in ipc'[c] \/ m \in inRunner'[c]
    BY <1>4, HeldTypes DEF TakeIpc, Answer, Record, TurnIsQuiet, runners
  <2>. QED
    BY <1>2, <2>1 DEF Held
<1>5. CASE m \in inRunner[c]
  <2>1. CASE Answer(c) \/ TurnIsQuiet(c)
    <3>1. ~Open(m)'
      BY <1>1, <1>5, <2>1, SettleFates DEF Answer, TurnIsQuiet
    <3>. QED
      BY <3>1
  <2>2. CASE TakeIpc(c) \/ Record(c)
    <3>1. m \in inRunner'[c]
      BY <1>5, <2>2, HeldTypes DEF TakeIpc, Record, runners
    <3>. QED
      BY <1>2, <3>1 DEF Held
  <2>. QED
    BY <2>1, <2>2
<1>. QED
  BY <1>1, <1>3, <1>4, <1>5 DEF Held

LEMMA RunDoneOwn ==
  ASSUME HeldInv, NEW c \in Chats, RunDone(c)
  PROVE  OwnHeld(c)
<1>. OrderInv
  BY DEF HeldInv
<1>. SUFFICES ASSUME NEW m \in stored, ChatOf[m] = c, Held(m)
              PROVE  Held(m)'
  BY DEF OwnHeld
<1>1. run[c].phase = "live" /\ m \notin inRunner[c]
  BY DEF RunDone
<1>2. run'[c].batch = {} /\ due \subseteq due' /\ UNCHANGED ipc
  BY RunTypes DEF RunDone, RunEnds
<1>3. CASE m \in ipc[c]
  BY <1>2, <1>3 DEF Held
<1>4. CASE Waits(m)
  <2>1. m > nextPull'[c]
    BY <1>1, <1>4, CommitWaits DEF RunDone
  <2>. QED
    BY <1>2, <1>4, <2>1 DEF Held, Waits
<1>. QED
  BY <1>1, <1>3, <1>4 DEF Held

LEMMA RunStepHeld ==
  ASSUME HeldInv, ImInOrder, ~Urgent, NEW c \in Chats, RunStep(c)
  PROVE  HeldKept
<1>. OrderInv /\ PlainMessages
  BY DEF HeldInv, ImInOrder, PlainMessages
<1>1. UNCHANGED <<stored, loop, globalCursor, woken, crashes>>
  BY DEF RunStep, StartRun, RunExpanded, RunDenied, Spawn, SpawnFails, TakeIpc, Answer, Record,
     TurnIsQuiet, RunDone, RunClosed, RunFails, RunGivesUp, RunEnds, cursors, looping, env
<1>2. LoopHasSeen'
  BY <1>1 DEF HeldInv, LoopHasSeen
<1>3. PolledIsFresh'
  BY <1>1, QuietLoop, HeldTypes, OrderTypes DEF PolledIsFresh
<1>4. UnsettledHeld'
  <2>. SUFFICES ASSUME fails' = 0, crashes' = 0, NEW m \in stored', Open(m)'
                PROVE  Held(m)'
    BY DEF UnsettledHeld
  <2>. m \in stored /\ crashes = 0
    BY <1>1
  <2>1. ~SpawnFails(c) /\ ~RunClosed(c) /\ ~RunFails(c) /\ ~RunGivesUp(c) /\ ~RunExpanded(c)
    <3>1. fails' # fails + 1
      BY HeldTypes
    <3>2. ~RunExpanded(c)
      BY RunTypes DEF RunExpanded
    <3>. QED
      BY <3>1, <3>2 DEF SpawnFails, RunClosed, RunFails, RunGivesUp, Fail
  <2>2. fails = 0
    BY <2>1 DEF RunStep, StartRun, RunDenied, Spawn, TakeIpc, Answer, Record, TurnIsQuiet, RunDone, env
  <2>3. m \in Msgs /\ ChatOf[m] \in Chats /\ Open(m)
    BY RunStepFates, OrderTypes DEF FatesKept
  <2>4. Held(m)
    BY <2>2, <2>3, QuietLoop DEF HeldInv, UnsettledHeld
  <2>5. CASE ChatOf[m] # c
    BY <2>3, <2>4, <2>5, RunStepElsewhere, StaysHeld
  <2>6. CASE ChatOf[m] = c
    <3>1. OwnHeld(c)
      BY <2>1, StartRunOwn, StartingOwn, TurnOwn, RunDoneOwn DEF RunStep
    <3>. QED
      BY <2>4, <2>6, <3>1 DEF OwnHeld
  <2>. QED
    BY <2>5, <2>6
<1>. QED
  BY <1>2, <1>3, <1>4 DEF HeldKept

LEMMA SameHeld ==
  ASSUME HeldInv, UNCHANGED <<stored, globalCursor, nextPull, loop, woken, due, run, ipc, inRunner,
                              fails, crashes, fate>>
  PROVE  HeldKept
<1>1. LoopHasSeen' /\ PolledIsFresh'
  BY DEF HeldInv, LoopHasSeen, PolledIsFresh
<1>2. UnsettledHeld'
  BY DEF HeldInv, UnsettledHeld, Open, Held, Waits, Live
<1>. QED
  BY <1>1, <1>2 DEF HeldKept

LEMMA RestartHeld ==
  ASSUME HeldInv, ~Urgent, Restart
  PROVE  HeldKept
<1>1. /\ UNCHANGED <<stored, globalCursor>> /\ woken' = FALSE /\ crashes' > 0
      /\ loop'.polled = {}
  BY HeldTypes DEF Restart, Asleep
<1>2. LoopHasSeen'
  BY <1>1, QuietLoop DEF HeldInv, LoopHasSeen
<1>3. PolledIsFresh'
  BY <1>1, QuietLoop, HeldTypes, OrderTypes DEF PolledIsFresh, HeldInv
<1>4. UnsettledHeld'
  BY <1>1 DEF UnsettledHeld
<1>. QED
  BY <1>2, <1>3, <1>4 DEF HeldKept

LEMMA HeldStep == ImInOrder /\ HeldInv /\ [Next]_vars => HeldInv'
<1>. SUFFICES ASSUME ImInOrder, HeldInv, [Next]_vars PROVE HeldInv'
  OBVIOUS
<1>. OrderInv /\ PlainMessages
  BY DEF HeldInv, ImInOrder, PlainMessages
<1>1. OrderInv'
  BY OrderIsKept
<1>2. HeldKept
  <2>1. CASE UNCHANGED vars
    BY <2>1, SameHeld DEF vars, cursors, looping, runs, runners, env
  <2>2. ASSUME NEW c \in Chats, SetAccess(c) PROVE HeldKept
    BY <2>2, SameHeld DEF SetAccess, cursors, looping, runs, runners, env
  <2>3. ~LoopExpanded /\ \A m \in Msgs : ~WebExpanded(m) /\ ~ReceiveWeb(m)
    BY DEF OrderInv, NothingExpands, LoopExpanded, WebExpanded, ReceiveWeb, ImInOrder
  <2>4. CASE Next
    BY <2>2, <2>3, <2>4, PollHeld, LoopChatHeld, ReceiveHeld, RunStepHeld, RestartHeld DEF Next
  <2>. QED
    BY <2>1, <2>4
<1>. QED
  BY <1>1, <1>2 DEF HeldInv, HeldKept

LEMMA HeldInit == Init => HeldInv
<1>. SUFFICES ASSUME Init PROVE HeldInv
  OBVIOUS
<1>. QED
  BY OrderInit DEF Init, HeldInv, LoopHasSeen, PolledIsFresh, UnsettledHeld, Asleep

(* Where messages come by IM, in order and without slash commands, and runs end
   well, no message is forgotten: one that was neither answered nor dropped is
   with the loop, with a run, in front of a cursor whose chat has a run due, or
   in a file that the next runner takes, whatever the order in which messages,
   polls, spawns, replies and ends of runs come. *)
THEOREM NothingIsForgotten ==
  ASSUME Slow = {}, Web = {}, Late = {}
  PROVE  Spec => []NothingForgotten
<1>1. ImInOrder
  BY DEF ImInOrder
<1>2. HeldInv => NothingForgotten
  <2>. SUFFICES ASSUME HeldInv, fails = 0, crashes = 0, NEW m \in stored, Open(m)
                PROVE  Underway(m) \/ m \in ipc[ChatOf[m]]
    BY DEF NothingForgotten
  <2>1. CASE m > globalCursor \/ m \in loop.polled
    BY <2>1 DEF Underway
  <2>2. CASE m <= globalCursor /\ m \notin loop.polled
    <3>1. Held(m)
      BY <2>2 DEF HeldInv, UnsettledHeld
    <3>. QED
      BY <3>1 DEF Held, Waits, Live, Underway
  <2>. QED
    BY <2>1, <2>2, HeldTypes, OrderTypes DEF HeldInv
<1>. QED
  BY <1>1, <1>2, HeldInit, HeldStep, PTL DEF Spec, ImInOrder

=============================================================================
