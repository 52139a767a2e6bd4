------------------------ MODULE MessageDeliveryProofs ------------------------
(* What holds of the delivery of messages for every number of messages, every
   set of chats and every mix of IM and web messages, slow expansions,
   failures and restarts. *)
EXTENDS MessageDelivery, TLAPS, WellFoundedInduction

-----------------------------------------------------------------------------
(* The extremes of a set of messages *)

Places == 0 .. MaxMsg

(* A set of naturals that has an element has a least one. *)
LEMMA LeastExists ==
  ASSUME NEW S \in SUBSET Nat, S # {}
  PROVE  \E x \in S : \A y \in S : x <= y
<1>1. \E x \in S : \A y \in S : ~(<<y, x>> \in OpToRel(<, Nat))
  BY NatLessThanWellFounded, WFMin, Zenon
<1>2. PICK x \in S : \A y \in S : ~(<<y, x>> \in OpToRel(<, Nat))
  BY <1>1
<1>3. \A y \in S : ~(y < x)
  BY <1>2 DEF OpToRel
<1>. QED
  BY <1>3

(* Min is an element of a set of messages, and below the others. *)
LEMMA MinOfMessages ==
  ASSUME NEW S \in SUBSET Msgs, S # {}
  PROVE  Min(S) \in S /\ \A y \in S : Min(S) <= y
<1>1. \E x \in S : \A y \in S : x =< y
  BY LeastExists DEF Msgs
<1>. QED
  BY <1>1, Zenon DEF Min

(* Max is an element of a set of places, and above the others. *)
LEMMA MaxOfPlaces ==
  ASSUME NEW S \in SUBSET Places, S # {}
  PROVE  /\ Max(S) \in S /\ Max(S) \in Places
         /\ \A y \in S : y <= Max(S)
<1>. DEFINE Below == {MaxMsg - y : y \in S}
<1>1. Below \in SUBSET Nat /\ Below # {}
  BY DeliveryAssumption DEF Places
<1>2. PICK b \in Below : \A z \in Below : b <= z
  BY <1>1, LeastExists
<1>3. PICK x \in S : b = MaxMsg - x
  BY <1>2
<1>4. \A y \in S : MaxMsg - y \in Below
  OBVIOUS
<1>5. \A y \in S : x >= y
  BY <1>2, <1>3, <1>4, DeliveryAssumption DEF Places
<1>6. Max(S) \in S /\ \A y \in S : Max(S) >= y
  BY <1>5, Zenon DEF Max
<1>. QED
  BY <1>6, DeliveryAssumption DEF Places


-----------------------------------------------------------------------------
(* The inductive invariant *)

(* The loop and a run work on something while they are at work. *)
BatchesHold ==
  /\ loop.step = "chats" => loop.polled # {}
  /\ loop.step = "expanding" => loop.batch # {}
  /\ \A c \in Chats : run[c].phase # "none" => run[c].batch # {}

DeliveryInv == TypeOK /\ BatchesHold /\ CommittedBehindNextPull

(* The ways a step may move the two cursors of a chat. *)
MovesBoth(c, m) == SetCursors(c, m)

MovesNextPull(c, m) ==
  /\ nextPull[c] <= m
  /\ nextPull' = [nextPull EXCEPT ![c] = m]
  /\ UNCHANGED committed

FillsCommitted ==
  /\ UNCHANGED nextPull
  /\ \E S \in SUBSET Chats :
       committed' = [c \in Chats |-> IF c \in S THEN nextPull[c] ELSE committed[c]]

CursorStep ==
  \/ UNCHANGED <<nextPull, committed>>
  \/ \E c \in Chats, m \in Places : MovesBoth(c, m) \/ MovesNextPull(c, m)
  \/ FillsCommitted

(* Each of these moves keeps the cursors places of the order, and the
   committed one behind the other. *)
LEMMA CursorStepIsSafe ==
  ASSUME TypeOK, CommittedBehindNextPull, CursorStep
  PROVE  /\ nextPull' \in [Chats -> Places] /\ committed' \in [Chats -> Places]
         /\ CommittedBehindNextPull'
<1>. nextPull \in [Chats -> Places] /\ committed \in [Chats -> Places]
  BY DEF TypeOK, Places
<1>. \A x, y, z \in Places : (x <= y /\ y <= z => x <= z) /\ x <= x
  BY DeliveryAssumption DEF Places
<1>1. CASE UNCHANGED <<nextPull, committed>>
  BY <1>1 DEF CommittedBehindNextPull
<1>2. ASSUME NEW c \in Chats, NEW m \in Places, MovesBoth(c, m)
      PROVE  /\ nextPull' \in [Chats -> Places] /\ committed' \in [Chats -> Places]
             /\ CommittedBehindNextPull'
  BY <1>2 DEF MovesBoth, SetCursors, CommittedBehindNextPull
<1>3. ASSUME NEW c \in Chats, NEW m \in Places, MovesNextPull(c, m)
      PROVE  /\ nextPull' \in [Chats -> Places] /\ committed' \in [Chats -> Places]
             /\ CommittedBehindNextPull'
  <2>1. committed[c] <= nextPull[c] /\ nextPull[c] <= m
    BY <1>3 DEF MovesNextPull, CommittedBehindNextPull
  <2>. QED
    BY <1>3, <2>1 DEF MovesNextPull, CommittedBehindNextPull
<1>4. CASE FillsCommitted
  BY <1>4 DEF FillsCommitted, CommittedBehindNextPull
<1>. QED
  BY <1>1, <1>2, <1>3, <1>4 DEF CursorStep

-----------------------------------------------------------------------------
(* The cursor operations make such moves *)

(* A chat's next pull is a place of the order, and so is every message. *)
LEMMA PlacesOfMessages ==
  /\ Msgs \subseteq Places
  /\ TypeOK => \A c \in Chats : nextPull[c] \in Places
BY DeliveryAssumption DEF TypeOK, Msgs, Places

LEMMA AdvanceMoves ==
  ASSUME TypeOK, NEW c \in Chats, NEW m \in Msgs,
         AdvanceCursors(c, m) \/ AdvanceNextPullCursorOnly(c, m)
  PROVE  CursorStep
<1>1. Max({nextPull[c], m}) \in Places /\ nextPull[c] <= Max({nextPull[c], m})
  BY PlacesOfMessages, MaxOfPlaces
<1>. QED
  BY <1>1 DEF AdvanceCursors, AdvanceNextPullCursorOnly, CursorStep, MovesBoth, MovesNextPull

LEMMA SetMoves ==
  ASSUME TypeOK, NEW c \in Chats, NEW S \in SUBSET Msgs, S # {}, SetCursors(c, Max(S))
  PROVE  CursorStep
BY PlacesOfMessages, MaxOfPlaces DEF CursorStep, MovesBoth

LEMMA CommitMoves ==
  ASSUME TypeOK, BatchesHold, NEW c \in Chats, run[c].phase # "none", CommitCursor(c)
  PROVE  CursorStep
<1>1. run[c].batch \in SUBSET Msgs /\ run[c].batch # {}
  BY DEF TypeOK, BatchesHold
<1>2. Max(run[c].batch) \in Msgs
  BY <1>1, PlacesOfMessages, MaxOfPlaces
<1>. QED
  BY <1>2, AdvanceMoves DEF CommitCursor, CursorStep

(* Sending a batch moves only the next-pull cursor. *)
LEMMA SendMoves ==
  ASSUME TypeOK, NEW c \in Chats, NEW S \in SUBSET Msgs, NEW R \in SUBSET Msgs,
         Send(c, S, R), UNCHANGED committed
  PROVE  CursorStep
<1>. DEFINE A == {nextPull[c]} \cup S \cup R
            B == {nextPull[c]} \cup R
<1>1. /\ A \in SUBSET Places /\ A # {} /\ nextPull[c] \in A
      /\ B \in SUBSET Places /\ B # {} /\ nextPull[c] \in B
  BY PlacesOfMessages
<1>2. /\ Max(A) \in Places /\ nextPull[c] <= Max(A)
      /\ Max(B) \in Places /\ nextPull[c] <= Max(B)
  BY <1>1, MaxOfPlaces
<1>3. nextPull' = [nextPull EXCEPT ![c] = Max(A)] \/ nextPull' = [nextPull EXCEPT ![c] = Max(B)]
  BY DEF Send
<1>. QED
  BY <1>2, <1>3 DEF CursorStep, MovesNextPull

-----------------------------------------------------------------------------
(* Types of everything but the cursors *)

Runs == [phase : {"none", "expanding", "starting", "live", "replying"},
         batch : SUBSET Msgs, replied : BOOLEAN, recorded : BOOLEAN]

Loops == [step : {"sleep", "chats", "expanding"}, polled : SUBSET Msgs, batch : SUBSET Msgs]

Fates == {"none", "given", "answered", "quiet", "dropped"}

MessagesOK ==
  /\ stored \subseteq Msgs /\ webWait \subseteq Msgs
  /\ ipc \in [Chats -> SUBSET Msgs] /\ inRunner \in [Chats -> SUBSET Msgs]
  /\ fate \in [Msgs -> Fates]

ControlOK ==
  /\ globalCursor \in Places
  /\ loop \in Loops /\ woken \in BOOLEAN
  /\ due \subseteq Chats /\ injected \subseteq Chats /\ blocked \subseteq Chats
  /\ run \in [Chats -> Runs]
  /\ fails \in 0 .. MaxFails /\ crashes \in 0 .. MaxCrashes

CursorsOK == nextPull \in [Chats -> Places] /\ committed \in [Chats -> Places]

RestOK == MessagesOK /\ ControlOK /\ BatchesHold

LEMMA TypeOKIsParts == TypeOK <=> CursorsOK /\ MessagesOK /\ ControlOK
BY DEF TypeOK, CursorsOK, MessagesOK, ControlOK, Runs, Loops, Fates, Places

LEMMA FateType ==
  ASSUME fate \in [Msgs -> Fates],
         NEW S, NEW R, NEW f \in Fates, Hand(S, R) \/ Settle(S, f)
  PROVE  fate' \in [Msgs -> Fates]
BY DEF Hand, Settle, Fates

LEMMA GlobalType ==
  ASSUME TypeOK, NEW m \in Msgs, AdvanceGlobalCursor(m)
  PROVE  globalCursor' \in Places
BY PlacesOfMessages, MaxOfPlaces DEF TypeOK, Places, AdvanceGlobalCursor

LEMMA ResumeType ==
  ASSUME NEW S \in SUBSET Msgs, Resume(S)
  PROVE  /\ loop' \in Loops
         /\ loop'.step = "chats" => loop'.polled # {}
         /\ loop'.step # "expanding"
BY DEF Resume, NextStep, Asleep, Loops

(* The runs after the loop, or the web handler, has sent something. *)
LEMMA SendType ==
  ASSUME RestOK, NEW c \in Chats, NEW S \in SUBSET Msgs, NEW R \in SUBSET Msgs,
         (Pipe(c, S, R) /\ UNCHANGED due) \/ Send(c, S, R)
  PROVE  /\ ipc' \in [Chats -> SUBSET Msgs] /\ fate' \in [Msgs -> Fates]
         /\ due' \subseteq Chats /\ run' \in [Chats -> Runs]
         /\ \A d \in Chats : run'[d].phase # "none" => run'[d].batch # {}
<1>. USE DEF RestOK, MessagesOK, ControlOK, BatchesHold
<1>. "answered" \in Fates
  BY DEF Fates
<1>1. CASE Pipe(c, S, R) /\ UNCHANGED due
  <2>1. run' \in [Chats -> Runs] /\ \A d \in Chats : run'[d].phase # "none" => run'[d].batch # {}
    BY <1>1 DEF Pipe, Runs
  <2>. QED
    BY <1>1, <2>1, FateType DEF Pipe
<1>2. CASE due' = due \cup {c} /\ Settle(R, "answered") /\ UNCHANGED <<ipc, run>>
  BY <1>2, FateType
<1>. QED
  BY <1>1, <1>2 DEF Send

-----------------------------------------------------------------------------
(* Each step of the server *)

StepOK == CursorStep /\ RestOK'

LEMMA ReceiveImStep ==
  ASSUME DeliveryInv, NEW m \in Msgs, ReceiveIm(m)
  PROVE  StepOK
BY TypeOKIsParts DEF DeliveryInv, ReceiveIm, StepOK, CursorStep, RestOK, MessagesOK, ControlOK,
   BatchesHold, cursors, runs, runners, env

LEMMA WebSendStep ==
  ASSUME DeliveryInv, NEW m \in Msgs, WebSend(m), stored' \subseteq Msgs, webWait' \subseteq Msgs
  PROVE  StepOK
<1>. DEFINE c == ChatOf[m]
<1>1. c \in Chats /\ RestOK /\ TypeOK /\ globalCursor' \in Places
  BY DeliveryAssumption, TypeOKIsParts, GlobalType DEF DeliveryInv, RestOK, WebSend
<1>2. CASE Live(c) /\ Pipe(c, {m}, {}) /\ SetCursors(c, m) /\ injected' = injected \cup {c} /\ UNCHANGED due
  <2>1. CursorStep
    BY <1>1, <1>2, PlacesOfMessages DEF CursorStep, MovesBoth
  <2>2. /\ ipc' \in [Chats -> SUBSET Msgs] /\ fate' \in [Msgs -> Fates]
        /\ due' \subseteq Chats /\ run' \in [Chats -> Runs]
        /\ \A d \in Chats : run'[d].phase # "none" => run'[d].batch # {}
    BY <1>1, <1>2, SendType
  <2>. QED
    BY <1>1, <1>2, <2>1, <2>2
       DEF WebSend, StepOK, RestOK, MessagesOK, ControlOK, BatchesHold, looping, env
<1>3. CASE due' = due \cup {c} /\ UNCHANGED <<run, injected, nextPull, committed, ipc, fate>>
  BY <1>1, <1>3
     DEF WebSend, StepOK, CursorStep, RestOK, MessagesOK, ControlOK, BatchesHold, looping, env
<1>. QED
  BY <1>2, <1>3 DEF WebSend

LEMMA ReceiveWebStep ==
  ASSUME DeliveryInv, NEW m \in Msgs, ReceiveWeb(m)
  PROVE  StepOK
<1>. DEFINE c == ChatOf[m]
<1>1. c \in Chats /\ RestOK /\ TypeOK /\ stored' \subseteq Msgs
  BY DeliveryAssumption, TypeOKIsParts DEF DeliveryInv, RestOK, MessagesOK, ReceiveWeb
<1>2. CASE WebDenied(m)
  <2>1. CursorStep /\ globalCursor' \in Places
    BY <1>1, <1>2, PlacesOfMessages, GlobalType DEF WebDenied, CursorStep, MovesBoth
  <2>2. fate' \in [Msgs -> Fates]
    BY <1>1, <1>2, FateType DEF WebDenied, RestOK, MessagesOK, Fates
  <2>. QED
    BY <1>1, <1>2, <2>1, <2>2
       DEF WebDenied, StepOK, RestOK, MessagesOK, ControlOK, BatchesHold, looping, runs, runners, env
<1>3. CASE /\ webWait' = webWait \cup {m}
           /\ UNCHANGED <<cursors, looping, runs, runners, env, fate>>
  BY <1>1, <1>3 DEF StepOK, CursorStep, RestOK, MessagesOK, ControlOK, BatchesHold,
     cursors, looping, runs, runners, env
<1>4. CASE WebSend(m) /\ UNCHANGED webWait
  BY <1>1, <1>4, WebSendStep DEF RestOK, MessagesOK
<1>. QED
  BY <1>2, <1>3, <1>4 DEF ReceiveWeb

LEMMA WebExpandedStep ==
  ASSUME DeliveryInv, NEW m \in Msgs, WebExpanded(m)
  PROVE  StepOK
<1>. DEFINE c == ChatOf[m]
<1>1. c \in Chats /\ RestOK /\ TypeOK /\ stored' \subseteq Msgs /\ webWait' \subseteq Msgs
  BY DeliveryAssumption, TypeOKIsParts DEF DeliveryInv, RestOK, MessagesOK, WebExpanded
<1>2. CASE WebReply(m)
  <2>1. CursorStep /\ globalCursor' \in Places
    BY <1>1, <1>2, AdvanceMoves, GlobalType DEF WebReply
  <2>2. fate' \in [Msgs -> Fates]
    BY <1>1, <1>2, FateType DEF WebReply, RestOK, MessagesOK, Fates
  <2>. QED
    BY <1>1, <1>2, <2>1, <2>2
       DEF WebReply, StepOK, RestOK, MessagesOK, ControlOK, BatchesHold, looping, runs, runners, env
<1>. QED
  BY <1>1, <1>2, WebSendStep DEF WebExpanded

LEMMA PollStep ==
  ASSUME DeliveryInv, Poll
  PROVE  StepOK
<1>. DEFINE new == {m \in stored : m > globalCursor}
<1>1. RestOK /\ new \in SUBSET Msgs
  BY TypeOKIsParts DEF DeliveryInv, RestOK, MessagesOK
<1>2. globalCursor' \in Places
  BY <1>1, PlacesOfMessages, MaxOfPlaces DEF RestOK, ControlOK, Poll, PolledCursor
<1>3. /\ loop' \in Loops
      /\ loop'.step = "chats" => loop'.polled # {}
      /\ loop'.step # "expanding"
  BY <1>1 DEF Poll, NextStep, Asleep, Loops
<1>. QED
  BY <1>1, <1>2, <1>3 DEF Poll, StepOK, CursorStep, RestOK, MessagesOK, ControlOK, BatchesHold,
     runs, runners, env

(* What LoopChat and LoopExpanded leave alone. *)
LoopFrame == UNCHANGED <<stored, globalCursor, woken, injected, webWait, inRunner, env>>

LEMMA LoopSendStep ==
  ASSUME DeliveryInv, LoopFrame, UNCHANGED committed,
         NEW c \in Chats, NEW S \in SUBSET Msgs, NEW R \in SUBSET Msgs, NEW rest \in SUBSET Msgs,
         Send(c, S, R), Resume(rest)
  PROVE  StepOK
<1>1. RestOK /\ TypeOK
  BY TypeOKIsParts DEF DeliveryInv, RestOK
<1>2. CursorStep
  BY <1>1, SendMoves
<1>3. /\ ipc' \in [Chats -> SUBSET Msgs] /\ fate' \in [Msgs -> Fates]
      /\ due' \subseteq Chats /\ run' \in [Chats -> Runs]
      /\ \A d \in Chats : run'[d].phase # "none" => run'[d].batch # {}
  BY <1>1, SendType
<1>4. /\ loop' \in Loops
      /\ loop'.step = "chats" => loop'.polled # {}
      /\ loop'.step # "expanding"
  BY ResumeType
<1>. QED
  BY <1>1, <1>2, <1>3, <1>4 DEF LoopFrame, StepOK, RestOK, MessagesOK, ControlOK, BatchesHold, env

(* The batch is answered or dropped without a runner. *)
LEMMA LoopSettleStep ==
  ASSUME DeliveryInv, LoopFrame, UNCHANGED <<due, run, ipc>>,
         NEW c \in Chats, NEW S \in SUBSET Msgs, S # {}, NEW D, NEW f \in Fates,
         NEW rest \in SUBSET Msgs,
         SetCursors(c, Max(S)), Settle(D, f), Resume(rest)
  PROVE  StepOK
<1>1. RestOK /\ TypeOK
  BY TypeOKIsParts DEF DeliveryInv, RestOK
<1>2. CursorStep
  BY <1>1, SetMoves
<1>3. fate' \in [Msgs -> Fates]
  BY <1>1, FateType DEF RestOK, MessagesOK
<1>4. /\ loop' \in Loops
      /\ loop'.step = "chats" => loop'.polled # {}
      /\ loop'.step # "expanding"
  BY ResumeType
<1>. QED
  BY <1>1, <1>2, <1>3, <1>4 DEF LoopFrame, StepOK, RestOK, MessagesOK, ControlOK, BatchesHold, env

LEMMA LoopChatStep ==
  ASSUME DeliveryInv, LoopChat
  PROVE  StepOK
<1>. DEFINE c == ChatOf[Min(loop.polled)]
            group == {m \in loop.polled : ChatOf[m] = c}
            rest == loop.polled \ group
            batch == IF Since(c) # {} THEN Since(c) ELSE group
<1>1. RestOK /\ TypeOK
  BY TypeOKIsParts DEF DeliveryInv, RestOK
<1>2. loop.polled \in SUBSET Msgs /\ loop.polled # {} /\ stored \subseteq Msgs
  BY <1>1 DEF LoopChat, RestOK, MessagesOK, ControlOK, BatchesHold, Loops
<1>3. Min(loop.polled) \in loop.polled
  BY <1>2, MinOfMessages
<1>4. /\ c \in Chats
      /\ group \in SUBSET Msgs /\ group # {}
      /\ rest \in SUBSET Msgs
      /\ batch \in SUBSET Msgs /\ batch # {}
  BY <1>2, <1>3, DeliveryAssumption DEF Since, StoredOf
<1>5. LoopFrame
  BY DEF LoopChat, LoopFrame
<1>6. CASE /\ SetCursors(c, Max(group))
           /\ Settle({m \in group \cup Since(c) : m <= Max(group)}, "dropped")
           /\ Resume(rest)
           /\ UNCHANGED <<due, run, ipc>>
  <2>. HIDE DEF c, group, rest
  <2>. "dropped" \in Fates
    BY DEF Fates
  <2>. QED
    BY <1>4, <1>5, <1>6, LoopSettleStep
<1>7. CASE /\ loop' = [step |-> "expanding", polled |-> rest, batch |-> batch]
           /\ UNCHANGED <<nextPull, committed, due, run, ipc, fate>>
  <2>. HIDE DEF rest, batch
  <2>1. loop' \in Loops /\ loop'.step = "expanding" /\ loop'.batch # {}
    BY <1>4, <1>7 DEF Loops
  <2>. QED
    BY <1>1, <1>5, <1>7, <2>1
       DEF LoopFrame, StepOK, CursorStep, RestOK, MessagesOK, ControlOK, BatchesHold, env
<1>8. CASE Send(c, batch, {}) /\ Resume(rest) /\ UNCHANGED committed
  <2>. HIDE DEF c, rest, batch
  <2>. QED
    BY <1>4, <1>5, <1>8, LoopSendStep
<1>. QED
  BY <1>6, <1>7, <1>8 DEF LoopChat

LEMMA LoopExpandedStep ==
  ASSUME DeliveryInv, LoopExpanded
  PROVE  StepOK
<1>. DEFINE c == ChatOf[Min(loop.batch)]
<1>1. RestOK /\ TypeOK
  BY TypeOKIsParts DEF DeliveryInv, RestOK
<1>2. loop.batch \in SUBSET Msgs /\ loop.batch # {} /\ loop.polled \in SUBSET Msgs
  BY <1>1 DEF LoopExpanded, RestOK, ControlOK, BatchesHold, Loops
<1>3. c \in Chats
  BY <1>2, MinOfMessages, DeliveryAssumption
<1>4. LoopFrame /\ Resume(loop.polled)
  BY DEF LoopExpanded, LoopFrame
<1>5. PICK R \in SUBSET (loop.batch \cap Slow) :
        \/ /\ R = loop.batch
           /\ SetCursors(c, Max(R))
           /\ Settle(R, "answered")
           /\ UNCHANGED <<due, run, ipc>>
        \/ /\ R # loop.batch
           /\ Send(c, loop.batch \ R, R)
           /\ UNCHANGED committed
  BY DEF LoopExpanded
<1>. HIDE DEF c
<1>6. R \in SUBSET Msgs /\ (loop.batch \ R) \in SUBSET Msgs /\ "answered" \in Fates
  BY <1>2 DEF Fates
<1>7. CASE /\ R = loop.batch
           /\ SetCursors(c, Max(R))
           /\ Settle(R, "answered")
           /\ UNCHANGED <<due, run, ipc>>
  BY <1>2, <1>3, <1>4, <1>6, <1>7, LoopSettleStep
<1>8. CASE Send(c, loop.batch \ R, R) /\ UNCHANGED committed
  BY <1>2, <1>3, <1>4, <1>6, <1>8, LoopSendStep
<1>. QED
  BY <1>5, <1>7, <1>8

-----------------------------------------------------------------------------
(* Each step of a run *)

RunsOK(rs) ==
  /\ rs \in [Chats -> Runs]
  /\ \A d \in Chats : rs[d].phase # "none" => rs[d].batch # {}

(* A run that is replaced by a well-formed one leaves the runs well-formed. *)
LEMMA RunsType ==
  ASSUME RestOK, NEW c \in Chats, NEW r \in Runs, r.phase # "none" => r.batch # {},
         run' = [run EXCEPT ![c] = r]
  PROVE  RunsOK(run')
BY DEF RestOK, ControlOK, BatchesHold, RunsOK

LEMMA NoRunType == NoRun \in Runs /\ NoRun.phase = "none"
BY DEF NoRun, Runs

LEMMA RunEndsType ==
  ASSUME RestOK, NEW c \in Chats, NEW failed \in BOOLEAN, RunEnds(c, failed)
  PROVE  /\ RunsOK(run') /\ due' \subseteq Chats /\ injected' \subseteq Chats
         /\ inRunner' \in [Chats -> SUBSET Msgs]
BY RunsType, NoRunType DEF RunEnds, Retry, RestOK, ControlOK, MessagesOK

LEMMA StartRunStep ==
  ASSUME DeliveryInv, NEW c \in Chats, StartRun(c)
  PROVE  StepOK
<1>1. RestOK
  BY TypeOKIsParts DEF DeliveryInv, RestOK
<1>2. Since(c) \in SUBSET Msgs
  BY <1>1 DEF RestOK, MessagesOK, Since, StoredOf
<1>3. RunsOK(run')
  <2>1. CASE Since(c) = {}
    BY <1>1, <2>1 DEF StartRun, RunsOK, RestOK, ControlOK, BatchesHold
  <2>2. CASE Since(c) # {}
    <3>. DEFINE r == [NoRun EXCEPT
                       !.phase = IF Since(c) \cap Slow = {} THEN "starting" ELSE "expanding",
                       !.batch = Since(c)]
    <3>1. r \in Runs /\ r.batch # {}
      BY <1>2, <2>2 DEF NoRun, Runs
    <3>2. run' = [run EXCEPT ![c] = r]
      BY <2>2 DEF StartRun
    <3>. HIDE DEF r
    <3>. QED
      BY <1>1, <3>1, <3>2, RunsType
  <2>. QED
    BY <2>1, <2>2
<1>. QED
  BY <1>1, <1>3 DEF StartRun, RunsOK, StepOK, CursorStep, RestOK, MessagesOK, ControlOK,
     BatchesHold, cursors, looping, runners, env

LEMMA RunExpandedStep ==
  ASSUME DeliveryInv, NEW c \in Chats, RunExpanded(c)
  PROVE  StepOK
<1>1. RestOK /\ TypeOK
  BY TypeOKIsParts DEF DeliveryInv, RestOK
<1>2. run[c] \in Runs /\ run[c].batch \in SUBSET Msgs /\ run[c].batch # {}
  BY <1>1 DEF RunExpanded, RestOK, ControlOK, BatchesHold, Runs
<1>3. PICK R \in SUBSET (run[c].batch \cap Slow) :
        /\ Settle(R, "answered")
        /\ \/ /\ R = run[c].batch
              /\ SetCursors(c, Max(R))
              /\ run' = [run EXCEPT ![c] = NoRun]
           \/ /\ R # run[c].batch
              /\ IF R = {} THEN UNCHANGED <<nextPull, committed>>
                 ELSE AdvanceNextPullCursorOnly(c, Max(R))
              /\ run' = [run EXCEPT ![c].phase = "starting", ![c].batch = @ \ R]
  BY DEF RunExpanded
<1>4. R \in SUBSET Msgs /\ fate' \in [Msgs -> Fates]
  <2>1. "answered" \in Fates
    BY DEF Fates
  <2>. QED
    BY <1>1, <1>2, <1>3, <2>1, FateType DEF RestOK, MessagesOK
<1>5. CASE R = run[c].batch
  BY <1>1, <1>2, <1>3, <1>4, <1>5, SetMoves, RunsType, NoRunType
     DEF RunExpanded, RunsOK, StepOK, RestOK, MessagesOK, ControlOK, BatchesHold, looping, runners, env
<1>6. CASE R # run[c].batch
  <2>1. CursorStep
    <3>1. CASE R = {}
      BY <1>3, <1>6, <3>1 DEF CursorStep
    <3>2. CASE R # {}
      BY <1>1, <1>3, <1>4, <1>6, <3>2, PlacesOfMessages, MaxOfPlaces, AdvanceMoves
    <3>. QED
      BY <3>1, <3>2
  <2>2. RunsOK(run')
    BY <1>1, <1>2, <1>3, <1>6 DEF RestOK, ControlOK, BatchesHold, RunsOK, Runs
  <2>. QED
    BY <1>1, <1>4, <2>1, <2>2
       DEF RunExpanded, RunsOK, StepOK, RestOK, MessagesOK, ControlOK, BatchesHold, looping, runners, env
<1>. QED
  BY <1>5, <1>6

LEMMA RunDeniedStep ==
  ASSUME DeliveryInv, NEW c \in Chats, RunDenied(c)
  PROVE  StepOK
<1>1. RestOK /\ TypeOK /\ CursorStep
  BY TypeOKIsParts, CommitMoves DEF DeliveryInv, RestOK, RunDenied
<1>2. RunsOK(run')
  BY <1>1, RunsType, NoRunType DEF RunDenied
<1>3. fate' \in [Msgs -> Fates]
  BY <1>1, FateType DEF RunDenied, RestOK, MessagesOK, Fates
<1>. QED
  BY <1>1, <1>2, <1>3
     DEF RunDenied, RunsOK, StepOK, RestOK, MessagesOK, ControlOK, BatchesHold, looping, runners, env

LEMMA SpawnStep ==
  ASSUME DeliveryInv, NEW c \in Chats, Spawn(c) \/ SpawnFails(c)
  PROVE  StepOK
<1>1. RestOK
  BY TypeOKIsParts DEF DeliveryInv, RestOK
<1>2. run[c] \in Runs /\ run[c].batch \in SUBSET Msgs /\ run[c].batch # {}
  BY <1>1 DEF Spawn, SpawnFails, RestOK, ControlOK, BatchesHold, Runs
<1>3. CASE Spawn(c)
  <2>1. RunsOK(run')
    BY <1>1, <1>2, <1>3 DEF Spawn, RestOK, ControlOK, BatchesHold, RunsOK, Runs
  <2>2. fate' \in [Msgs -> Fates]
    BY <1>1, <1>3, FateType DEF Spawn, RestOK, MessagesOK, Fates
  <2>3. ipc' \in [Chats -> SUBSET Msgs] /\ inRunner' \in [Chats -> SUBSET Msgs]
    BY <1>1, <1>2, <1>3 DEF Spawn, RestOK, MessagesOK
  <2>. QED
    BY <1>1, <1>3, <2>1, <2>2, <2>3
       DEF Spawn, RunsOK, StepOK, CursorStep, RestOK, MessagesOK, ControlOK, BatchesHold,
           cursors, looping, env
<1>4. CASE SpawnFails(c)
  <2>1. RunsOK(run')
    BY <1>1, <1>4, RunsType, NoRunType DEF SpawnFails
  <2>2. fails' \in 0 .. MaxFails
    BY <1>1, <1>4, DeliveryAssumption DEF SpawnFails, RestOK, ControlOK
  <2>. QED
    BY <1>1, <1>4, <2>1, <2>2
       DEF SpawnFails, Retry, RunsOK, StepOK, CursorStep, RestOK, MessagesOK, ControlOK, BatchesHold,
           cursors, looping, runners
<1>. QED
  BY <1>3, <1>4

(* The turns of a live runner *)
LEMMA TurnStep ==
  ASSUME DeliveryInv, NEW c \in Chats,
         TakeIpc(c) \/ Answer(c) \/ Record(c) \/ TurnIsQuiet(c)
  PROVE  StepOK
<1>1. RestOK /\ TypeOK
  BY TypeOKIsParts DEF DeliveryInv, RestOK
<1>2. RunsOK(run)
  BY <1>1 DEF RestOK, ControlOK, BatchesHold, RunsOK
<1>3. CASE TakeIpc(c)
  BY <1>1, <1>3 DEF TakeIpc, StepOK, CursorStep, RestOK, MessagesOK, ControlOK, BatchesHold,
     cursors, looping, runs, env
<1>4. CASE Answer(c)
  <2>1. RunsOK(run')
    BY <1>2, <1>4 DEF Answer, RunsOK, Runs
  <2>2. fate' \in [Msgs -> Fates]
    BY <1>1, <1>4, FateType DEF Answer, RestOK, MessagesOK, Fates
  <2>. QED
    BY <1>1, <1>4, <2>1, <2>2
       DEF Answer, RunsOK, StepOK, CursorStep, RestOK, MessagesOK, ControlOK, BatchesHold,
           cursors, looping, env
<1>5. CASE Record(c)
  <2>1. RunsOK(run')
    BY <1>2, <1>5 DEF Record, RunsOK, Runs
  <2>2. CursorStep
    BY <1>1, <1>5, CommitMoves DEF Record, RestOK
  <2>. QED
    BY <1>1, <1>5, <2>1, <2>2
       DEF Record, RunsOK, StepOK, RestOK, MessagesOK, ControlOK, BatchesHold, looping, runners, env
<1>6. CASE TurnIsQuiet(c)
  <2>1. fate' \in [Msgs -> Fates]
    BY <1>1, <1>6, FateType DEF TurnIsQuiet, RestOK, MessagesOK, Fates
  <2>. QED
    BY <1>1, <1>6, <2>1
       DEF TurnIsQuiet, StepOK, CursorStep, RestOK, MessagesOK, ControlOK, BatchesHold,
           cursors, looping, runs, env
<1>. QED
  BY <1>3, <1>4, <1>5, <1>6

LEMMA EndStep ==
  ASSUME DeliveryInv, NEW c \in Chats,
         RunDone(c) \/ RunClosed(c) \/ RunFails(c) \/ RunGivesUp(c)
  PROVE  StepOK
<1>1. RestOK /\ TypeOK /\ RunsOK(run)
  BY TypeOKIsParts DEF DeliveryInv, RestOK, ControlOK, BatchesHold, RunsOK
<1>2. PICK failed \in BOOLEAN : RunEnds(c, failed)
  BY <1>1 DEF RunDone, RunClosed, RunFails, RunGivesUp, RunsOK, Runs
<1>3. CursorStep
  <2>1. run[c].phase # "none"
    BY DEF RunDone, RunClosed, RunFails, RunGivesUp, Fail
  <2>2. CommitCursor(c) \/ UNCHANGED <<nextPull, committed>>
    BY DEF RunDone, RunClosed, RunFails, RunGivesUp
  <2>. QED
    BY <1>1, <2>1, <2>2, CommitMoves DEF CursorStep, RestOK
<1>4. fate' \in [Msgs -> Fates]
  BY <1>1, FateType DEF RunDone, RunClosed, RunFails, RunGivesUp, RestOK, MessagesOK, Fates
<1>5. fails' \in 0 .. MaxFails
  <2>1. fails' = fails \/ Fail(c)
    BY DEF RunDone, RunClosed, RunFails, RunGivesUp
  <2>2. fails \in 0 .. MaxFails
    BY <1>1 DEF RestOK, ControlOK
  <2>. QED
    BY <2>1, <2>2, DeliveryAssumption DEF Fail
<1>6. /\ RunsOK(run') /\ due' \subseteq Chats /\ injected' \subseteq Chats
      /\ inRunner' \in [Chats -> SUBSET Msgs]
  BY <1>1, <1>2, RunEndsType
<1>. QED
  BY <1>1, <1>2, <1>3, <1>4, <1>5, <1>6
     DEF RunEnds, RunsOK, StepOK, RestOK, MessagesOK, ControlOK, BatchesHold, looping

LEMMA AccessStep ==
  ASSUME DeliveryInv, NEW c \in Chats, SetAccess(c)
  PROVE  StepOK
<1>1. RestOK
  BY TypeOKIsParts DEF DeliveryInv, RestOK
<1>. QED
  BY <1>1 DEF SetAccess, StepOK, CursorStep, RestOK, MessagesOK, ControlOK, BatchesHold,
     cursors, looping, runs, runners

LEMMA RestartStep ==
  ASSUME DeliveryInv, Restart
  PROVE  StepOK
<1>1. RestOK
  BY TypeOKIsParts DEF DeliveryInv, RestOK
<1>2. CursorStep
  <2>. DEFINE S == {c \in Chats : committed[c] = 0}
  <2>1. committed' = [c \in Chats |-> IF c \in S THEN nextPull[c] ELSE committed[c]]
    BY DEF Restart
  <2>. QED
    BY <2>1 DEF Restart, CursorStep, FillsCommitted
<1>3. RunsOK(run')
  BY NoRunType DEF Restart, RunsOK
<1>4. /\ loop' \in Loops /\ loop'.step = "sleep" /\ due' \subseteq Chats
      /\ crashes' \in 0 .. MaxCrashes
  BY <1>1, DeliveryAssumption DEF Restart, Recovered, Asleep, Loops, RestOK, ControlOK
<1>. QED
  BY <1>1, <1>2, <1>3, <1>4
     DEF Restart, RunsOK, StepOK, RestOK, MessagesOK, ControlOK, BatchesHold

-----------------------------------------------------------------------------
(* The theorems *)

LEMMA DeliveryInit == Init => DeliveryInv
<1>. SUFFICES ASSUME Init PROVE DeliveryInv
  OBVIOUS
<1>1. CursorsOK /\ CommittedBehindNextPull
  BY DeliveryAssumption DEF Init, CursorsOK, CommittedBehindNextPull, Places
<1>2. MessagesOK
  BY DEF Init, MessagesOK, Fates
<1>3. run \in [Chats -> Runs] /\ \A c \in Chats : run[c].phase = "none"
  BY DEF Init, NoRun, Runs
<1>4. loop \in Loops /\ loop.step = "sleep"
  BY DEF Init, Asleep, Loops
<1>5. globalCursor \in Places /\ fails \in 0 .. MaxFails /\ crashes \in 0 .. MaxCrashes
  BY DeliveryAssumption DEF Init, Places
<1>6. ControlOK /\ BatchesHold
  BY <1>3, <1>4, <1>5 DEF Init, ControlOK, BatchesHold
<1>. QED
  BY <1>1, <1>2, <1>6, TypeOKIsParts DEF DeliveryInv

LEMMA DeliveryStep == DeliveryInv /\ [Next]_vars => DeliveryInv'
<1>. SUFFICES ASSUME DeliveryInv, [Next]_vars PROVE DeliveryInv'
  OBVIOUS
<1>1. CASE UNCHANGED vars
  <2>. USE <1>1 DEF vars, cursors, looping, runs, runners, env
  <2>1. TypeOK'
    BY DEF DeliveryInv, TypeOK
  <2>. QED
    BY <2>1 DEF DeliveryInv, BatchesHold, CommittedBehindNextPull
<1>2. CASE Next
  <2>1. StepOK
    BY <1>2, PollStep, LoopChatStep, ReceiveImStep, ReceiveWebStep, WebExpandedStep,
       LoopExpandedStep, StartRunStep, RunExpandedStep, RunDeniedStep, SpawnStep, TurnStep,
       EndStep, AccessStep, RestartStep
       DEF Next, RunStep
  <2>2. CursorsOK' /\ CommittedBehindNextPull'
    BY <2>1, CursorStepIsSafe DEF StepOK, DeliveryInv, CursorsOK
  <2>3. TypeOK'
    BY <2>1, <2>2, TypeOKIsParts, Zenon
       DEF TypeOK, CursorsOK, MessagesOK, ControlOK, Runs, Loops, Fates, Places, StepOK, RestOK
  <2>. QED
    BY <2>1, <2>2, <2>3 DEF DeliveryInv, StepOK, RestOK
<1>. QED
  BY <1>1, <1>2

(* Every reachable state has its types: the cursors are places of the order,
   and a counter of failures or restarts never passes its bound. *)
THEOREM Typing == Spec => []TypeOK
<1>1. DeliveryInv => TypeOK
  BY DEF DeliveryInv
<1>. QED
  BY <1>1, DeliveryInit, DeliveryStep, PTL DEF Spec

(* Recovery never skips what the next pull would still read, for any number
   of chats and messages, and any interleaving of the loop, the web handler,
   plugin expansions, runs, failures and restarts. *)
THEOREM RecoveryIsBehindPull == Spec => []CommittedBehindNextPull
<1>1. DeliveryInv => CommittedBehindNextPull
  BY DEF DeliveryInv
<1>. QED
  BY <1>1, DeliveryInit, DeliveryStep, PTL DEF Spec

=============================================================================
