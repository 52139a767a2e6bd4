--------------------------- MODULE MessageDelivery ---------------------------
(***************************************************************************)
(* How a user's message reaches an agent, src/src/index.ts with            *)
(* src/src/web.ts and container/agent-runner/src/index.ts.                 *)
(*                                                                         *)
(* A message is stored in the database first.  IM messages are then picked *)
(* up by a polling loop, which a notification wakes; web messages are      *)
(* handed on by the request handler.  Both write the message into the IPC  *)
(* directory of the chat's live runner, or else queue a run, which pulls   *)
(* the chat's new messages from the database.                              *)
(*                                                                         *)
(* Three cursors over the (timestamp, id) order of messages say what has   *)
(* been seen: globalMessageCursor by the loop, lastAgentTimestamp (here    *)
(* nextPull) what the next pull of a chat skips, lastCommittedCursor what  *)
(* recovery after a restart skips.  All three are saved on every change.   *)
(*                                                                         *)
(* A message is its place in that order.  The scheduler is abstracted to   *)
(* the set of chats with a run due: each chat has a workspace of its own,  *)
(* and a retry is a run that is due.  As in GroupQueue a step is what the  *)
(* code does between two awaits; the synchronous part of the loop, and its *)
(* wake-up, are Urgent and let nothing in between.                         *)
(***************************************************************************)
EXTENDS Integers, FiniteSetsExt

CONSTANTS
  Chats,
  MaxMsg,       \* the last place in the order
  ChatOf,       \* the chat of each message
  Web,          \* messages typed in the web UI, the others come by IM
  Late,         \* IM messages that may be stored after later ones
  Slow,         \* messages with a plugin slash command: expanding them awaits
  Blockable,    \* chats whose owner may lose, and regain, access
  MaxFails,     \* runs that end other than well
  MaxCrashes    \* restarts of the server

Msgs == 1 .. MaxMsg

ASSUME DeliveryAssumption ==
  /\ MaxMsg \in Nat
  /\ ChatOf \in [Msgs -> Chats]
  /\ Web \subseteq Msgs /\ Late \subseteq Msgs \ Web /\ Slow \subseteq Msgs
  /\ Blockable \subseteq Chats
  /\ MaxFails \in Nat /\ MaxCrashes \in Nat

VARIABLES
  stored,       \* messages in the database
  globalCursor, nextPull, committed,    \* 0 where no cursor was ever set
  loop,         \* the message loop: its step and what it holds across an await
  woken,        \* notifyNewImMessage() has ended the loop's sleep
  due,          \* chats with a run queued or a retry timer
  run,          \* the call of processGroupMessages of each chat
  injected,     \* chats with hasIpcInjectedMessages
  webWait,      \* messages whose web handler awaits the plugin expander
  ipc,          \* message files in each chat's IPC directory
  inRunner,     \* messages the runner has read and not answered
  blocked,      \* chats whose owner is denied access
  fails, crashes,
  fate          \* history: what has become of each message

cursors == <<globalCursor, nextPull, committed>>
looping == <<loop, woken>>
runs    == <<due, run, injected>>
runners == <<ipc, inRunner>>
env     == <<blocked, fails, crashes>>
vars == <<stored, cursors, looping, runs, webWait, runners, env, fate>>

Asleep == [step |-> "sleep", polled |-> {}, batch |-> {}]
NoRun == [phase |-> "none", batch |-> {}, replied |-> FALSE, recorded |-> FALSE]

TypeOK ==
  /\ stored \subseteq Msgs
  /\ globalCursor \in 0 .. MaxMsg
  /\ nextPull \in [Chats -> 0 .. MaxMsg]
  /\ committed \in [Chats -> 0 .. MaxMsg]
  /\ loop \in [step : {"sleep", "chats", "expanding"},
               polled : SUBSET Msgs, batch : SUBSET Msgs]
  /\ woken \in BOOLEAN
  /\ due \subseteq Chats
  /\ run \in [Chats -> [phase : {"none", "expanding", "starting", "live", "replying"},
                        batch : SUBSET Msgs, replied : BOOLEAN, recorded : BOOLEAN]]
  /\ injected \subseteq Chats
  /\ webWait \subseteq Msgs
  /\ ipc \in [Chats -> SUBSET Msgs]
  /\ inRunner \in [Chats -> SUBSET Msgs]
  /\ blocked \subseteq Chats
  /\ fails \in 0 .. MaxFails /\ crashes \in 0 .. MaxCrashes
  /\ fate \in [Msgs -> {"none", "given", "answered", "quiet", "dropped"}]

Init ==
  /\ stored = {}
  /\ globalCursor = 0
  /\ nextPull = [c \in Chats |-> 0]
  /\ committed = [c \in Chats |-> 0]
  /\ loop = Asleep /\ woken = FALSE
  /\ due = {}
  /\ run = [c \in Chats |-> NoRun]
  /\ injected = {}
  /\ webWait = {}
  /\ ipc = [c \in Chats |-> {}]
  /\ inRunner = [c \in Chats |-> {}]
  /\ blocked = {}
  /\ fails = 0 /\ crashes = 0
  /\ fate = [m \in Msgs |-> "none"]

-----------------------------------------------------------------------------
(* Reading the database and moving the cursors *)

StoredOf(c) == {m \in stored : ChatOf[m] = c}

(* getMessagesSince(c, nextPull) *)
Since(c) == {m \in StoredOf(c) : m > nextPull[c]}

Live(c) == run[c].phase \in {"live", "replying"}

Urgent == woken \/ loop.step = "chats"

SetCursors(c, m) ==
  /\ nextPull' = [nextPull EXCEPT ![c] = m]
  /\ committed' = [committed EXCEPT ![c] = m]

AdvanceNextPullCursorOnly(c, m) ==
  /\ nextPull' = [nextPull EXCEPT ![c] = Max({@, m})]
  /\ UNCHANGED committed

(* Mutant: the next-pull cursor is forgotten. *)
AdvanceCommittedOnly(c, m) ==
  /\ committed' = [committed EXCEPT ![c] = Max({nextPull[c], m})]
  /\ UNCHANGED nextPull

(* Mutant: the cursors are overwritten, as before the max-merge. *)
AdvanceCursorsOverwrites(c, m) == SetCursors(c, m)

AdvanceCursors(c, m) == SetCursors(c, Max({nextPull[c], m}))

AdvanceGlobalCursor(m) == globalCursor' = Max({globalCursor, m})

Open(m) == fate[m] \in {"none", "given"}

(* R was answered by a plugin, S handed to a runner. *)
Hand(S, R) ==
  fate' = [m \in Msgs |->
    IF m \in R /\ Open(m) THEN "answered"
    ELSE IF m \in S /\ fate[m] = "none" THEN "given" ELSE fate[m]]

Settle(S, f) == fate' = [m \in Msgs |-> IF m \in S /\ Open(m) THEN f ELSE fate[m]]

(* queue.sendMessage() to a live runner: the file is written and the
   route updater makes the run wait for another reply. *)
Pipe(c, S, R) ==
  /\ ipc' = [ipc EXCEPT ![c] = @ \cup S]
  /\ run' = [run EXCEPT ![c].replied = FALSE]
  /\ Hand(S, R)

-----------------------------------------------------------------------------
(* Messages arrive *)

(* IM messages carry the platform's timestamp. *)
Timely(m) == m \in Late \/ \A n \in stored : n < m

ReceiveIm(m) ==
  /\ m \notin stored \cup Web /\ Timely(m)
  /\ stored' = stored \cup {m}
  /\ woken' = (loop.step = "sleep")
  /\ UNCHANGED <<cursors, loop, runs, webWait, runners, env, fate>>

(* The end of handleWebUserMessage; a runner that must see other
   repositories first is drained instead. *)
WebSend(m) ==
  LET c == ChatOf[m] IN
  /\ AdvanceGlobalCursor(m)
  /\ \/ /\ Live(c)
        /\ Pipe(c, {m}, {})
        /\ SetCursors(c, m)
        /\ injected' = injected \cup {c}
        /\ UNCHANGED due
     \/ /\ due' = due \cup {c}
        /\ UNCHANGED <<run, injected, nextPull, committed, ipc, fate>>
  /\ UNCHANGED <<looping, inRunner, env>>

WebDenied(m) ==
  LET c == ChatOf[m] IN
  /\ SetCursors(c, m)
  /\ AdvanceGlobalCursor(m)
  /\ Settle({m} \cup Since(c), "dropped")
  /\ UNCHANGED <<looping, runs, webWait, runners, env>>

ReceiveWeb(m) ==
  LET c == ChatOf[m] IN
  /\ m \in Web \ stored /\ Timely(m)
  /\ stored' = stored \cup {m}
  /\ \/ c \in blocked /\ WebDenied(m)
     \/ /\ c \notin blocked /\ m \in Slow /\ Live(c)
        /\ webWait' = webWait \cup {m}
        /\ UNCHANGED <<cursors, looping, runs, runners, env, fate>>
     \/ /\ c \notin blocked /\ ~(m \in Slow /\ Live(c))
        /\ WebSend(m)
        /\ UNCHANGED webWait

(* The expander answers the command itself. *)
WebReply(m) ==
  LET c == ChatOf[m]
      earlier == \E n \in StoredOf(c) : committed[c] < n /\ n < m
  IN
  /\ IF earlier THEN AdvanceNextPullCursorOnly(c, m) ELSE AdvanceCursors(c, m)
  /\ AdvanceGlobalCursor(m)
  /\ Settle({m}, "answered")
  /\ UNCHANGED <<looping, runs, runners, env>>

WebExpanded(m) ==
  /\ m \in webWait
  /\ webWait' = webWait \ {m}
  /\ UNCHANGED stored
  /\ WebReply(m) \/ WebSend(m)

-----------------------------------------------------------------------------
(* The message loop *)

NextStep(rest) == IF rest = {} THEN "sleep" ELSE "chats"

(* Mutant: the cursor is put behind the last message. *)
PolledCursorPastEnd(new) == Max(new \cup {globalCursor}) + 1

PolledCursor(new) == Max(new \cup {globalCursor})

Poll ==
  LET new == {m \in stored : m > globalCursor} IN
  /\ loop.step = "sleep"
  /\ woken \/ new # {}
  /\ woken' = FALSE
  /\ globalCursor' = PolledCursor(new)
  /\ loop' = [Asleep EXCEPT !.polled = new, !.step = NextStep(new)]
  /\ UNCHANGED <<stored, nextPull, committed, runs, webWait, runners, env, fate>>

(* Mutant: messages for a run that has no runner yet count as sent. *)
SendToAnyRun(c, S, R) ==
  \/ /\ run[c].phase # "none"
     /\ Pipe(c, {m \in S : Live(c)}, R)
     /\ nextPull' = [nextPull EXCEPT ![c] = Max({@} \cup S \cup R)]
     /\ UNCHANGED due
  \/ /\ run[c].phase = "none"
     /\ due' = due \cup {c}
     /\ nextPull' = [nextPull EXCEPT ![c] = Max({@} \cup R)]
     /\ Settle(R, "answered")
     /\ UNCHANGED <<ipc, run>>

(* Hand S to the runner, after the expander has answered R. *)
Send(c, S, R) ==
  \/ /\ Live(c)
     /\ Pipe(c, S, R)
     /\ nextPull' = [nextPull EXCEPT ![c] = Max({@} \cup S \cup R)]
     /\ UNCHANGED due
  \/ /\ ~Live(c)
     /\ due' = due \cup {c}
     /\ nextPull' = [nextPull EXCEPT ![c] = Max({@} \cup R)]
     /\ Settle(R, "answered")
     /\ UNCHANGED <<ipc, run>>

Resume(rest) == loop' = [Asleep EXCEPT !.polled = rest, !.step = NextStep(rest)]

LoopChat ==
  /\ loop.step = "chats"
  /\ LET c == ChatOf[Min(loop.polled)]
         group == {m \in loop.polled : ChatOf[m] = c}
         rest == loop.polled \ group
         batch == IF Since(c) # {} THEN Since(c) ELSE group
     IN
     \/ /\ c \in blocked
        /\ SetCursors(c, Max(group))
        /\ Settle({m \in group \cup Since(c) : m <= Max(group)}, "dropped")
        /\ Resume(rest)
        /\ UNCHANGED <<due, run, ipc>>
     \/ /\ c \notin blocked /\ batch \cap Slow # {}
        /\ loop' = [step |-> "expanding", polled |-> rest, batch |-> batch]
        /\ UNCHANGED <<nextPull, committed, due, run, ipc, fate>>
     \/ /\ c \notin blocked /\ batch \cap Slow = {}
        /\ Send(c, batch, {})
        /\ Resume(rest)
        /\ UNCHANGED committed
  /\ UNCHANGED <<stored, globalCursor, woken, injected, webWait, inRunner, env>>

(* expandMessagesIfNeeded() returns: R was answered by plugins, the rest
   goes to the runner, expanded or not. *)
LoopExpanded ==
  /\ loop.step = "expanding"
  /\ Resume(loop.polled)
  /\ LET c == ChatOf[Min(loop.batch)] IN
     \E R \in SUBSET (loop.batch \cap Slow) :
       \/ /\ R = loop.batch
          /\ SetCursors(c, Max(R))
          /\ Settle(R, "answered")
          /\ UNCHANGED <<due, run, ipc>>
       \/ /\ R # loop.batch
          /\ Send(c, loop.batch \ R, R)
          /\ UNCHANGED committed
  /\ UNCHANGED <<stored, globalCursor, woken, injected, webWait, inRunner, env>>

-----------------------------------------------------------------------------
(* A run: processGroupMessages *)

(* The queue starts the run; it ends at once when there is nothing to pull. *)
StartRun(c) ==
  /\ c \in due /\ run[c].phase = "none"
  /\ due' = due \ {c}
  /\ run' = IF Since(c) = {} THEN run
            ELSE [run EXCEPT ![c] = [NoRun EXCEPT
              !.phase = IF Since(c) \cap Slow = {} THEN "starting" ELSE "expanding",
              !.batch = Since(c)]]
  /\ UNCHANGED <<stored, cursors, looping, injected, webWait, runners, env, fate>>

(* The expander returns; a batch that plugins answered needs no runner. *)
RunExpanded(c) ==
  /\ run[c].phase = "expanding"
  /\ \E R \in SUBSET (run[c].batch \cap Slow) :
       /\ Settle(R, "answered")
       /\ \/ /\ R = run[c].batch
             /\ SetCursors(c, Max(R))
             /\ run' = [run EXCEPT ![c] = NoRun]
          \/ /\ R # run[c].batch
             /\ IF R = {} THEN UNCHANGED <<nextPull, committed>>
                ELSE AdvanceNextPullCursorOnly(c, Max(R))
             /\ run' = [run EXCEPT ![c].phase = "starting", ![c].batch = @ \ R]
  /\ UNCHANGED <<stored, globalCursor, looping, due, injected, webWait, runners, env>>

(* commitCursor(): the first call of a run counts. *)
CommitCursor(c) ==
  IF run[c].recorded THEN UNCHANGED <<nextPull, committed>>
  ELSE AdvanceCursors(c, Max(run[c].batch))

(* The owner is not active, or over the quota. *)
RunDenied(c) ==
  /\ run[c].phase = "starting" /\ c \in blocked
  /\ CommitCursor(c)
  /\ Settle(run[c].batch, "dropped")
  /\ run' = [run EXCEPT ![c] = NoRun]
  /\ UNCHANGED <<stored, globalCursor, looping, due, injected, webWait, runners, env>>

(* The runner is spawned.  It takes files left by an earlier one as part of
   its prompt. *)
Spawn(c) ==
  /\ run[c].phase = "starting" /\ c \notin blocked
  /\ run' = [run EXCEPT ![c].phase = "live"]
  /\ inRunner' = [inRunner EXCEPT ![c] = run[c].batch \cup ipc[c]]
  /\ ipc' = [ipc EXCEPT ![c] = {}]
  /\ Hand(run[c].batch, {})
  /\ UNCHANGED <<stored, cursors, looping, due, injected, webWait, env>>

(* Mutant: the failure is not reported to the queue. *)
NoRetry(c) == due

(* processGroupMessages returns false: scheduleRetry. *)
Retry(c) == due \cup {c}

SpawnFails(c) ==
  /\ run[c].phase = "starting" /\ c \notin blocked
  /\ fails < MaxFails
  /\ fails' = fails + 1
  /\ due' = Retry(c)
  /\ run' = [run EXCEPT ![c] = NoRun]
  /\ UNCHANGED <<stored, cursors, looping, injected, webWait, runners, blocked, crashes, fate>>

(* drainIpcInput() of the runner *)
TakeIpc(c) ==
  /\ Live(c) /\ ipc[c] # {}
  /\ inRunner' = [inRunner EXCEPT ![c] = @ \cup ipc[c]]
  /\ ipc' = [ipc EXCEPT ![c] = {}]
  /\ UNCHANGED <<stored, cursors, looping, runs, webWait, env, fate>>

(* A turn ends: its reply is stored and shown ... *)
Answer(c) ==
  /\ run[c].phase = "live" /\ inRunner[c] # {}
  /\ run' = [run EXCEPT ![c].phase = "replying"]
  /\ inRunner' = [inRunner EXCEPT ![c] = {}]
  /\ Settle(inRunner[c], "answered")
  /\ UNCHANGED <<stored, cursors, looping, due, injected, webWait, ipc, env>>

(* ... and, when that has been awaited, recorded. *)
Record(c) ==
  /\ run[c].phase = "replying"
  /\ CommitCursor(c)
  /\ run' = [run EXCEPT ![c].phase = "live", ![c].replied = TRUE, ![c].recorded = TRUE]
  /\ UNCHANGED <<stored, globalCursor, looping, due, injected, webWait, runners, env, fate>>

(* A turn ends without visible text. *)
TurnIsQuiet(c) ==
  /\ run[c].phase = "live" /\ inRunner[c] # {}
  /\ inRunner' = [inRunner EXCEPT ![c] = {}]
  /\ Settle(inRunner[c], "quiet")
  /\ UNCHANGED <<stored, cursors, looping, runs, webWait, ipc, env>>

(* What the queue does when a run with a runner has ended: unread files
   and injected messages queue another run, as does a failure. *)
RunEnds(c, failed) ==
  /\ due' = IF failed THEN Retry(c)
            ELSE due \cup {d \in {c} : ipc[c] # {} \/ c \in injected}
  /\ injected' = injected \ {c}
  /\ run' = [run EXCEPT ![c] = NoRun]
  /\ inRunner' = [inRunner EXCEPT ![c] = {}]
  /\ UNCHANGED <<stored, globalCursor, looping, webWait, ipc, blocked, crashes>>

(* Idle, drained or closed between two turns *)
RunDone(c) ==
  /\ run[c].phase = "live" /\ inRunner[c] = {}
  /\ CommitCursor(c)
  /\ RunEnds(c, FALSE)
  /\ UNCHANGED <<fails, fate>>

Fail(c) ==
  /\ run[c].phase = "live"
  /\ fails < MaxFails
  /\ fails' = fails + 1

(* Closed while the agent worked *)
RunClosed(c) ==
  /\ Fail(c) /\ inRunner[c] # {}
  /\ IF run[c].replied THEN CommitCursor(c) ELSE UNCHANGED <<nextPull, committed>>
  /\ RunEnds(c, FALSE)
  /\ UNCHANGED fate

(* An error, a timeout, or an exception out of runAgent *)
RunFails(c) ==
  /\ Fail(c)
  /\ IF run[c].replied THEN CommitCursor(c) ELSE UNCHANGED <<nextPull, committed>>
  /\ RunEnds(c, ~run[c].replied)
  /\ UNCHANGED fate

(* An error that is not retried, or a partial text that is kept: the user
   sees that the turn is over. *)
RunGivesUp(c) ==
  /\ Fail(c) /\ inRunner[c] # {}
  /\ CommitCursor(c)
  /\ RunEnds(c, FALSE)
  /\ Settle(inRunner[c], "dropped")

-----------------------------------------------------------------------------
(* The surroundings *)

SetAccess(c) ==
  /\ c \in Blockable
  /\ blocked' = IF c \in blocked THEN blocked \ {c} ELSE blocked \cup {c}
  /\ UNCHANGED <<stored, cursors, looping, runs, webWait, runners, fails, crashes, fate>>

(* recoverPendingMessages(), after loadState() has given chats without a
   committed cursor the next-pull cursor. *)
Recovered ==
  {c \in Chats : committed'[c] # 0 /\ \E m \in StoredOf(c) : m > committed'[c]}

(* The server stops, by crash or otherwise, its runners with it, and starts
   again.  Cursors and IPC files are kept. *)
Restart ==
  /\ crashes < MaxCrashes
  /\ crashes' = crashes + 1
  /\ committed' = [c \in Chats |-> IF committed[c] = 0 THEN nextPull[c] ELSE committed[c]]
  /\ due' = Recovered
  /\ run' = [c \in Chats |-> NoRun]
  /\ inRunner' = [c \in Chats |-> {}]
  /\ loop' = Asleep /\ woken' = FALSE
  /\ injected' = {} /\ webWait' = {}
  /\ UNCHANGED <<stored, globalCursor, nextPull, ipc, blocked, fails, fate>>

RunStep(c) ==
  \/ StartRun(c) \/ RunExpanded(c) \/ RunDenied(c) \/ Spawn(c) \/ SpawnFails(c)
  \/ TakeIpc(c) \/ Answer(c) \/ Record(c) \/ TurnIsQuiet(c)
  \/ RunDone(c) \/ RunClosed(c) \/ RunFails(c) \/ RunGivesUp(c)

Next ==
  \/ Poll \/ LoopChat
  \/ /\ ~Urgent
     /\ \/ \E m \in Msgs : ReceiveIm(m) \/ ReceiveWeb(m) \/ WebExpanded(m)
        \/ LoopExpanded
        \/ \E c \in Chats : RunStep(c) \/ SetAccess(c)
        \/ Restart

Spec == Init /\ [][Next]_vars

(* The loop goes round; runs start, spawn or fail, and end, since every
   runner has an idle and a hard timeout. *)
Fairness ==
  /\ WF_vars(Poll) /\ WF_vars(LoopChat) /\ WF_vars(~Urgent /\ LoopExpanded)
  /\ \A m \in Msgs : WF_vars(~Urgent /\ WebExpanded(m))
  /\ \A c \in Chats :
       /\ WF_vars(~Urgent /\ (StartRun(c) \/ RunExpanded(c) \/ Record(c)))
       /\ WF_vars(~Urgent /\ (Spawn(c) \/ SpawnFails(c) \/ RunDenied(c)))
       /\ WF_vars(~Urgent /\ (Answer(c) \/ TurnIsQuiet(c)))
       /\ WF_vars(~Urgent /\ RunDone(c))

FairSpec == Spec /\ Fairness

-----------------------------------------------------------------------------
(* What the delivery of messages should keep *)

(* Recovery never skips what the next pull would still read: the committed
   cursor is not ahead of the next-pull cursor of its chat, whichever of the
   loop, the web handler, the run and a restart moved them. *)
CommittedBehindNextPull == \A c \in Chats : committed[c] <= nextPull[c]

(* The next-pull cursor passes no message by: every message behind it was
   handed to a runner, answered by a plugin, or dropped for lack of access. *)
NothingSkipped == \A m \in stored : m <= nextPull[ChatOf[m]] => fate[m] # "none"

(* "never regressing behind existing position": no handler moves a chat's
   cursors backwards, so that no message is pulled and answered again. *)
CursorsAdvance ==
  [][\A c \in Chats : nextPull'[c] >= nextPull[c] /\ committed'[c] >= committed[c]]_vars

(* Something in the server still has the message before it, or will pull it. *)
Underway(m) ==
  LET c == ChatOf[m] IN
  \/ m > globalCursor
  \/ m \in loop.polled \cup loop.batch \cup webWait
  \/ run[c].phase # "none"
  \/ m > nextPull[c] /\ c \in due

(* No message is forgotten as long as runs end well: one that was neither
   answered nor dropped is underway, or in a file for the next runner. *)
NothingForgotten ==
  fails = 0 /\ crashes = 0 =>
    \A m \in stored : Open(m) => Underway(m) \/ m \in ipc[ChatOf[m]]

(* Every message that is stored reaches a runner or is answered without one,
   through failures of runs, retries and slow expansions, while the server
   is not restarted. *)
MessagesAreGiven == \A m \in Msgs : m \in stored ~> (fate[m] # "none" \/ crashes > 0)

=============================================================================
