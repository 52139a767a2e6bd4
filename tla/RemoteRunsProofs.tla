-------------------------- MODULE RemoteRunsProofs --------------------------
(***************************************************************************)
(* Proofs about RemoteRuns, for any runs, connections and restart budget.  *)
(*                                                                         *)
(* The type invariant comes first: every later proof cites it.  Then one   *)
(* inductive invariant per side, LinkInv of the server's variables and     *)
(* RuntimeInv of the daemon's, and WorkInv, which relates a success at the *)
(* server to the work of the child.                                        *)
(***************************************************************************)
EXTENDS RemoteRuns, FiniteSetTheorems, SequenceTheorems, TLAPS

-----------------------------------------------------------------------------
(* Frames *)

(* Sending keeps the frames well-typed. *)
LEMMA SentType ==
  ASSUME NEW S, NEW w \in [Conns -> Seq(S)], NEW c \in Conns, NEW t, NEW r, <<t, r>> \in S
  PROVE  Sent(w, c, t, r) \in [Conns -> Seq(S)]
<1>1. Append(w[c], <<t, r>>) \in Seq(S)
  BY AppendProperties
<1> QED BY <1>1 DEF Sent

(* So does receiving; what is received is a frame. *)
LEMMA TakenType ==
  ASSUME NEW S, NEW w \in [Conns -> Seq(S)], NEW c \in Conns, w[c] # <<>>
  PROVE  /\ Taken(w, c) \in [Conns -> Seq(S)]
         /\ Head(w[c]) \in S
<1>1. Tail(w[c]) \in Seq(S) /\ Head(w[c]) \in S
  BY HeadTailProperties
<1> QED BY <1>1 DEF Taken

(* A frame that is left after the first was taken was there, one place later. *)
LEMMA TakenFrames ==
  ASSUME NEW S, NEW w \in [Conns -> Seq(S)], NEW c \in Conns, w[c] # <<>>,
         NEW d \in Conns, NEW i \in 1 .. Len(Taken(w, c)[d])
  PROVE  IF d = c THEN i + 1 \in 1 .. Len(w[c]) /\ Taken(w, c)[d][i] = w[c][i + 1]
                  ELSE i \in 1 .. Len(w[d]) /\ Taken(w, c)[d][i] = w[d][i]
<1>1. CASE d = c
  <2>1. Taken(w, c)[d] = Tail(w[c])
    BY <1>1 DEF Taken
  <2>2. /\ Len(w[c]) \in Nat
        /\ Len(Tail(w[c])) = Len(w[c]) - 1
        /\ \A j \in 1 .. Len(Tail(w[c])) : Tail(w[c])[j] = w[c][j + 1]
    BY HeadTailProperties, LenProperties
  <2> QED BY <1>1, <2>1, <2>2
<1>2. CASE d # c
  BY <1>2 DEF Taken
<1> QED BY <1>1, <1>2

-----------------------------------------------------------------------------
(* Types *)

(* The server's steps keep the types. *)
LEMMA ServerTypes ==
  ASSUME TypeOK, ServerStep, UNCHANGED daemon
  PROVE  TypeOK'
<1>1. RuntimeTypeOK'
  BY DEF TypeOK, RuntimeTypeOK, daemon
<1> SUFFICES WireTypeOK' /\ LinkTypeOK'
  BY <1>1 DEF TypeOK
<1> USE DEF TypeOK
<1>2. /\ \A n \in {"bye", "hello_ack", "update"} : <<n, NoRun>> \in DownFrames
      /\ \A r \in Runs : <<"run", r>> \in DownFrames /\ <<"cancel", r>> \in DownFrames
  BY DEF DownFrames
<1>3. ASSUME NEW c \in Conns, Accept(c) PROVE WireTypeOK' /\ LinkTypeOK'
  <2>1. registered \in Conns => Sent(down, registered, "bye", NoRun) \in [Conns -> Seq(DownFrames)]
    BY <1>2, SentType DEF WireTypeOK
  <2>2. WireTypeOK'
    BY <1>3, <2>1 DEF Accept, WireTypeOK
  <2>3. LinkTypeOK'
    BY <1>3 DEF Accept, LinkTypeOK, SessionStates, drivers
  <2> QED BY <2>2, <2>3
<1>4. ASSUME NEW c \in Conns, HandleHello(c) PROVE WireTypeOK' /\ LinkTypeOK'
  <2> DEFINE acked == Sent(down, c, "hello_ack", NoRun)
  <2>1. acked \in [Conns -> Seq(DownFrames)]
    BY <1>2, SentType DEF WireTypeOK
  <2>2. Sent(acked, c, "update", NoRun) \in [Conns -> Seq(DownFrames)]
    BY <1>2, <2>1, SentType
  <2>3. up' \in [Conns -> Seq(UpFrames)]
    BY <1>4, TakenType DEF HandleHello, Arrives, WireTypeOK
  <2>4. WireTypeOK'
    BY <1>4, <2>1, <2>2, <2>3 DEF HandleHello, WireTypeOK
  <2>5. LinkTypeOK'
    BY <1>4 DEF HandleHello, LinkTypeOK, SessionStates, drivers
  <2> QED BY <2>4, <2>5
<1>5. ASSUME NEW c \in Conns, CloseSession(c) PROVE WireTypeOK' /\ LinkTypeOK'
  <2>1. WireTypeOK'
    BY <1>2, <1>5, SentType DEF CloseSession, Close, WireTypeOK
  <2>2. LinkTypeOK'
    BY <1>5 DEF CloseSession, Close, LinkTypeOK, SessionStates, drivers
  <2> QED BY <2>1, <2>2
<1>6. ASSUME NEW c \in Conns, Cleanup(c) PROVE WireTypeOK' /\ LinkTypeOK'
  <2>1. <<>> \in Seq(UpFrames)
    BY EmptySeq
  <2>2. WireTypeOK'
    BY <1>6, <2>1 DEF Cleanup, WireTypeOK
  <2>3. \A r \in Runs : answers[r] \cup {"link_offline"} \in SUBSET Answers
                        /\ emitting[r] \cup {"link_offline"} \in SUBSET Answers
    BY DEF LinkTypeOK, Answers
  <2>4. LinkTypeOK'
    BY <1>6, <2>3 DEF Cleanup, FailRuns, LinkTypeOK, SessionStates, drivers
  <2> QED BY <2>2, <2>4
<1>7. ASSUME NEW c \in Conns, HandleResult(c) PROVE WireTypeOK' /\ LinkTypeOK'
  <2>1. WireTypeOK'
    BY <1>7, TakenType DEF HandleResult, Arrives, WireTypeOK
  <2>2. LinkTypeOK'
    BY <1>7 DEF HandleResult, Finalize, Answers, LinkTypeOK
  <2> QED BY <2>1, <2>2
<1>8. ASSUME NEW r \in Runs, Refuse(r) PROVE WireTypeOK' /\ LinkTypeOK'
  BY <1>8 DEF Refuse, Outcomes, WireTypeOK, LinkTypeOK, wire
<1>9. ASSUME NEW r \in Runs, Dispatch(r) PROVE WireTypeOK' /\ LinkTypeOK'
  <2>1. registered \in Conns
    BY <1>9 DEF Dispatch, Online, LinkTypeOK
  <2>2. WireTypeOK'
    <3>1. /\ Sent(down, registered, "run", r) \in [Conns -> Seq(DownFrames)]
          /\ Sent(down, registered, "bye", NoRun) \in [Conns -> Seq(DownFrames)]
      BY <1>2, <2>1, SentType DEF WireTypeOK
    <3> QED BY <1>9, <3>1 DEF Dispatch, Close, WireTypeOK
  <2>3. LinkTypeOK'
    BY <1>9, <2>1 DEF Dispatch, Close, Finalize, Answers, SessionStates, LinkTypeOK
  <2> QED BY <2>2, <2>3
<1>10. ASSUME NEW r \in Runs, TimerFires(r) PROVE WireTypeOK' /\ LinkTypeOK'
  <2>1. WireTypeOK'
    <3>1. Online => Sent(down, registered, "cancel", r) \in [Conns -> Seq(DownFrames)]
      BY <1>2, SentType DEF WireTypeOK, LinkTypeOK, Online
    <3> QED BY <1>10, <3>1 DEF TimerFires, Cancel, WireTypeOK
  <2>2. LinkTypeOK'
    BY <1>10 DEF TimerFires, LinkTypeOK
  <2> QED BY <2>1, <2>2
<1>11. ASSUME NEW r \in Runs, GraceEnds(r) PROVE WireTypeOK' /\ LinkTypeOK'
  <2>1. WireTypeOK'
    BY <1>11 DEF GraceEnds, WireTypeOK, wire
  <2>2. LinkTypeOK'
    BY <1>11 DEF GraceEnds, Finalize, Answers, LinkTypeOK
  <2> QED BY <2>1, <2>2
<1>12. ASSUME NEW r \in Runs, NEW o \in Answers, Emitted(r, o) PROVE WireTypeOK' /\ LinkTypeOK'
  BY <1>12 DEF Emitted, Outcomes, WireTypeOK, LinkTypeOK, wire
<1> QED
  BY <1>3, <1>4, <1>5, <1>6, <1>7, <1>8, <1>9, <1>10, <1>11, <1>12
  DEF ServerStep, SessionStep, RunStep

(* A run that the daemon has heard of came by a connection. *)
Arrived == \A r \in Runs : stage[r] # "none" => via[r] \in Conns

(* A run is worked on only after it has arrived. *)
LEMMA DaemonArrived ==
  ASSUME TypeOK, Arrived, DaemonStep
  PROVE  Arrived'
<1> USE DEF TypeOK, RuntimeTypeOK, Arrived
<1>1. ASSUME NEW c \in Conns, LoopExit(c) \/ ChildExits(c) PROVE Arrived'
  BY <1>1 DEF LoopExit, ChildExits, ChildEnds
<1>2. ASSUME NEW c \in Conns, HandleRun(c) PROVE Arrived'
  BY <1>2 DEF HandleRun
<1>3. ASSUME DaemonEnds PROVE Arrived'
  BY <1>3 DEF DaemonEnds
<1>4. ASSUME UNCHANGED <<via, stage>> PROVE Arrived'
  BY <1>4
<1>5. ASSUME NEW r \in Runs, stage[r] # "none", UNCHANGED via,
             \A q \in Runs : q # r => stage'[q] = stage[q]
      PROVE  Arrived'
  BY <1>5
<1>6. ASSUME NEW r \in Runs,
             \/ EnsureStarted(r) \/ BackoffEnds(r) \/ Write(r) \/ ReadAck(r)
             \/ GoroutineFails(r) \/ ReadResult(r)
      PROVE  Arrived'
  <2>1. stage[r] # "none" /\ UNCHANGED via
    BY <1>6 DEF EnsureStarted, BackoffEnds, Write, ReadAck, GoroutineFails, ReadResult
  <2>2. \A q \in Runs : q # r => stage'[q] = stage[q]
    BY <1>6 DEF EnsureStarted, BackoffEnds, Write, ReadAck, GoroutineFails, ReadResult
  <2> QED BY <1>5, <2>1, <2>2
<1>7. ASSUME NEW c \in Conns, Dial(c) \/ HandleHelloAck(c) \/ HandleCancel(c) \/ HandleUpdate(c)
      PROVE  Arrived'
  BY <1>4, <1>7 DEF Dial, HandleHelloAck, HandleCancel, HandleUpdate
<1>8. ASSUME NEW r \in Runs, ChildAccepts(r) \/ ChildFinishes(r) PROVE Arrived'
  BY <1>4, <1>8 DEF ChildAccepts, ChildFinishes
<1>9. ASSUME NEW c \in Conns, BeginUpdate(c) \/ UpdateFails(c) PROVE Arrived'
  BY <1>4, <1>9 DEF BeginUpdate, UpdateFails
<1> QED
  BY <1>1, <1>2, <1>3, <1>6, <1>7, <1>8, <1>9
  DEF DaemonStep, ConnectionStep, WorkStep, UpdateStep, WritePanics, UpdateRestarts, DaemonCrashes

(* The daemon's steps keep the types. *)
LEMMA DaemonTypes ==
  ASSUME TypeOK, Arrived, DaemonStep, UNCHANGED server
  PROVE  TypeOK'
<1>1. LinkTypeOK'
  BY DEF TypeOK, LinkTypeOK, server
<1> SUFFICES WireTypeOK' /\ RuntimeTypeOK'
  BY <1>1 DEF TypeOK
<1> USE RuntimeAssumption DEF TypeOK, Arrived
<1>2. /\ <<"hello", NoRun>> \in UpFrames
      /\ \A r \in Runs, t \in {"ok", "failed"} : <<t, r>> \in UpFrames
  BY DEF UpFrames
<1>3. ASSUME NEW c, NEW r \in Runs, NEW t \in {"ok", "failed"}, Report(c, t, r),
             c \in Conns
      PROVE  up' \in [Conns -> Seq(UpFrames)]
  BY <1>2, <1>3, SentType DEF Report, WireTypeOK
<1>4. ASSUME DaemonEnds PROVE WireTypeOK' /\ RuntimeTypeOK'
  BY <1>4 DEF DaemonEnds, Working, WireTypeOK, RuntimeTypeOK, Stages, Jobs, wire
<1>5. ASSUME NEW c \in Conns, ChildEnds(c)
      PROVE  child' \in SUBSET Conns /\ job' \in [Runs -> Jobs] /\ stage' \in [Runs -> Stages]
  BY <1>5 DEF ChildEnds, RuntimeTypeOK, Stages, Jobs
<1>6. ASSUME NEW c \in Conns, Dial(c) PROVE WireTypeOK' /\ RuntimeTypeOK'
  <2>1. WireTypeOK'
    BY <1>2, <1>6, SentType DEF Dial, WireTypeOK
  <2> QED BY <1>6, <2>1 DEF Dial, RuntimeTypeOK
<1>7. ASSUME NEW c \in Conns, HandleHelloAck(c) PROVE WireTypeOK' /\ RuntimeTypeOK'
  <2>1. WireTypeOK'
    BY <1>7, TakenType DEF HandleHelloAck, Arrives, WireTypeOK
  <2> QED BY <1>7, <2>1 DEF HandleHelloAck, RuntimeTypeOK
<1>8. ASSUME NEW c \in Conns, LoopExit(c) PROVE WireTypeOK' /\ RuntimeTypeOK'
  <2>1. <<>> \in Seq(DownFrames)
    BY EmptySeq
  <2>2. WireTypeOK'
    BY <1>8, <2>1 DEF LoopExit, WireTypeOK
  <2> QED BY <1>5, <1>8, <2>2 DEF LoopExit, RuntimeTypeOK
<1>9. ASSUME NEW c \in Conns, HandleRun(c) PROVE WireTypeOK' /\ RuntimeTypeOK'
  <2> DEFINE r == Head(down[c])[2]
  <2>1. down' \in [Conns -> Seq(DownFrames)] /\ r \in Runs
    <3>1. down' \in [Conns -> Seq(DownFrames)] /\ Head(down[c]) \in DownFrames
      BY <1>9, TakenType DEF HandleRun, Arrives, WireTypeOK
    <3>2. \A f \in DownFrames : f[1] = "run" => f[2] \in Runs
      BY DEF DownFrames
    <3> QED BY <1>9, <3>1, <3>2 DEF HandleRun, Arrives
  <2>2. up' \in [Conns -> Seq(UpFrames)]
    BY <1>3, <1>9, <2>1 DEF HandleRun, WireTypeOK
  <2>3. RuntimeTypeOK'
    BY <1>9, <2>1 DEF HandleRun, RuntimeTypeOK, Stages
  <2> QED BY <2>1, <2>2, <2>3 DEF WireTypeOK
<1>10. ASSUME NEW c \in Conns, HandleCancel(c) PROVE WireTypeOK' /\ RuntimeTypeOK'
  <2>1. WireTypeOK'
    BY <1>10, TakenType DEF HandleCancel, Arrives, WireTypeOK
  <2> QED BY <1>10, <2>1 DEF HandleCancel, RuntimeTypeOK
<1>11. ASSUME NEW c \in Conns, HandleUpdate(c) PROVE WireTypeOK' /\ RuntimeTypeOK'
  <2>1. WireTypeOK'
    BY <1>11, TakenType DEF HandleUpdate, Arrives, WireTypeOK
  <2> QED BY <1>11, <2>1 DEF HandleUpdate, RuntimeTypeOK
<1>12. ASSUME NEW c \in Conns, ChildExits(c) PROVE WireTypeOK' /\ RuntimeTypeOK'
  BY <1>5, <1>12 DEF ChildExits, RuntimeTypeOK, WireTypeOK, wire
<1>13. ASSUME NEW r \in Runs, EnsureStarted(r) PROVE WireTypeOK' /\ RuntimeTypeOK'
  BY <1>13 DEF EnsureStarted, RuntimeTypeOK, Stages, WireTypeOK, wire
<1>14. ASSUME NEW r \in Runs, BackoffEnds(r) PROVE WireTypeOK' /\ RuntimeTypeOK'
  BY <1>14 DEF BackoffEnds, RuntimeTypeOK, Stages, WireTypeOK, wire
<1>15. ASSUME NEW r \in Runs, Write(r) PROVE WireTypeOK' /\ RuntimeTypeOK'
  BY <1>15 DEF Write, RuntimeTypeOK, Stages, Jobs, WireTypeOK, wire
<1>16. ASSUME NEW r \in Runs, ReadAck(r) PROVE WireTypeOK' /\ RuntimeTypeOK'
  BY <1>16 DEF ReadAck, RuntimeTypeOK, Stages, WireTypeOK, wire
<1>17. ASSUME NEW r \in Runs, GoroutineFails(r) PROVE WireTypeOK' /\ RuntimeTypeOK'
  BY <1>3, <1>17 DEF GoroutineFails, RuntimeTypeOK, Stages, WireTypeOK
<1>18. ASSUME NEW r \in Runs, ReadResult(r) PROVE WireTypeOK' /\ RuntimeTypeOK'
  BY <1>3, <1>18 DEF ReadResult, RuntimeTypeOK, Stages, WireTypeOK
<1>19. ASSUME NEW r \in Runs, ChildAccepts(r) \/ ChildFinishes(r)
       PROVE  WireTypeOK' /\ RuntimeTypeOK'
  BY <1>19 DEF ChildAccepts, ChildFinishes, RuntimeTypeOK, Jobs, WireTypeOK, wire
<1>20. ASSUME NEW c \in Conns, BeginUpdate(c) \/ UpdateFails(c) PROVE WireTypeOK' /\ RuntimeTypeOK'
  BY <1>20 DEF BeginUpdate, UpdateFails, RuntimeTypeOK, WireTypeOK, wire
<1> QED
  BY <1>4, <1>6, <1>7, <1>8, <1>9, <1>10, <1>11, <1>12, <1>13, <1>14, <1>15, <1>16, <1>17,
     <1>18, <1>19, <1>20
  DEF DaemonStep, ConnectionStep, WorkStep, UpdateStep, WritePanics, UpdateRestarts, DaemonCrashes

(* The types hold from the start. *)
LEMMA InitTypes == Init => TypeOK /\ Arrived
<1> SUFFICES ASSUME Init PROVE TypeOK /\ Arrived
  OBVIOUS
<1>1. <<>> \in Seq(UpFrames) /\ <<>> \in Seq(DownFrames)
  BY EmptySeq
<1>2. WireTypeOK
  BY <1>1 DEF Init, WireInit, WireTypeOK
<1>3. LinkTypeOK
  BY DEF Init, LinkInit, LinkTypeOK, SessionStates, Answers, Outcomes
<1>4. RuntimeTypeOK /\ Arrived
  BY DEF Init, RuntimeInit, RuntimeTypeOK, Arrived, Stages, Jobs
<1> QED BY <1>2, <1>3, <1>4 DEF TypeOK

(* And are kept by every step. *)
LEMMA StepTypes == TypeOK /\ Arrived /\ [Next]_vars => TypeOK' /\ Arrived'
<1> SUFFICES ASSUME TypeOK, Arrived, [Next]_vars PROVE TypeOK' /\ Arrived'
  OBVIOUS
<1>1. CASE ServerStep /\ UNCHANGED daemon
  <2>1. Arrived'
    BY <1>1 DEF Arrived, daemon
  <2> QED BY <1>1, <2>1, ServerTypes
<1>2. CASE DaemonStep /\ UNCHANGED server
  BY <1>2, DaemonTypes, DaemonArrived
<1>3. CASE UNCHANGED vars
  BY <1>3 DEF vars, wire, server, daemon, TypeOK, WireTypeOK, LinkTypeOK, RuntimeTypeOK, Arrived
<1> QED BY <1>1, <1>2, <1>3 DEF Next

(* Every variable has its type in every state. *)
THEOREM TypesHold == Spec => []TypeOK
<1>1. TypeOK /\ Arrived /\ [Next]_vars => (TypeOK /\ Arrived)'
  BY StepTypes
<1> QED BY <1>1, InitTypes, PTL DEF Spec

-----------------------------------------------------------------------------
(* The server's side *)

(* Nothing is known of a run that was not sent; the session of one that was has
   begun, so that it cannot begin again after its end. *)
Unsent ==
  \A r \in Runs : sentOn[r] = NoConn
                    => r \notin controllers /\ answers[r] = {} /\ emitting[r] = {} /\ timer[r] = "off"
SentLater == \A r \in Runs : sentOn[r] # NoConn => sess[sentOn[r]] # "none"

(* What is told through the controller takes the controller away. *)
Told == {"success", "error", "link_offline"}
ToldOnce ==
  \A r \in Runs : /\ r \in controllers => answers[r] \cap Told = {}
                  /\ \A a, b \in answers[r] \cap Told : a = b

LinkInv ==
  OneSession /\ Unsent /\ SentLater /\ ToldOnce /\ LiveRunsNotFailed /\ NobodyForgotten

LEMMA InitLinkInv == Init => LinkInv
BY DEF Init, LinkInit, LinkInv, OneSession, Live, Unsent, SentLater, ToldOnce, LiveRunsNotFailed,
       NobodyForgotten

(* Steps of the sessions that leave the runs alone. *)
LEMMA SessionLinkInv ==
  ASSUME TypeOK, LinkInv, NEW c \in Conns,
         Accept(c) \/ HandleHello(c) \/ CloseSession(c)
  PROVE  LinkInv'
<1> USE LinkAssumption DEF TypeOK, LinkTypeOK, LinkInv, drivers
<1>1. UNCHANGED <<sentOn, controllers, timer, emitting, answers, outcome>>
  BY DEF Accept, HandleHello, CloseSession
<1>2. Unsent' /\ ToldOnce' /\ NobodyForgotten'
  BY <1>1 DEF Unsent, ToldOnce, NobodyForgotten
<1>3. OneSession'
  BY DEF Accept, HandleHello, CloseSession, Close, OneSession, Live
<1>4. \A d \in Conns : sess[d] # "none" => sess'[d] # "none" /\ (Live(d)' => Live(d))
  BY DEF Accept, HandleHello, CloseSession, Close, Live
<1>5. SentLater' /\ LiveRunsNotFailed'
  BY <1>1, <1>4 DEF SentLater, Unsent, LiveRunsNotFailed
<1> QED BY <1>2, <1>3, <1>5

(* The end of a session: the runs that are told were sent on it, or on one that
   had ended before. *)
LEMMA CleanupLinkInv ==
  ASSUME TypeOK, LinkInv, NEW c \in Conns, Cleanup(c)
  PROVE  LinkInv'
<1> USE LinkAssumption DEF TypeOK, LinkTypeOK, LinkInv
<1>1. /\ sess' = [sess EXCEPT ![c] = "closed"]
      /\ UNCHANGED <<sentOn, outcome>>
  BY DEF Cleanup, drivers
<1>2. OneSession' /\ SentLater'
  BY DEF Cleanup, OneSession, Live, SentLater
<1>3. CASE registered # c
  <2>1. UNCHANGED <<controllers, timer, emitting, answers>>
    BY <1>3 DEF Cleanup, drivers
  <2>2. Unsent' /\ ToldOnce' /\ NobodyForgotten'
    BY <1>1, <2>1 DEF Unsent, ToldOnce, NobodyForgotten
  <2>3. LiveRunsNotFailed'
    BY <1>1, <2>1 DEF LiveRunsNotFailed, Live, Unsent
  <2> QED BY <1>2, <2>2, <2>3
<1>4. CASE registered = c
  <2>1. FailRuns
    BY <1>4 DEF Cleanup
  <2>2. \A r \in Runs : answers'[r] = IF r \in controllers THEN answers[r] \cup {"link_offline"}
                                      ELSE answers[r]
    BY <2>1 DEF FailRuns
  <2>3. Unsent'
    BY <1>1, <2>1 DEF FailRuns, Unsent
  <2>4. ToldOnce'
    BY <2>1, <2>2 DEF FailRuns, ToldOnce, Told
  <2>5. LiveRunsNotFailed'
    <3>1. \A d \in Conns : ~Live(d)'
      BY <1>1, <1>4 DEF OneSession, Live
    <3>2. \A r \in Runs : "link_offline" \in answers'[r] => sentOn[r] \in Conns
      BY <2>2 DEF Unsent
    <3> QED BY <1>1, <3>1, <3>2 DEF LiveRunsNotFailed, Live
  <2>6. NobodyForgotten'
    BY <1>1, <2>1 DEF FailRuns, NobodyForgotten
  <2> QED BY <1>2, <2>3, <2>4, <2>5, <2>6
<1> QED BY <1>3, <1>4

(* A result, if there is a controller to tell. *)
LEMMA ResultLinkInv ==
  ASSUME TypeOK, LinkInv, NEW c \in Conns, HandleResult(c)
  PROVE  LinkInv'
<1> USE LinkAssumption DEF TypeOK, LinkTypeOK, LinkInv
<1>1. UNCHANGED <<sess, registered, sentOn, outcome>>
  BY DEF HandleResult
<1>2. OneSession' /\ SentLater'
  BY <1>1 DEF OneSession, SentLater, Live
<1>3. CASE UNCHANGED <<controllers, timer, answers, emitting>>
  BY <1>1, <1>2, <1>3 DEF Unsent, ToldOnce, LiveRunsNotFailed, NobodyForgotten, Live
<1>4. ASSUME NEW r \in controllers, NEW o \in {"success", "error"},
             controllers' = controllers \ {r},
             timer' = [timer EXCEPT ![r] = IF @ = "armed" THEN "off" ELSE @],
             answers' = [answers EXCEPT ![r] = @ \cup {o}],
             emitting' = [emitting EXCEPT ![r] = @ \cup {o}]
      PROVE  LinkInv'
  <2>1. \A q \in Runs : q # r => /\ answers'[q] = answers[q] /\ emitting'[q] = emitting[q]
                                 /\ timer'[q] = timer[q]
    BY <1>4
  <2>2. /\ answers'[r] = answers[r] \cup {o} /\ emitting'[r] = emitting[r] \cup {o}
        /\ sentOn[r] # NoConn
    BY <1>4 DEF Unsent
  <2>3. Unsent'
    BY <1>1, <1>4, <2>1, <2>2 DEF Unsent
  <2>4. ToldOnce'
    BY <1>4, <2>1, <2>2 DEF ToldOnce, Told
  <2>5. LiveRunsNotFailed'
    BY <1>1, <2>1, <2>2 DEF LiveRunsNotFailed, Live
  <2>6. NobodyForgotten'
    BY <1>1, <1>4, <2>1, <2>2 DEF NobodyForgotten
  <2> QED BY <1>2, <2>3, <2>4, <2>5, <2>6
<1> QED BY <1>3, <1>4 DEF HandleResult, Finalize

(* A request gives the run its controller and its timer, or its failure. *)
LEMMA DispatchLinkInv ==
  ASSUME TypeOK, LinkInv, NEW r \in Runs, Dispatch(r)
  PROVE  LinkInv'
<1> USE LinkAssumption DEF TypeOK, LinkTypeOK, LinkInv
<1>1. /\ sentOn[r] = NoConn /\ registered \in Conns /\ sess[registered] = "open"
      /\ sentOn' = [sentOn EXCEPT ![r] = registered]
      /\ controllers' = controllers \cup {r}
      /\ UNCHANGED <<registered, outcome>>
  BY DEF Dispatch, Online
<1>2. /\ \A d \in Conns : /\ sess[d] # "none" => sess'[d] # "none"
                          /\ Live(d)' => Live(d)
      /\ \A q \in Runs : q # r => /\ answers'[q] = answers[q] /\ emitting'[q] = emitting[q]
                                  /\ timer'[q] = timer[q]
      /\ \/ timer'[r] = "armed" /\ answers'[r] = {} /\ emitting'[r] = {}
         \/ answers'[r] = {"send_failed"} /\ emitting'[r] = {"send_failed"}
  BY <1>1 DEF Dispatch, Close, Finalize, Live, Unsent
<1>3. OneSession'
  BY <1>1, <1>2 DEF OneSession
<1>4. Unsent'
  BY <1>1, <1>2 DEF Unsent
<1>5. SentLater'
  BY <1>1, <1>2 DEF SentLater
<1>6. ToldOnce'
  BY <1>1, <1>2 DEF ToldOnce, Told
<1>7. LiveRunsNotFailed'
  BY <1>1, <1>2 DEF LiveRunsNotFailed, Unsent
<1>8. NobodyForgotten'
  BY <1>1, <1>2 DEF NobodyForgotten
<1> QED BY <1>3, <1>4, <1>5, <1>6, <1>7, <1>8

(* Timers, refusals and the end of a delivery. *)
LEMMA RunLinkInv ==
  ASSUME TypeOK, LinkInv, NEW r \in Runs,
         Refuse(r) \/ TimerFires(r) \/ GraceEnds(r) \/ \E o \in Answers : Emitted(r, o)
  PROVE  LinkInv'
<1> USE LinkAssumption DEF TypeOK, LinkTypeOK, LinkInv
<1>1. UNCHANGED <<sess, registered, sentOn>>
  BY DEF Refuse, TimerFires, GraceEnds, Emitted
<1>2. OneSession' /\ SentLater'
  BY <1>1 DEF OneSession, SentLater, Live
<1>3. \A q \in Runs :
        /\ q \in controllers' => q \in controllers
        /\ answers[q] \cap Told = answers'[q] \cap Told
  BY DEF Refuse, TimerFires, GraceEnds, Finalize, Emitted, Told
<1>4. ToldOnce'
  BY <1>3 DEF ToldOnce
<1>5. LiveRunsNotFailed'
  BY <1>1, <1>3 DEF LiveRunsNotFailed, Told, Live
<1>6. Unsent'
  BY <1>1 DEF Refuse, TimerFires, GraceEnds, Finalize, Emitted, Unsent
<1>7. NobodyForgotten'
  <2>1. CASE Refuse(r)
    BY <2>1 DEF Refuse, NobodyForgotten
  <2>2. CASE TimerFires(r)
    BY <2>2 DEF TimerFires, NobodyForgotten
  <2>3. CASE GraceEnds(r)
    BY <2>3 DEF GraceEnds, Finalize, NobodyForgotten
  <2>4. ASSUME NEW o \in Answers, Emitted(r, o) PROVE NobodyForgotten'
    BY <2>4 DEF Emitted, Answers, NobodyForgotten
  <2> QED BY <2>1, <2>2, <2>3, <2>4
<1> QED BY <1>2, <1>4, <1>5, <1>6, <1>7

LEMMA StepLinkInv == TypeOK /\ LinkInv /\ [Next]_vars => LinkInv'
<1> SUFFICES ASSUME TypeOK, LinkInv, [Next]_vars PROVE LinkInv'
  OBVIOUS
<1>1. CASE ServerStep
  BY <1>1, SessionLinkInv, CleanupLinkInv, ResultLinkInv, DispatchLinkInv, RunLinkInv
  DEF ServerStep, SessionStep, RunStep
<1>2. CASE UNCHANGED server
  BY <1>2 DEF server, LinkInv, OneSession, Unsent, SentLater, ToldOnce, LiveRunsNotFailed,
              NobodyForgotten, Live
<1> QED BY <1>1, <1>2 DEF Next, vars

LEMMA LinkInvHolds == Spec => []LinkInv
<1>1. TypeOK /\ LinkInv /\ [Next]_vars => LinkInv'
  BY StepLinkInv
<1> QED BY <1>1, InitLinkInv, TypesHold, PTL DEF Spec

(* Only the registered session exchanges frames. *)
THEOREM OneSessionHolds == Spec => []OneSession
BY LinkInvHolds, PTL DEF LinkInv

(* The end of a replaced session fails no run of its successor. *)
THEOREM LiveRunsNotFailedHolds == Spec => []LiveRunsNotFailed
BY LinkInvHolds, PTL DEF LinkInv

(* A run that waits will be ended. *)
THEOREM NobodyForgottenHolds == Spec => []NobodyForgotten
BY LinkInvHolds, PTL DEF LinkInv

(* An outcome is handed out once, unless the server ended the run itself. *)
THEOREM AnsweredOnceHolds == Spec => []AnsweredOnce
<1>1. TypeOK /\ LinkInv => AnsweredOnce
  <2> SUFFICES ASSUME TypeOK, LinkInv, NEW r \in Runs,
                      answers[r] \cap {"server_timeout", "send_failed"} = {}
               PROVE  ~(Cardinality(answers[r]) > 1)
    BY DEF AnsweredOnce
  <2>1. answers[r] \subseteq Told
    BY DEF TypeOK, LinkTypeOK, Answers, Told
  <2>2. CASE answers[r] = {}
    BY <2>2, FS_EmptySet
  <2>3. ASSUME NEW a \in answers[r] PROVE ~(Cardinality(answers[r]) > 1)
    <3>1. answers[r] = {a}
      BY <2>1 DEF LinkInv, ToldOnce
    <3>2. Cardinality({a}) = 1
      BY FS_Singleton
    <3> QED BY <3>1, <3>2
  <2> QED BY <2>2, <2>3
<1> QED BY <1>1, TypesHold, LinkInvHolds, PTL

-----------------------------------------------------------------------------
(* The daemon's side: a request arrives once *)

RunFrame(w, c, i, r) == i \in 1 .. Len(w[c]) /\ w[c][i] = <<"run", r>>

(* A request that is on its way belongs to a run that was sent and has not arrived,
   and it is the only one of its run. *)
RequestsFresh ==
  \A r \in Runs, c \in Conns : \A i \in Nat :
    RunFrame(down, c, i, r) => sentOn[r] # NoConn /\ stage[r] = "none"
RequestsOnce ==
  \A r \in Runs, c, d \in Conns : \A i, j \in Nat :
    RunFrame(down, c, i, r) /\ RunFrame(down, d, j, r) => c = d /\ i = j

Requests == RequestsFresh /\ RequestsOnce

(* A run that was not sent has not arrived. *)
SentFirst == \A r \in Runs : sentOn[r] = NoConn => stage[r] = "none"

(* That t, x may be sent to the daemon. *)
DownFrame(t, x) == <<t, x>> \in DownFrames

LEMMA DownFrameTypes ==
  /\ DownFrame("bye", NoRun) /\ DownFrame("hello_ack", NoRun) /\ DownFrame("update", NoRun)
  /\ \A r \in Runs : DownFrame("run", r) /\ DownFrame("cancel", r)
BY DEF DownFrame, DownFrames

(* A request that is there after a frame was sent was there before, or is the frame. *)
LEMMA SentRequest ==
  ASSUME NEW w \in [Conns -> Seq(DownFrames)], NEW c \in Conns, NEW t, NEW x,
         DownFrame(t, x),
         NEW d \in Conns, NEW i \in Nat, NEW r \in Runs, NEW w1, w1 = Sent(w, c, t, x),
         RunFrame(w1, d, i, r)
  PROVE  RunFrame(w, d, i, r) \/ (d = c /\ i = Len(w[c]) + 1 /\ t = "run" /\ x = r)
<1>1. CASE d = c /\ conn[c] # "gone"
  <2>1. w1[d] = Append(w[c], <<t, x>>)
    BY <1>1 DEF Sent
  <2>2. /\ Len(Append(w[c], <<t, x>>)) = Len(w[c]) + 1
        /\ \A j \in 1 .. Len(w[c]) : Append(w[c], <<t, x>>)[j] = w[c][j]
        /\ Append(w[c], <<t, x>>)[Len(w[c]) + 1] = <<t, x>>
    BY AppendProperties DEF DownFrame
  <2>3. Len(w[c]) \in Nat
    BY LenProperties
  <2> QED BY <1>1, <2>1, <2>2, <2>3 DEF RunFrame
<1>2. CASE d # c \/ conn[c] = "gone"
  BY <1>2 DEF RunFrame, Sent
<1> QED BY <1>1, <1>2

(* No new request, and every old one where it was or one place further on. *)
LEMMA RequestsKept ==
  ASSUME TypeOK, Requests, NEW k \in [Conns -> {0, 1}],
         \A c \in Conns : \A i \in Nat : \A r \in Runs :
           RunFrame(down', c, i, r) => RunFrame(down, c, i + k[c], r) /\ stage'[r] = stage[r],
         \A r \in Runs : sentOn[r] # NoConn => sentOn'[r] # NoConn
  PROVE  Requests'
<1>1. RequestsFresh'
  <2> SUFFICES ASSUME NEW r \in Runs, NEW c \in Conns, NEW i \in Nat, RunFrame(down', c, i, r)
               PROVE  sentOn'[r] # NoConn /\ stage'[r] = "none"
    BY DEF RequestsFresh, RunFrame
  <2>1. RunFrame(down, c, i + k[c], r) /\ i + k[c] \in Nat /\ stage'[r] = stage[r]
    OBVIOUS
  <2> QED BY <2>1 DEF Requests, RequestsFresh
<1>2. RequestsOnce'
  <2> SUFFICES ASSUME NEW r \in Runs, NEW c \in Conns, NEW d \in Conns, NEW i \in Nat, NEW j \in Nat,
                      RunFrame(down', c, i, r), RunFrame(down', d, j, r)
               PROVE  c = d /\ i = j
    BY DEF RequestsOnce, RunFrame
  <2>1. /\ RunFrame(down, c, i + k[c], r) /\ i + k[c] \in Nat
        /\ RunFrame(down, d, j + k[d], r) /\ j + k[d] \in Nat
    OBVIOUS
  <2>2. c = d /\ i + k[c] = j + k[d]
    BY <2>1 DEF Requests, RequestsOnce
  <2>3. k[c] \in Nat
    OBVIOUS
  <2> QED BY <2>2, <2>3
<1> QED BY <1>1, <1>2 DEF Requests

(* Nothing is sent or taken, and no run arrives. *)
LEMMA RequestsUntouched ==
  ASSUME TypeOK, Requests, UNCHANGED down,
         \A r \in Runs : stage[r] = "none" => stage'[r] = "none",
         \A r \in Runs : sentOn[r] # NoConn => sentOn'[r] # NoConn
  PROVE  Requests'
<1> DEFINE k == [d \in Conns |-> 0]
<1>1. k \in [Conns -> {0, 1}]
  OBVIOUS
<1>2. ASSUME NEW d \in Conns, NEW i \in Nat, NEW r \in Runs, RunFrame(down', d, i, r)
      PROVE  RunFrame(down, d, i + k[d], r) /\ stage'[r] = stage[r]
  <2>1. i + k[d] = i
    OBVIOUS
  <2>2. RunFrame(down, d, i, r)
    BY <1>2 DEF RunFrame
  <2>3. stage[r] = "none"
    BY <2>2 DEF Requests, RequestsFresh
  <2> QED BY <2>1, <2>2, <2>3
<1> QED BY <1>1, <1>2, RequestsKept

(* Any other frame may be sent. *)
LEMMA OthersSent ==
  ASSUME TypeOK, Requests, UNCHANGED stage, NEW c \in Conns, NEW t, NEW x,
         DownFrame(t, x), t # "run",
         down' = Sent(down, c, t, x) \/ UNCHANGED down,
         \A r \in Runs : sentOn[r] # NoConn => sentOn'[r] # NoConn
  PROVE  Requests'
<1> DEFINE k == [d \in Conns |-> 0]
<1>1. k \in [Conns -> {0, 1}]
  OBVIOUS
<1>2. ASSUME NEW d \in Conns, NEW i \in Nat, NEW r \in Runs, RunFrame(down', d, i, r)
      PROVE  RunFrame(down, d, i + k[d], r)
  <2>1. i + k[d] = i
    OBVIOUS
  <2>2. CASE down' = Sent(down, c, t, x)
    <3>1. down \in [Conns -> Seq(DownFrames)]
      BY DEF TypeOK, WireTypeOK
    <3> QED BY <1>2, <2>1, <2>2, <3>1, SentRequest
  <2> QED BY <1>2, <2>1, <2>2 DEF RunFrame
<1> QED BY <1>1, <1>2, RequestsKept

(* A frame may be taken; if it is a request, its run may go on. *)
LEMMA OneTaken ==
  ASSUME TypeOK, Requests, NEW c \in Conns, down[c] # <<>>, down' = Taken(down, c),
         UNCHANGED sentOn,
         \A r \in Runs : stage'[r] = stage[r] \/ Head(down[c]) = <<"run", r>>
  PROVE  Requests'
<1> DEFINE k == [d \in Conns |-> IF d = c THEN 1 ELSE 0]
<1>1. k \in [Conns -> {0, 1}]
  OBVIOUS
<1>2. ASSUME NEW d \in Conns, NEW i \in Nat, NEW r \in Runs, RunFrame(down', d, i, r)
      PROVE  RunFrame(down, d, i + k[d], r) /\ stage'[r] = stage[r]
  <2>1. down \in [Conns -> Seq(DownFrames)] /\ i \in 1 .. Len(Taken(down, c)[d])
    BY <1>2 DEF TypeOK, WireTypeOK, RunFrame
  <2>2. IF d = c THEN i + 1 \in 1 .. Len(down[c]) /\ down'[d][i] = down[c][i + 1]
                 ELSE i \in 1 .. Len(down[d]) /\ down'[d][i] = down[d][i]
    BY <2>1, TakenFrames
  <2>3. RunFrame(down, d, i + k[d], r)
    <3>1. CASE d = c
      BY <1>2, <2>2, <3>1 DEF RunFrame
    <3>2. CASE d # c
      BY <1>2, <2>2, <3>2 DEF RunFrame
    <3> QED BY <3>1, <3>2
  <2>4. Head(down[c]) # <<"run", r>>
    <3> SUFFICES ASSUME Head(down[c]) = <<"run", r>> PROVE FALSE
      OBVIOUS
    <3>1. Len(down[c]) \in Nat /\ Len(down[c]) >= 1 /\ Head(down[c]) = down[c][1]
      BY <2>1, LenProperties, EmptySeq, HeadTailProperties
    <3>2. RunFrame(down, c, 1, r)
      BY <3>1 DEF RunFrame
    <3>3. i + k[d] \in Nat
      OBVIOUS
    <3>4. d = c /\ i + k[d] = 1
      BY <2>3, <3>2, <3>3 DEF Requests, RequestsOnce
    <3>5. i + 1 = 1 /\ i \in 1 .. Len(down'[d])
      BY <1>2, <3>4 DEF RunFrame
    <3> QED BY <3>5
  <2> QED BY <2>3, <2>4
<1> QED BY <1>1, <1>2, RequestsKept

(* The server's steps: only Dispatch sends a request, and only one of its run. *)
LEMMA ServerRequests ==
  ASSUME TypeOK, Requests, SentFirst, ServerStep, UNCHANGED daemon
  PROVE  Requests'
<1> USE DEF TypeOK, LinkTypeOK
<1>1. UNCHANGED stage
  BY DEF daemon
<1>2. /\ DownFrame("bye", NoRun) /\ DownFrame("hello_ack", NoRun) /\ DownFrame("update", NoRun)
      /\ \A r \in Runs : DownFrame("run", r) /\ DownFrame("cancel", r)
  BY DownFrameTypes
<1>3. ASSUME NEW c \in Conns, Accept(c) PROVE Requests'
  <2>1. UNCHANGED sentOn
    BY <1>3 DEF Accept
  <2>2. CASE registered \in Conns
    <3>1. down' = Sent(down, registered, "bye", NoRun) \/ UNCHANGED down
      BY <1>3 DEF Accept
    <3> QED BY <1>1, <1>2, <2>1, <2>2, <3>1, OthersSent
  <2>3. CASE registered \notin Conns
    <3>1. UNCHANGED down
      BY <1>3, <2>3 DEF Accept
    <3> QED BY <1>1, <2>1, <3>1, RequestsUntouched
  <2> QED BY <2>2, <2>3
<1>4. ASSUME NEW c \in Conns, HandleHello(c) PROVE Requests'
  <2> DEFINE acked == Sent(down, c, "hello_ack", NoRun)
             k == [d \in Conns |-> 0]
  <2>1. down \in [Conns -> Seq(DownFrames)] /\ acked \in [Conns -> Seq(DownFrames)]
    BY <1>2, SentType DEF WireTypeOK, DownFrame
  <2>2. k \in [Conns -> {0, 1}]
    OBVIOUS
  <2>3. ASSUME NEW d \in Conns, NEW i \in Nat, NEW r \in Runs, RunFrame(acked, d, i, r)
        PROVE  RunFrame(down, d, i, r)
    <3>1. \A t, x : DownFrame(t, x) /\ t # "run" /\ acked = Sent(down, c, t, x)
                     => RunFrame(down, d, i, r)
      <4> HIDE DEF acked
      <4> QED BY <2>1, <2>3, SentRequest
    <3> QED BY <1>2, <3>1
  <2>4. ASSUME NEW d \in Conns, NEW i \in Nat, NEW r \in Runs, RunFrame(down', d, i, r),
               down' = Sent(acked, c, "update", NoRun)
        PROVE  RunFrame(acked, d, i, r)
    <3> HIDE DEF acked
    <3>1. \A t, x, w : DownFrame(t, x) /\ t # "run" /\ w = Sent(acked, c, t, x)
                          /\ RunFrame(w, d, i, r)
                        => RunFrame(acked, d, i, r)
      BY <2>1, SentRequest
    <3> QED BY <1>2, <2>4, <3>1
  <2>5. ASSUME NEW d \in Conns, NEW i \in Nat, NEW r \in Runs, RunFrame(down', d, i, r)
        PROVE  RunFrame(down, d, i + k[d], r)
    <3>1. i + k[d] = i
      OBVIOUS
    <3>2. down' = acked \/ down' = Sent(acked, c, "update", NoRun)
      BY <1>4 DEF HandleHello
    <3>3. RunFrame(acked, d, i, r)
      BY <2>4, <2>5, <3>2
    <3> QED BY <2>3, <3>1, <3>3
  <2> QED BY <1>1, <1>4, <2>2, <2>5, RequestsKept DEF HandleHello
<1>5. ASSUME NEW c \in Conns, CloseSession(c) PROVE Requests'
  <2>1. down' = Sent(down, c, "bye", NoRun) /\ UNCHANGED sentOn
    BY <1>5 DEF CloseSession, Close
  <2> QED BY <1>1, <1>2, <2>1, OthersSent
<1>6. ASSUME UNCHANGED <<down, sentOn>> PROVE Requests'
  BY <1>1, <1>6, RequestsUntouched
<1>7. ASSUME NEW r \in Runs, Dispatch(r) PROVE Requests'
  <2>1. /\ registered \in Conns /\ sentOn[r] = NoConn
        /\ sentOn' = [sentOn EXCEPT ![r] = registered]
    BY <1>7 DEF Dispatch, Online
  <2>2. \A q \in Runs : sentOn[q] # NoConn => sentOn'[q] # NoConn
    BY <2>1, LinkAssumption
  <2>3. CASE down' = Sent(down, registered, "bye", NoRun)
    BY <1>1, <1>2, <2>1, <2>2, <2>3, OthersSent
  <2>4. CASE down' = Sent(down, registered, "run", r)
    <3>1. \A d \in Conns : \A i \in Nat : ~RunFrame(down, d, i, r)
      BY <2>1 DEF Requests, RequestsFresh
    <3>2. ASSUME NEW d \in Conns, NEW i \in Nat, NEW q \in Runs, RunFrame(down', d, i, q)
          PROVE  \/ RunFrame(down, d, i, q) /\ q # r
                 \/ q = r /\ d = registered /\ i = Len(down[registered]) + 1
      <4>1. down \in [Conns -> Seq(DownFrames)]
        BY DEF WireTypeOK
      <4>2. RunFrame(down, d, i, q) \/ (d = registered /\ i = Len(down[registered]) + 1 /\ q = r)
        <5>1. \A t, x, w : DownFrame(t, x) /\ w = Sent(down, registered, t, x)
                              /\ RunFrame(w, d, i, q)
                            => \/ RunFrame(down, d, i, q)
                               \/ d = registered /\ i = Len(down[registered]) + 1 /\ x = q
          BY <2>1, <4>1, SentRequest
        <5> QED BY <1>2, <2>4, <3>2, <5>1
      <4> QED BY <3>1, <4>2
    <3>3. stage[r] = "none"
      BY <2>1 DEF SentFirst
    <3>4. RequestsFresh'
      <4> SUFFICES ASSUME NEW q \in Runs, NEW d \in Conns, NEW i \in Nat, RunFrame(down', d, i, q)
                   PROVE  sentOn'[q] # NoConn /\ stage'[q] = "none"
        BY DEF RequestsFresh, RunFrame
      <4>1. RunFrame(down, d, i, q) \/ q = r
        BY <3>2
      <4> QED BY <1>1, <2>1, <2>2, <3>3, <4>1, LinkAssumption DEF Requests, RequestsFresh
    <3>5. RequestsOnce'
      <4> SUFFICES ASSUME NEW q \in Runs, NEW c \in Conns, NEW d \in Conns, NEW i \in Nat,
                          NEW j \in Nat, RunFrame(down', c, i, q), RunFrame(down', d, j, q)
                   PROVE  c = d /\ i = j
        BY DEF RequestsOnce, RunFrame
      <4>1. CASE q = r
        BY <3>2, <4>1
      <4>2. CASE q # r
        BY <3>2, <4>2 DEF Requests, RequestsOnce
      <4> QED BY <4>1, <4>2
    <3> QED BY <3>4, <3>5 DEF Requests
  <2> QED BY <1>7, <2>3, <2>4 DEF Dispatch, Close
<1>8. ASSUME NEW r \in Runs, TimerFires(r) PROVE Requests'
  <2>1. CASE UNCHANGED down
    BY <1>6, <1>8, <2>1 DEF TimerFires
  <2>2. CASE ~UNCHANGED down
    BY <1>1, <1>2, <1>8, <2>2, OthersSent DEF TimerFires, Cancel, Online
  <2> QED BY <2>1, <2>2
<1>9. ASSUME NEW c \in Conns, Cleanup(c) \/ HandleResult(c) PROVE Requests'
  BY <1>6, <1>9 DEF Cleanup, HandleResult
<1>10. ASSUME NEW r \in Runs, Refuse(r) \/ GraceEnds(r) \/ \E o \in Answers : Emitted(r, o)
       PROVE  Requests'
  BY <1>6, <1>10 DEF Refuse, GraceEnds, Emitted, wire
<1> QED
  BY <1>3, <1>4, <1>5, <1>7, <1>8, <1>9, <1>10 DEF ServerStep, SessionStep, RunStep

(* The daemon's steps: HandleRun takes the only request of its run. *)
LEMMA DaemonRequests ==
  ASSUME TypeOK, Requests, SentFirst, DaemonStep, UNCHANGED server
  PROVE  Requests' /\ SentFirst'
<1> USE DEF TypeOK, RuntimeTypeOK
<1>1. UNCHANGED sentOn
  BY DEF server
<1>2. ASSUME UNCHANGED down,
             \A r \in Runs : stage[r] = "none" => stage'[r] = "none"
      PROVE  Requests' /\ SentFirst'
  <2>1. SentFirst'
    BY <1>1, <1>2 DEF SentFirst
  <2> QED BY <1>1, <1>2, <2>1, RequestsUntouched
<1>3. ASSUME NEW c \in Conns, HandleHelloAck(c) \/ HandleCancel(c) \/ HandleUpdate(c)
      PROVE  Requests' /\ SentFirst'
  <2>1. down[c] # <<>> /\ down' = Taken(down, c) /\ UNCHANGED stage
    BY <1>3 DEF HandleHelloAck, HandleCancel, HandleUpdate, Arrives
  <2>2. SentFirst'
    BY <1>1, <2>1 DEF SentFirst
  <2> QED BY <1>1, <2>1, <2>2, OneTaken
<1>4. ASSUME NEW c \in Conns, LoopExit(c) PROVE Requests' /\ SentFirst'
  <2> DEFINE k == [d \in Conns |-> 0]
  <2>1. k \in [Conns -> {0, 1}]
    OBVIOUS
  <2>2. \A r \in Runs : stage'[r] = stage[r] \/ (stage[r] = "acked" /\ stage'[r] = "unread")
    BY <1>4 DEF LoopExit, ChildEnds
  <2>3. ASSUME NEW d \in Conns, NEW i \in Nat, NEW r \in Runs, RunFrame(down', d, i, r)
        PROVE  RunFrame(down, d, i + k[d], r) /\ stage'[r] = stage[r]
    <3>1. i + k[d] = i
      OBVIOUS
    <3>2. down'[c] = <<>> /\ (d # c => down'[d] = down[d])
      BY <1>4 DEF LoopExit, WireTypeOK
    <3>3. d # c
      BY <2>3, <3>2 DEF RunFrame
    <3>4. RunFrame(down, d, i, r)
      BY <2>3, <3>2, <3>3 DEF RunFrame
    <3>5. stage[r] = "none"
      BY <3>4 DEF Requests, RequestsFresh
    <3> QED BY <2>2, <3>1, <3>4, <3>5
  <2>4. SentFirst'
    BY <1>1, <2>2 DEF SentFirst
  <2> QED BY <1>1, <2>1, <2>3, <2>4, RequestsKept
<1>5. ASSUME NEW c \in Conns, HandleRun(c) PROVE Requests' /\ SentFirst'
  <2> DEFINE r == Head(down[c])[2]
  <2>1. /\ down[c] # <<>> /\ down' = Taken(down, c)
        /\ Head(down[c])[1] = "run"
        /\ \A q \in Runs : q # r => stage'[q] = stage[q]
    BY <1>5 DEF HandleRun, Arrives
  <2>2. Head(down[c]) = <<"run", r>> /\ r \in Runs
    <3>1. Head(down[c]) \in DownFrames
      BY <2>1, TakenType DEF WireTypeOK
    <3>2. \A f \in DownFrames : f[1] = "run" => f = <<"run", f[2]>> /\ f[2] \in Runs
      BY DEF DownFrames
    <3> QED BY <2>1, <3>1, <3>2
  <2>3. sentOn[r] # NoConn
    <3>1. down[c] \in Seq(DownFrames)
      BY DEF WireTypeOK
    <3>2. Len(down[c]) \in Nat /\ Len(down[c]) >= 1 /\ Head(down[c]) = down[c][1]
      BY <2>1, <3>1, LenProperties, EmptySeq, HeadTailProperties
    <3>3. RunFrame(down, c, 1, r)
      BY <2>2, <3>2 DEF RunFrame
    <3> QED BY <2>2, <3>3 DEF Requests, RequestsFresh
  <2>4. SentFirst'
    BY <1>1, <2>1, <2>3 DEF SentFirst
  <2>5. \A q \in Runs : stage'[q] = stage[q] \/ Head(down[c]) = <<"run", q>>
    BY <2>1, <2>2
  <2> QED BY <1>1, <2>1, <2>4, <2>5, OneTaken
<1>6. ASSUME NEW c \in Conns, Dial(c) \/ ChildExits(c) PROVE Requests' /\ SentFirst'
  BY <1>2, <1>6 DEF Dial, ChildExits, ChildEnds, wire
<1>7. ASSUME DaemonEnds PROVE Requests' /\ SentFirst'
  <2>1. \A d \in Conns : down'[d] = <<>>
    BY <1>7 DEF DaemonEnds
  <2>2. \A d \in Conns : \A i \in Nat : \A r \in Runs : ~RunFrame(down', d, i, r)
    BY <2>1 DEF RunFrame
  <2>3. Requests'
    BY <2>2 DEF Requests, RequestsFresh, RequestsOnce, RunFrame
  <2>4. SentFirst'
    BY <1>1, <1>7 DEF DaemonEnds, SentFirst
  <2> QED BY <2>3, <2>4
<1>8. ASSUME NEW r \in Runs,
             \/ EnsureStarted(r) \/ BackoffEnds(r) \/ Write(r) \/ ReadAck(r)
             \/ GoroutineFails(r) \/ ReadResult(r)
      PROVE  Requests' /\ SentFirst'
  <2>1. UNCHANGED down /\ stage[r] # "none"
    BY <1>8 DEF EnsureStarted, BackoffEnds, Write, ReadAck, GoroutineFails, ReadResult, wire
  <2>2. \A q \in Runs : q # r => stage'[q] = stage[q]
    BY <1>8 DEF EnsureStarted, BackoffEnds, Write, ReadAck, GoroutineFails, ReadResult
  <2> QED BY <1>2, <2>1, <2>2
<1>9. ASSUME NEW r \in Runs, ChildAccepts(r) \/ ChildFinishes(r) PROVE Requests' /\ SentFirst'
  BY <1>2, <1>9 DEF ChildAccepts, ChildFinishes, wire
<1>10. ASSUME NEW c \in Conns, BeginUpdate(c) \/ UpdateFails(c) PROVE Requests' /\ SentFirst'
  BY <1>2, <1>10 DEF BeginUpdate, UpdateFails, wire
<1> QED
  BY <1>3, <1>4, <1>5, <1>6, <1>7, <1>8, <1>9, <1>10
  DEF DaemonStep, ConnectionStep, WorkStep, UpdateStep, WritePanics, UpdateRestarts, DaemonCrashes

-----------------------------------------------------------------------------
(* The daemon's side: the pool *)

(* A run that is worked on has its entry; one that has not begun or has ended has
   none. *)
Reserved ==
  \A r \in Runs : /\ Busy(r) => r \in pool
                  /\ stage[r] \in {"none", "failed", "reported", "dead"} => r \notin pool

(* The request of a run finds its stage "none": that is what Requests says. *)
LEMMA DaemonReserved ==
  ASSUME TypeOK, Requests, Reserved, DaemonStep
  PROVE  Reserved'
<1> USE DEF TypeOK, RuntimeTypeOK, Reserved, Busy
<1>1. ASSUME UNCHANGED pool,
             \A r \in Runs : stage'[r] = stage[r] \/ stage'[r] = "unread"
      PROVE  Reserved'
  BY <1>1
<1>2. ASSUME NEW c \in Conns, HandleRun(c) PROVE Reserved'
  <2> DEFINE r == Head(down[c])[2]
  <2>1. Head(down[c]) = <<"run", r>> /\ r \in Runs
    <3>1. Head(down[c]) \in DownFrames /\ Head(down[c])[1] = "run"
      BY <1>2, TakenType DEF HandleRun, Arrives, WireTypeOK
    <3>2. \A f \in DownFrames : f[1] = "run" => f = <<"run", f[2]>> /\ f[2] \in Runs
      BY DEF DownFrames
    <3> QED BY <3>1, <3>2
  <2>2. stage[r] = "none"
    <3>1. down[c] \in Seq(DownFrames) /\ down[c] # <<>>
      BY <1>2 DEF WireTypeOK, HandleRun, Arrives
    <3>2. Len(down[c]) \in Nat /\ Len(down[c]) >= 1 /\ Head(down[c]) = down[c][1]
      BY <3>1, LenProperties, EmptySeq, HeadTailProperties
    <3>3. RunFrame(down, c, 1, r)
      BY <2>1, <3>2 DEF RunFrame
    <3> QED BY <2>1, <3>3 DEF Requests, RequestsFresh
  <2> HIDE DEF r
  <2> QED BY <1>2, <2>1, <2>2 DEF HandleRun, r
<1>3. ASSUME NEW c \in Conns, LoopExit(c) \/ ChildExits(c) PROVE Reserved'
  <2>1. UNCHANGED pool
    BY <1>3 DEF LoopExit, ChildExits
  <2>2. \A r \in Runs : stage'[r] = stage[r] \/ stage'[r] = "unread"
    BY <1>3 DEF LoopExit, ChildExits, ChildEnds
  <2> QED BY <1>1, <2>1, <2>2
<1>4. ASSUME DaemonEnds PROVE Reserved'
  BY <1>4 DEF DaemonEnds
<1>5. ASSUME NEW r \in Runs, EnsureStarted(r) \/ BackoffEnds(r) \/ Write(r) \/ ReadAck(r)
      PROVE  Reserved'
  <2>1. Busy(r) /\ Busy(r)' /\ UNCHANGED pool
    BY <1>5 DEF EnsureStarted, BackoffEnds, Write, ReadAck
  <2>2. \A q \in Runs : q # r => stage'[q] = stage[q]
    BY <1>5 DEF EnsureStarted, BackoffEnds, Write, ReadAck
  <2> QED BY <2>1, <2>2
<1>6. ASSUME NEW r \in Runs, GoroutineFails(r) \/ ReadResult(r) PROVE Reserved'
  <2>1. stage'[r] \in {"failed", "reported"} /\ pool' = pool \ {r}
    BY <1>6 DEF GoroutineFails, ReadResult
  <2>2. \A q \in Runs : q # r => stage'[q] = stage[q]
    BY <1>6 DEF GoroutineFails, ReadResult
  <2> QED BY <2>1, <2>2
<1>7. ASSUME NEW c \in Conns, Dial(c) \/ HandleHelloAck(c) \/ HandleCancel(c) \/ HandleUpdate(c)
      PROVE  Reserved'
  BY <1>1, <1>7 DEF Dial, HandleHelloAck, HandleCancel, HandleUpdate
<1>8. ASSUME NEW r \in Runs, ChildAccepts(r) \/ ChildFinishes(r) PROVE Reserved'
  BY <1>1, <1>8 DEF ChildAccepts, ChildFinishes
<1>9. ASSUME NEW c \in Conns, BeginUpdate(c) \/ UpdateFails(c) PROVE Reserved'
  BY <1>1, <1>9 DEF BeginUpdate, UpdateFails
<1> QED
  BY <1>2, <1>3, <1>4, <1>5, <1>6, <1>7, <1>8, <1>9
  DEF DaemonStep, ConnectionStep, WorkStep, UpdateStep, WritePanics, UpdateRestarts, DaemonCrashes

RuntimeInv == Requests /\ SentFirst /\ Reserved

LEMMA InitRuntimeInv == Init => RuntimeInv
<1> SUFFICES ASSUME Init PROVE RuntimeInv
  OBVIOUS
<1>1. \A c \in Conns : \A i, r : ~RunFrame(down, c, i, r)
  BY DEF Init, WireInit, RunFrame
<1>2. Requests
  BY <1>1 DEF Requests, RequestsFresh, RequestsOnce
<1> QED BY <1>2 DEF Init, LinkInit, RuntimeInit, RuntimeInv, SentFirst, Reserved, Busy

LEMMA StepRuntimeInv == TypeOK /\ RuntimeInv /\ [Next]_vars => RuntimeInv'
<1> SUFFICES ASSUME TypeOK, RuntimeInv, [Next]_vars PROVE RuntimeInv'
  OBVIOUS
<1> USE DEF RuntimeInv
<1>1. CASE ServerStep /\ UNCHANGED daemon
  <2>1. Requests'
    BY <1>1, ServerRequests
  <2>2. SentFirst'
    <3>1. \A r \in Runs : sentOn[r] # NoConn => sentOn'[r] # NoConn
      BY <1>1, LinkAssumption
      DEF TypeOK, LinkTypeOK, ServerStep, SessionStep, RunStep, Accept, HandleHello,
          CloseSession, Cleanup, HandleResult, Refuse, Dispatch, Online, TimerFires, GraceEnds,
          Emitted
    <3> QED BY <1>1, <3>1 DEF daemon, SentFirst
  <2>3. Reserved'
    BY <1>1 DEF daemon, Reserved, Busy
  <2> QED BY <2>1, <2>2, <2>3
<1>2. CASE DaemonStep /\ UNCHANGED server
  BY <1>2, DaemonRequests, DaemonReserved
<1>3. CASE UNCHANGED vars
  BY <1>3 DEF vars, wire, server, daemon, Requests, RequestsFresh, RequestsOnce, RunFrame,
              SentFirst, Reserved, Busy
<1> QED BY <1>1, <1>2, <1>3 DEF Next

LEMMA RuntimeInvHolds == Spec => []RuntimeInv
<1>1. TypeOK /\ RuntimeInv /\ [Next]_vars => RuntimeInv'
  BY StepRuntimeInv
<1> QED BY <1>1, InitRuntimeInv, TypesHold, PTL DEF Spec

(* A run that is worked on is in the pool. *)
THEOREM WorkIsReservedHolds == Spec => []WorkIsReserved
<1>1. RuntimeInv => WorkIsReserved
  BY DEF RuntimeInv, Reserved, WorkIsReserved
<1> QED BY <1>1, RuntimeInvHolds, PTL

(* A run whose end was reported is not. *)
THEOREM EndsReleaseHolds == Spec => []EndsRelease
<1>1. RuntimeInv => EndsRelease
  BY DEF RuntimeInv, Reserved, EndsRelease
<1> QED BY <1>1, RuntimeInvHolds, PTL

(* The pool that is idle when the daemon restarts has no run under way. *)
THEOREM UpdateSparesRunsHolds == Spec => UpdateSparesRuns
<1>1. RuntimeInv => [\A c \in Conns : UpdateRestarts(c) => \A r \in RunsOf(c) : ~Busy(r)]_vars
  BY DEF RuntimeInv, Reserved, UpdateRestarts, PoolIdle, RunsOf
<1> QED BY <1>1, RuntimeInvHolds, PTL DEF UpdateSparesRuns

-----------------------------------------------------------------------------
(* Success *)

OkFrame(w, c, i, r) == i \in 1 .. Len(w[c]) /\ w[c][i] = <<"ok", r>>

(* The child has not heard of a run whose request was not written to it. *)
NotYet == \A r \in Runs : stage[r] \in {"none", "starting", "backoff", "writing"} => job[r] = "none"

(* The word "ok" is the child's: on the wire, and in what the server hands out. *)
OkSent == \A r \in Runs, c \in Conns : \A i \in Nat : OkFrame(up, c, i, r) => job[r] = "ok"
OkHeard == \A r \in Runs : "success" \in emitting[r] => job[r] = "ok"

WorkInv == NotYet /\ OkSent /\ OkHeard

(* That t, x may be sent to the server. *)
UpFrame(t, x) == <<t, x>> \in UpFrames

LEMMA UpFrameTypes ==
  UpFrame("hello", NoRun) /\ \A r \in Runs, t \in {"ok", "failed"} : UpFrame(t, r)
BY DEF UpFrame, UpFrames

(* An "ok" that is there after a frame was sent was there before, or is the frame. *)
LEMMA SentOk ==
  ASSUME NEW w \in [Conns -> Seq(UpFrames)], NEW c \in Conns, NEW t, NEW x, UpFrame(t, x),
         NEW d \in Conns, NEW i \in Nat, NEW r \in Runs, NEW w1, w1 = Sent(w, c, t, x),
         OkFrame(w1, d, i, r)
  PROVE  OkFrame(w, d, i, r) \/ (t = "ok" /\ x = r)
<1>1. CASE d = c /\ conn[c] # "gone"
  <2>1. w1[d] = Append(w[c], <<t, x>>)
    BY <1>1 DEF Sent
  <2>2. /\ Len(Append(w[c], <<t, x>>)) = Len(w[c]) + 1
        /\ \A j \in 1 .. Len(w[c]) : Append(w[c], <<t, x>>)[j] = w[c][j]
        /\ Append(w[c], <<t, x>>)[Len(w[c]) + 1] = <<t, x>>
    BY AppendProperties DEF UpFrame
  <2>3. Len(w[c]) \in Nat
    BY LenProperties
  <2> QED BY <1>1, <2>1, <2>2, <2>3 DEF OkFrame
<1>2. CASE d # c \/ conn[c] = "gone"
  BY <1>2 DEF OkFrame, Sent
<1> QED BY <1>1, <1>2

(* The server takes frames and sends none of these; what it hands out as a success
   it took from the wire. *)
LEMMA ServerWork ==
  ASSUME TypeOK, WorkInv, ServerStep, UNCHANGED daemon
  PROVE  WorkInv'
<1> USE DEF TypeOK, LinkTypeOK, WireTypeOK, WorkInv
<1>1. UNCHANGED <<stage, job>>
  BY DEF daemon
<1>2. NotYet'
  BY <1>1 DEF NotYet
<1>3. ASSUME NEW c \in Conns, up[c] # <<>>, up' = Taken(up, c) PROVE OkSent'
  <2> SUFFICES ASSUME NEW r \in Runs, NEW d \in Conns, NEW i \in Nat, OkFrame(up', d, i, r)
               PROVE  job[r] = "ok"
    BY <1>1 DEF OkSent, OkFrame
  <2>1. up \in [Conns -> Seq(UpFrames)] /\ i \in 1 .. Len(Taken(up, c)[d])
    BY <1>3 DEF OkFrame
  <2>2. IF d = c THEN i + 1 \in 1 .. Len(up[c]) /\ up'[d][i] = up[c][i + 1]
                 ELSE i \in 1 .. Len(up[d]) /\ up'[d][i] = up[d][i]
    <3> HIDE DEF TypeOK, WireTypeOK
    <3>1. IF d = c THEN i + 1 \in 1 .. Len(up[c]) /\ Taken(up, c)[d][i] = up[c][i + 1]
                   ELSE i \in 1 .. Len(up[d]) /\ Taken(up, c)[d][i] = up[d][i]
      BY <1>3, <2>1, TakenFrames
    <3> QED BY <1>3, <3>1
  <2>3. OkFrame(up, d, i + 1, r) \/ OkFrame(up, d, i, r)
    BY <2>2 DEF OkFrame
  <2> QED BY <2>3 DEF OkSent
<1>4. ASSUME UNCHANGED up PROVE OkSent'
  BY <1>1, <1>4 DEF OkSent, OkFrame
<1>5. ASSUME \A r \in Runs : "success" \in emitting'[r] => "success" \in emitting[r] PROVE OkHeard'
  BY <1>1, <1>5 DEF OkHeard
<1>6. ASSUME NEW c \in Conns, Accept(c) \/ CloseSession(c) PROVE WorkInv'
  BY <1>2, <1>4, <1>5, <1>6 DEF Accept, CloseSession, drivers
<1>7. ASSUME NEW c \in Conns, HandleHello(c) PROVE WorkInv'
  BY <1>2, <1>3, <1>5, <1>7 DEF HandleHello, Arrives, drivers
<1>8. ASSUME NEW c \in Conns, Cleanup(c) PROVE WorkInv'
  <2>1. OkSent'
    <3> SUFFICES ASSUME NEW r \in Runs, NEW d \in Conns, NEW i \in Nat, OkFrame(up', d, i, r)
                 PROVE  job[r] = "ok"
      BY <1>1 DEF OkSent, OkFrame
    <3>1. up'[c] = <<>> /\ (d # c => up'[d] = up[d])
      BY <1>8 DEF Cleanup
    <3>2. OkFrame(up, d, i, r)
      BY <3>1 DEF OkFrame
    <3> QED BY <3>2 DEF OkSent
  <2>2. \A r \in Runs : "success" \in emitting'[r] => "success" \in emitting[r]
    <3>1. CASE FailRuns
      <4> SUFFICES ASSUME NEW r \in Runs, "success" \in emitting'[r] PROVE "success" \in emitting[r]
        OBVIOUS
      <4>1. emitting'[r] = emitting[r] \/ emitting'[r] = emitting[r] \cup {"link_offline"}
        BY <3>1 DEF FailRuns
      <4> QED BY <4>1
    <3>2. CASE UNCHANGED emitting
      BY <3>2
    <3> QED BY <1>8, <3>1, <3>2 DEF Cleanup, drivers
  <2> QED BY <1>2, <1>5, <2>1, <2>2
<1>9. ASSUME NEW c \in Conns, HandleResult(c) PROVE WorkInv'
  <2> DEFINE r == Head(up[c])[2]
  <2>1. up[c] # <<>> /\ up' = Taken(up, c)
    BY <1>9 DEF HandleResult, Arrives
  <2>2. OkHeard'
    <3> SUFFICES ASSUME NEW q \in Runs, "success" \in emitting'[q], "success" \notin emitting[q]
                 PROVE  job[q] = "ok"
      BY <1>1 DEF OkHeard
    <3>1. q = r /\ Head(up[c])[1] = "ok"
      BY <1>9 DEF HandleResult, Finalize, Arrives
    <3>2. Head(up[c]) \in UpFrames
      BY <2>1, TakenType
    <3>3. \A f \in UpFrames : f[1] = "ok" => f = <<"ok", f[2]>>
      BY DEF UpFrames
    <3>4. Head(up[c]) = <<"ok", q>>
      BY <3>1, <3>2, <3>3
    <3>5. up[c] \in Seq(UpFrames)
      OBVIOUS
    <3>6. Len(up[c]) \in Nat /\ Len(up[c]) >= 1 /\ Head(up[c]) = up[c][1]
      BY <2>1, <3>5, LenProperties, EmptySeq, HeadTailProperties
    <3>7. OkFrame(up, c, 1, q)
      BY <3>4, <3>6 DEF OkFrame
    <3> QED BY <3>7 DEF OkSent
  <2> QED BY <1>2, <1>3, <2>1, <2>2
<1>10. ASSUME NEW r \in Runs, Refuse(r) \/ TimerFires(r) PROVE WorkInv'
  BY <1>2, <1>4, <1>5, <1>10 DEF Refuse, TimerFires, wire
<1>11. ASSUME NEW r \in Runs, Dispatch(r) \/ GraceEnds(r) \/ \E o \in Answers : Emitted(r, o)
       PROVE  WorkInv'
  <2>1. UNCHANGED up
    BY <1>11 DEF Dispatch, GraceEnds, Emitted, wire
  <2>2. \A q \in Runs : "success" \in emitting'[q] => "success" \in emitting[q]
    <3> SUFFICES ASSUME NEW q \in Runs, "success" \in emitting'[q] PROVE "success" \in emitting[q]
      OBVIOUS
    <3>1. \/ emitting'[q] \subseteq emitting[q]
          \/ \E o \in {"send_failed", "server_timeout"} : emitting'[q] = emitting[q] \cup {o}
      <4>1. CASE Dispatch(r)
        BY <4>1 DEF Dispatch, Finalize
      <4>2. CASE GraceEnds(r)
        BY <4>2 DEF GraceEnds, Finalize
      <4>3. CASE \E o \in Answers : Emitted(r, o)
        BY <4>3 DEF Emitted
      <4> QED BY <1>11, <4>1, <4>2, <4>3
    <3> QED BY <3>1
  <2> QED BY <1>2, <1>4, <1>5, <2>1, <2>2
<1> QED
  BY <1>6, <1>7, <1>8, <1>9, <1>10, <1>11 DEF ServerStep, SessionStep, RunStep

(* Work that was done stays done. *)
LEMMA OkStays ==
  ASSUME TypeOK, NotYet, DaemonStep
  PROVE  \A r \in Runs : job[r] = "ok" => job'[r] = "ok"
<1> SUFFICES ASSUME NEW r \in Runs, job[r] = "ok" PROVE job'[r] = "ok"
  OBVIOUS
<1> USE DEF TypeOK, RuntimeTypeOK
<1>1. ASSUME NEW c \in Conns,
             \/ Dial(c) \/ HandleHelloAck(c) \/ LoopExit(c) \/ HandleRun(c) \/ HandleCancel(c)
             \/ HandleUpdate(c) \/ ChildExits(c)
      PROVE  job'[r] = "ok"
  BY <1>1 DEF Dial, HandleHelloAck, LoopExit, HandleRun, HandleCancel, HandleUpdate, ChildExits,
              ChildEnds, Working
<1>2. ASSUME DaemonEnds PROVE job'[r] = "ok"
  BY <1>2 DEF DaemonEnds, Working
<1>3. ASSUME NEW q \in Runs, Write(q) \/ ChildAccepts(q) \/ ChildFinishes(q) PROVE job'[r] = "ok"
  <2>1. q # r
    BY <1>3 DEF Write, ChildAccepts, ChildFinishes, NotYet
  <2> QED BY <1>3, <2>1 DEF Write, ChildAccepts, ChildFinishes
<1>4. ASSUME NEW q \in Runs,
             \/ EnsureStarted(q) \/ BackoffEnds(q) \/ ReadAck(q) \/ GoroutineFails(q)
             \/ ReadResult(q)
      PROVE  job'[r] = "ok"
  BY <1>4 DEF EnsureStarted, BackoffEnds, ReadAck, GoroutineFails, ReadResult
<1>5. ASSUME NEW c \in Conns, BeginUpdate(c) \/ UpdateFails(c) PROVE job'[r] = "ok"
  BY <1>5 DEF BeginUpdate, UpdateFails
<1> QED
  BY <1>1, <1>2, <1>3, <1>4, <1>5
  DEF DaemonStep, ConnectionStep, WorkStep, UpdateStep, WritePanics, UpdateRestarts, DaemonCrashes

(* The daemon says "ok" only in ReadResult, in the words of the child. *)
LEMMA DaemonWork ==
  ASSUME TypeOK, Arrived, RuntimeInv, WorkInv, DaemonStep, UNCHANGED server
  PROVE  WorkInv'
<1> USE DEF TypeOK, RuntimeTypeOK, WireTypeOK, WorkInv
<1>1. \A r \in Runs : job[r] = "ok" => job'[r] = "ok"
  BY OkStays
<1>2. OkHeard'
  BY <1>1 DEF OkHeard, server
<1>3. ASSUME UNCHANGED up PROVE OkSent'
  BY <1>1, <1>3 DEF OkSent, OkFrame
<1>4. ASSUME NEW c \in Conns, NEW t, NEW x, UpFrame(t, x), t = "ok" => x \in Runs /\ job[x] = "ok",
             up' = Sent(up, c, t, x)
      PROVE  OkSent'
  <2> SUFFICES ASSUME NEW r \in Runs, NEW d \in Conns, NEW i \in Nat, OkFrame(up', d, i, r)
               PROVE  job'[r] = "ok"
    BY DEF OkSent, OkFrame
  <2>1. \A w : w = Sent(up, c, t, x) /\ OkFrame(w, d, i, r)
               => OkFrame(up, d, i, r) \/ (t = "ok" /\ x = r)
    BY <1>4, SentOk
  <2> QED BY <1>1, <1>4, <2>1 DEF OkSent
<1>5. ASSUME NEW c \in Conns, NEW t \in {"ok", "failed"}, NEW x \in Runs,
             t = "ok" => job[x] = "ok", Report(c, t, x)
      PROVE  OkSent'
  <2>1. UpFrame(t, x)
    BY UpFrameTypes
  <2> QED BY <1>3, <1>4, <1>5, <2>1 DEF Report
<1>6. ASSUME UNCHANGED <<stage, job>> PROVE NotYet'
  BY <1>6 DEF NotYet
<1>7. ASSUME NEW c \in Conns, Dial(c) PROVE WorkInv'
  <2>1. UpFrame("hello", NoRun)
    BY UpFrameTypes
  <2>2. OkSent'
    BY <1>4, <1>7, <2>1 DEF Dial
  <2> QED BY <1>2, <1>6, <1>7, <2>2 DEF Dial
<1>8. ASSUME NEW c \in Conns, HandleHelloAck(c) \/ HandleCancel(c) \/ HandleUpdate(c) PROVE WorkInv'
  BY <1>2, <1>3, <1>6, <1>8 DEF HandleHelloAck, HandleCancel, HandleUpdate
<1>9. ASSUME NEW c \in Conns, LoopExit(c) \/ ChildExits(c) PROVE WorkInv'
  <2>1. UNCHANGED up
    BY <1>9 DEF LoopExit, ChildExits, wire
  <2>2. NotYet'
    BY <1>9 DEF LoopExit, ChildExits, ChildEnds, Working, NotYet
  <2> QED BY <1>2, <1>3, <2>1, <2>2
<1>10. ASSUME DaemonEnds PROVE WorkInv'
  <2>1. UNCHANGED up
    BY <1>10 DEF DaemonEnds, wire
  <2>2. NotYet'
    BY <1>10 DEF DaemonEnds, Working, NotYet
  <2> QED BY <1>2, <1>3, <2>1, <2>2
<1>11. ASSUME NEW c \in Conns, HandleRun(c) PROVE WorkInv'
  <2> DEFINE r == Head(down[c])[2]
  <2>1. Head(down[c]) = <<"run", r>> /\ r \in Runs
    <3>1. Head(down[c]) \in DownFrames /\ Head(down[c])[1] = "run"
      BY <1>11, TakenType DEF HandleRun, Arrives
    <3>2. \A f \in DownFrames : f[1] = "run" => f = <<"run", f[2]>> /\ f[2] \in Runs
      BY DEF DownFrames
    <3> QED BY <3>1, <3>2
  <2>2. stage[r] = "none"
    <3>1. down[c] \in Seq(DownFrames) /\ down[c] # <<>>
      BY <1>11 DEF HandleRun, Arrives
    <3>2. Len(down[c]) \in Nat /\ Len(down[c]) >= 1 /\ Head(down[c]) = down[c][1]
      BY <3>1, LenProperties, EmptySeq, HeadTailProperties
    <3>3. RunFrame(down, c, 1, r)
      BY <2>1, <3>2 DEF RunFrame
    <3> QED BY <2>1, <3>3 DEF RuntimeInv, Requests, RequestsFresh
  <2>3. OkSent'
    BY <1>3, <1>5, <1>11, <2>1 DEF HandleRun
  <2>4. NotYet'
    BY <1>11, <2>1, <2>2 DEF HandleRun, NotYet
  <2> QED BY <1>2, <2>3, <2>4
<1>12. ASSUME NEW r \in Runs, EnsureStarted(r) \/ BackoffEnds(r) \/ Write(r) \/ ReadAck(r)
       PROVE  WorkInv'
  <2>1. UNCHANGED up
    BY <1>12 DEF EnsureStarted, BackoffEnds, Write, ReadAck, wire
  <2>2. NotYet'
    BY <1>12 DEF EnsureStarted, BackoffEnds, Write, ReadAck, NotYet
  <2> QED BY <1>2, <1>3, <2>1, <2>2
<1>13. ASSUME NEW r \in Runs, GoroutineFails(r) \/ ReadResult(r) PROVE WorkInv'
  <2>1. via[r] \in Conns
    BY <1>13 DEF GoroutineFails, ReadResult, Arrived
  <2>2. OkSent'
    <3>1. CASE GoroutineFails(r)
      BY <1>5, <2>1, <3>1 DEF GoroutineFails
    <3>2. CASE ReadResult(r)
      BY <1>5, <2>1, <3>2 DEF ReadResult
    <3> QED BY <1>13, <3>1, <3>2
  <2>3. NotYet'
    BY <1>13 DEF GoroutineFails, ReadResult, NotYet
  <2> QED BY <1>2, <2>2, <2>3
<1>14. ASSUME NEW r \in Runs, ChildAccepts(r) \/ ChildFinishes(r) PROVE WorkInv'
  <2>1. UNCHANGED up
    BY <1>14 DEF ChildAccepts, ChildFinishes, wire
  <2>2. NotYet'
    BY <1>14 DEF ChildAccepts, ChildFinishes, NotYet
  <2> QED BY <1>2, <1>3, <2>1, <2>2
<1>15. ASSUME NEW c \in Conns, BeginUpdate(c) \/ UpdateFails(c) PROVE WorkInv'
  BY <1>2, <1>3, <1>6, <1>15 DEF BeginUpdate, UpdateFails, wire
<1> QED
  BY <1>7, <1>8, <1>9, <1>10, <1>11, <1>12, <1>13, <1>14, <1>15
  DEF DaemonStep, ConnectionStep, WorkStep, UpdateStep, WritePanics, UpdateRestarts, DaemonCrashes

LEMMA WorkInvHolds == Spec => []WorkInv
<1>1. Init => WorkInv
  <2> SUFFICES ASSUME Init PROVE WorkInv
    OBVIOUS
  <2>1. OkSent
    BY DEF Init, WireInit, OkSent, OkFrame
  <2> QED BY <2>1 DEF Init, LinkInit, RuntimeInit, WorkInv, NotYet, OkHeard
<1>2. TypeOK /\ Arrived /\ RuntimeInv /\ WorkInv /\ [Next]_vars => WorkInv'
  <2> SUFFICES ASSUME TypeOK, Arrived, RuntimeInv, WorkInv, [Next]_vars PROVE WorkInv'
    OBVIOUS
  <2>1. CASE UNCHANGED vars
    BY <2>1 DEF vars, wire, server, daemon, WorkInv, NotYet, OkSent, OkHeard, OkFrame
  <2> QED BY <2>1, ServerWork, DaemonWork DEF Next
<1>3. Spec => []Arrived
  <2>1. TypeOK /\ Arrived /\ [Next]_vars => (TypeOK /\ Arrived)'
    BY StepTypes
  <2> QED BY <2>1, InitTypes, PTL DEF Spec
<1> QED BY <1>1, <1>2, <1>3, TypesHold, RuntimeInvHolds, PTL DEF Spec

-----------------------------------------------------------------------------
(* Refinement *)

(* A step of the server settles a run, asks for one, or is a stutter. *)
LEMMA ServerRefines ==
  ASSUME TypeOK, LinkInv, WorkInv, ServerStep, UNCHANGED daemon
  PROVE  [Outcome!Proceed]_(Outcome!results)
<1> USE DEF TypeOK, LinkTypeOK
<1>1. UNCHANGED job
  BY DEF daemon
<1>2. ASSUME UNCHANGED <<sentOn, outcome>> PROVE UNCHANGED Outcome!results
  BY <1>1, <1>2 DEF Outcome!results
<1>3. ASSUME NEW c \in Conns,
             Accept(c) \/ HandleHello(c) \/ CloseSession(c) \/ Cleanup(c) \/ HandleResult(c)
      PROVE  UNCHANGED Outcome!results
  BY <1>2, <1>3 DEF Accept, HandleHello, CloseSession, Cleanup, HandleResult, drivers
<1>4. ASSUME NEW r \in Runs, TimerFires(r) \/ GraceEnds(r) PROVE UNCHANGED Outcome!results
  BY <1>2, <1>4 DEF TimerFires, GraceEnds
<1>5. ASSUME NEW r \in Runs, Refuse(r) PROVE Outcome!Settle(r, "offline")
  BY <1>1, <1>5 DEF Refuse, Outcome!Settle
<1>6. ASSUME NEW r \in Runs, Dispatch(r) PROVE Outcome!Ask(r)
  <2>1. registered # NoConn /\ sentOn' = [sentOn EXCEPT ![r] = registered] /\ UNCHANGED outcome
    BY <1>6 DEF Dispatch, Online
  <2>2. sentOn[r] = NoConn /\ outcome[r] = "pending"
    BY <1>6 DEF Dispatch
  <2>3. {q \in Runs : sentOn'[q] # NoConn} = {q \in Runs : sentOn[q] # NoConn} \cup {r}
    BY <2>1
  <2> QED BY <1>1, <2>1, <2>2, <2>3 DEF Outcome!Ask
<1>7. ASSUME NEW r \in Runs, NEW o \in Answers, Emitted(r, o)
      PROVE  Outcome!Settle(r, o) \/ UNCHANGED Outcome!results
  <2>1. CASE outcome[r] # "pending"
    BY <1>2, <1>7, <2>1 DEF Emitted
  <2>2. CASE outcome[r] = "pending"
    <3>1. outcome' = [outcome EXCEPT ![r] = o] /\ UNCHANGED sentOn
      BY <1>7, <2>2 DEF Emitted
    <3>2. sentOn[r] # NoConn /\ (o = "success" => job[r] = "ok")
      BY <1>7 DEF Emitted, LinkInv, Unsent, WorkInv, OkHeard
    <3> QED BY <1>1, <2>2, <3>1, <3>2 DEF Outcome!Settle
  <2> QED BY <2>1, <2>2
<1> QED
  BY <1>3, <1>4, <1>5, <1>6, <1>7
  DEF ServerStep, SessionStep, RunStep, Outcome!Proceed, Answers

(* A step of the daemon does the work of a run, or is a stutter. *)
LEMMA DaemonRefines ==
  ASSUME TypeOK, RuntimeInv, WorkInv, DaemonStep, UNCHANGED server
  PROVE  [Outcome!Proceed]_(Outcome!results)
<1> USE DEF TypeOK, RuntimeTypeOK
<1> DEFINE Done == {r \in Runs : job[r] = "ok"}
<1>1. UNCHANGED <<sentOn, outcome>>
  BY DEF server
<1>2. ASSUME Done' = Done PROVE UNCHANGED Outcome!results
  BY <1>1, <1>2 DEF Outcome!results
<1>3. \A r \in Runs : job[r] = "ok" => job'[r] = "ok"
  BY OkStays DEF WorkInv
<1>4. ASSUME NEW r \in Runs, ChildFinishes(r), job'[r] = "ok" PROVE Outcome!Work(r)
  <2>1. sentOn[r] # NoConn /\ job[r] # "ok"
    BY <1>4 DEF ChildFinishes, WorkInv, NotYet, RuntimeInv, SentFirst
  <2>2. Done' = Done \cup {r}
    BY <1>4 DEF ChildFinishes
  <2> QED BY <1>1, <2>1, <2>2 DEF Outcome!Work
<1>5. ASSUME \A r \in Runs : job'[r] = "ok" => job[r] = "ok" PROVE UNCHANGED Outcome!results
  BY <1>2, <1>3, <1>5
<1>6. ASSUME NEW r \in Runs, ChildFinishes(r), job'[r] # "ok" PROVE UNCHANGED Outcome!results
  BY <1>5, <1>6 DEF ChildFinishes
<1>7. ASSUME NEW c \in Conns,
             \/ Dial(c) \/ HandleHelloAck(c) \/ LoopExit(c) \/ HandleRun(c) \/ HandleCancel(c)
             \/ HandleUpdate(c) \/ ChildExits(c)
      PROVE  UNCHANGED Outcome!results
  BY <1>5, <1>7 DEF Dial, HandleHelloAck, LoopExit, HandleRun, HandleCancel, HandleUpdate,
                    ChildExits, ChildEnds
<1>8. ASSUME DaemonEnds PROVE UNCHANGED Outcome!results
  BY <1>5, <1>8 DEF DaemonEnds
<1>9. ASSUME NEW r \in Runs,
             \/ EnsureStarted(r) \/ BackoffEnds(r) \/ Write(r) \/ ReadAck(r)
             \/ GoroutineFails(r) \/ ReadResult(r) \/ ChildAccepts(r)
      PROVE  UNCHANGED Outcome!results
  BY <1>5, <1>9 DEF EnsureStarted, BackoffEnds, Write, ReadAck, GoroutineFails, ReadResult,
                    ChildAccepts
<1>10. ASSUME NEW c \in Conns, BeginUpdate(c) \/ UpdateFails(c) PROVE UNCHANGED Outcome!results
  BY <1>5, <1>10 DEF BeginUpdate, UpdateFails
<1> QED
  BY <1>4, <1>6, <1>7, <1>8, <1>9, <1>10
  DEF DaemonStep, ConnectionStep, WorkStep, UpdateStep, WritePanics, UpdateRestarts, DaemonCrashes, Outcome!Proceed

(* Over connections that break and processes that die, every run has one outcome,
   and it succeeds only if it was asked for and its work was done. *)
THEOREM RefinesRunOutcomes == Spec => ImplementsRunOutcomes
<1>1. Init => Outcome!Fresh
  BY DEF Init, LinkInit, RuntimeInit, Outcome!Fresh
<1>2. TypeOK /\ LinkInv /\ RuntimeInv /\ WorkInv /\ [Next]_vars
        => [Outcome!Proceed]_(Outcome!results)
  <2> SUFFICES ASSUME TypeOK, LinkInv, RuntimeInv, WorkInv, [Next]_vars
               PROVE  [Outcome!Proceed]_(Outcome!results)
    OBVIOUS
  <2>1. CASE UNCHANGED vars
    BY <2>1 DEF vars, server, daemon, Outcome!results
  <2> QED BY <2>1, ServerRefines, DaemonRefines DEF Next
<1> QED
  BY <1>1, <1>2, TypesHold, LinkInvHolds, RuntimeInvHolds, WorkInvHolds, PTL
  DEF Spec, ImplementsRunOutcomes, Outcome!OutcomesSpec

=============================================================================
