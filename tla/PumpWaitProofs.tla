---------------------------- MODULE PumpWaitProofs ----------------------------
(***************************************************************************)
(* Who holds the HCI mutex, who polls the pump and which command an ack    *)
(* belongs to, for any number of contexts, any queue depth and any bounds. *)
(***************************************************************************)
EXTENDS PumpWait, TLAPS

WaitPcs == {"enter", "check", "register", "recheck", "last", "park"}
PollPcs == {"polltx", "pollrx", "pollend"}

\* What a context is after fits where it is: only the run task's own arm
\* pumps without a wait.
GoalsOK ==
  /\ \A x \in Ctxs : pc[x] \in WaitPcs => goal[x] # "none"
  /\ \A x \in Apps : pc[x] \in PollPcs \cup {"pump"} => goal[x] # "none"
  /\ \A x \in Ctxs : pc[x] \in Resting \cup {"events"} => goal[x] = "none"
  /\ \A x \in Ctxs : pc[x] = "send" => goal[x] = "mutex"
  /\ \A x \in Ctxs : pc[x] = "unlock" => goal[x] # "sem"
  /\ \A x \in Apps : pc[x] \notin {"await", "off", "events"}
  /\ pc[Run] # "idle"
  /\ drops = 0 => pc[Run] # "off"

\* A context between mutex_pend's return and mutex_release.
Holds(x) == goal[x] = "sem" \/ pc[x] \in {"send", "unlock"}

MutexOK == \A x \in Ctxs : Holds(x) => mu = x

\* The run future dies only where no other context can be inside its pump.
DropsAlone == ~budget.threads \/ drops = 0

PumpOK ==
  DropsAlone =>
    /\ \A x, y \in Ctxs : pc[x] \in PollPcs /\ pc[y] \in PollPcs => x = y
    /\ \A x \in Ctxs : pc[x] \in PollPcs => busy /\ tx # "off"
    /\ fut => tx # "off"
\* The flags of TypeOK, and the rest of it.
FlagsOK ==
  /\ token \in [Ctxs -> BOOLEAN]
  /\ woken \in BOOLEAN /\ slot \in BOOLEAN /\ ctl \in BOOLEAN
  /\ fut \in BOOLEAN /\ busy \in BOOLEAN

DataOK ==
  /\ pc \in [Ctxs -> Resting \cup {"enter", "check", "register", "recheck", "pump", "polltx",
                                   "pollrx", "pollend", "last", "park", "send",
                                   "unlock", "events"}]
  /\ goal \in [Ctxs -> {"none", "mutex", "sem"}]
  /\ evq \in Nat
  /\ mu \in Ctxs \cup {NULL}
  /\ sem \in Nat
  /\ semWaker \in Ctxs \cup {NULL}
  /\ cmdq \in 0..CMD_QUEUE_DEPTH
  /\ qWaker \in Ctxs \cup {Task, NULL}
  /\ tx \in {"recv", "exec", "off"}
  /\ slotWaker \in Ctxs \cup {Task, NULL}
  /\ inbox \in Seq({"ack", "evt"})
  /\ ioWaker \in Ctxs \cup {Task, NULL}
  /\ budget \in Budgets
  /\ calls \in 0..budget.calls /\ packets \in 0..budget.packets
  /\ timeouts \in 0..budget.timeouts /\ drops \in 0..budget.drops


IInv == TypeOK /\ GoalsOK /\ MutexOK /\ PumpOK /\ AcksMatchWaiters

\* The initial states satisfy the invariant.
LEMMA InitOK == Init => IInv
<1> SUFFICES ASSUME Init PROVE IInv
  OBVIOUS
<1>1. TypeOK
  <2>1. FlagsOK
    BY DEF Init, FlagsOK
  <2>2. DataOK
    BY PumpAssumption DEF Init, DataOK, Resting, Ctxs, Budget
  <2> QED
    BY <2>1, <2>2 DEF TypeOK, FlagsOK, DataOK
<1>2. GoalsOK /\ MutexOK
  BY PumpAssumption DEF Init, GoalsOK, MutexOK, Holds, PollPcs, WaitPcs, Resting, Ctxs
<1>3. PumpOK
  BY DEF Init, PumpOK, PollPcs, Ctxs
<1>4. AcksMatchWaiters
  BY DEF Init, AcksMatchWaiters, OnTheWay, Awaited, Executing
<1> QED
  BY <1>1, <1>2, <1>3, <1>4 DEF IInv

\* Every step keeps the flags Boolean.
LEMMA FlagsStep == IInv /\ [Next]_vars => FlagsOK'
<1> SUFFICES ASSUME IInv, [Next]_vars PROVE FlagsOK'
  OBVIOUS
<1> USE PumpAssumption DEF IInv, Ctxs
<1>1. CASE UNCHANGED vars
  BY <1>1 DEF vars, hostVars, pumpVars, queueVars, slotVars, boundVars,
         TypeOK, FlagsOK
<1>2. ASSUME NEW x \in Ctxs, SendCmd(x) PROVE FlagsOK'
  <2>1. CASE cmdq < CMD_QUEUE_DEPTH
    BY <1>2, <2>1 DEF SendCmd, Wake, hostVars, pumpVars, slotVars, TypeOK, FlagsOK
  <2>2. CASE ~(cmdq < CMD_QUEUE_DEPTH)
    BY <1>2, <2>2 DEF SendCmd, Wake, hostVars, pumpVars, slotVars, TypeOK, FlagsOK
  <2> QED
    BY <2>1, <2>2
<1>3. ASSUME NEW x \in Ctxs, MutexRelease(x) PROVE FlagsOK'
  BY <1>3 DEF MutexRelease, pumpVars, slotVars, TypeOK, FlagsOK
<1>4. ASSUME NEW x \in Ctxs, NEW at \in WaitPcs, NEW else \in {"register", "pump", "park"},
             Test(x, at, else) PROVE FlagsOK'
  BY <1>4 DEF Test, Ready, Granted, pumpVars, slotVars, TypeOK, FlagsOK
<1>5. ASSUME NEW x \in Ctxs, Register(x) PROVE FlagsOK'
  BY <1>5 DEF Register, pumpVars, slotVars, TypeOK, FlagsOK
<1>6. ASSUME NEW x \in Ctxs, Park(x) PROVE FlagsOK'
  BY <1>6 DEF Park, pumpVars, slotVars, TypeOK, FlagsOK
<1>7. ASSUME NEW x \in Ctxs, PumpBegin(x) PROVE FlagsOK'
  BY <1>7 DEF PumpBegin, pumpVars, slotVars, TypeOK, FlagsOK
<1>8. ASSUME NEW x \in Ctxs, TxReceive(x) PROVE FlagsOK'
  <2>1. CASE cmdq > 0
    BY <1>8, <2>1 DEF TxReceive, Wake, slotVars, TypeOK, FlagsOK
  <2>2. CASE ~(cmdq > 0)
    BY <1>8, <2>2 DEF TxReceive, Wake, slotVars, TypeOK, FlagsOK
  <2> QED
    BY <2>1, <2>2
<1>9. ASSUME NEW x \in Ctxs, TxExec(x) PROVE FlagsOK'
  BY <1>9 DEF TxExec, Wake, pumpVars, slotVars, TypeOK, FlagsOK
<1>10. ASSUME NEW x \in Ctxs, RxRead(x) PROVE FlagsOK'
  BY <1>10 DEF RxRead, Wake, pumpVars, slotVars, TypeOK, FlagsOK
<1>11. ASSUME NEW x \in Ctxs, PumpEnd(x) PROVE FlagsOK'
  BY <1>11 DEF PumpEnd, pumpVars, slotVars, TypeOK, FlagsOK
<1>12. ASSUME NEW x \in Ctxs, Expire(x) PROVE FlagsOK'
  BY <1>12 DEF Expire, Ready, pumpVars, slotVars, TypeOK, FlagsOK
<1>13. ASSUME NEW x \in Apps, CallHost(x) PROVE FlagsOK'
  BY <1>13 DEF CallHost, pumpVars, slotVars, TypeOK, FlagsOK
<1>14. ASSUME BeginPoll PROVE FlagsOK'
  BY <1>14 DEF BeginPoll, pumpVars, slotVars, TypeOK, FlagsOK
<1>15. ASSUME RunEvent PROVE FlagsOK'
  BY <1>15 DEF RunEvent, pumpVars, slotVars, TypeOK, FlagsOK
<1>16. ASSUME EventsDone PROVE FlagsOK'
  BY <1>16 DEF EventsDone, pumpVars, slotVars, TypeOK, FlagsOK
<1>17. ASSUME DropRun PROVE FlagsOK'
  BY <1>17 DEF DropRun, TypeOK, FlagsOK
<1>18. ASSUME StartRun PROVE FlagsOK'
  BY <1>18 DEF StartRun, TypeOK, FlagsOK
<1>19. ASSUME CtlAnswer PROVE FlagsOK'
  BY <1>19 DEF CtlAnswer, Send, Wake, pumpVars, slotVars, TypeOK, FlagsOK
<1>20. ASSUME CtlPacket PROVE FlagsOK'
  BY <1>20 DEF CtlPacket, Send, Wake, pumpVars, slotVars, TypeOK, FlagsOK
<1> QED
  BY <1>1, <1>2, <1>3, <1>4, <1>5, <1>6, <1>7, <1>8, <1>9, <1>10, <1>11,
         <1>12, <1>13, <1>14, <1>15, <1>16, <1>17, <1>18, <1>19, <1>20
     DEF Next, Step, Enter, Check, Recheck, LastCheck, WaitPcs

\* Every step keeps the other types.
LEMMA DataStep == IInv /\ [Next]_vars => DataOK'
<1> SUFFICES ASSUME IInv, [Next]_vars PROVE DataOK'
  OBVIOUS
<1> USE PumpAssumption DEF IInv, Ctxs
<1>1. CASE UNCHANGED vars
  BY <1>1 DEF vars, hostVars, pumpVars, queueVars, slotVars, boundVars,
         TypeOK, DataOK
<1>2. ASSUME NEW x \in Ctxs, SendCmd(x) PROVE DataOK'
  BY <1>2, SMTT(30) DEF SendCmd, Goto, hostVars, pumpVars, queueVars, boundVars, TypeOK,
         DataOK, Resting, Budget, WaitPcs
<1>3. ASSUME NEW x \in Ctxs, MutexRelease(x) PROVE DataOK'
  BY <1>3 DEF MutexRelease, Goto, hostVars, pumpVars, queueVars, boundVars,
         TypeOK, DataOK, Resting, Budget, WaitPcs
<1>4. ASSUME NEW x \in Ctxs, NEW at \in WaitPcs, NEW else \in {"register", "pump", "park"},
             Test(x, at, else) PROVE DataOK'
  BY <1>4, SMTT(30) DEF Test, Ready, Granted, Goto, hostVars, pumpVars, queueVars,
         boundVars, TypeOK, DataOK, Resting, Budget, WaitPcs
<1>5. ASSUME NEW x \in Ctxs, Register(x) PROVE DataOK'
  BY <1>5 DEF Register, Goto, hostVars, pumpVars, queueVars, boundVars,
         TypeOK, DataOK, Resting, Budget, WaitPcs
<1>6. ASSUME NEW x \in Ctxs, Park(x) PROVE DataOK'
  BY <1>6 DEF Park, Goto, hostVars, pumpVars, queueVars, boundVars, TypeOK,
         DataOK, Resting, Budget, WaitPcs
<1>7. ASSUME NEW x \in Ctxs, PumpBegin(x) PROVE DataOK'
  BY <1>7 DEF PumpBegin, AfterPump, Goto, hostVars, pumpVars, queueVars,
         boundVars, TypeOK, DataOK, Resting, Budget, WaitPcs
<1>8. ASSUME NEW x \in Ctxs, TxReceive(x) PROVE DataOK'
  BY <1>8 DEF TxReceive, WakerOf, Goto, hostVars, pumpVars, queueVars,
         boundVars, TypeOK, DataOK, Resting, Budget, WaitPcs
<1>9. ASSUME NEW x \in Ctxs, TxExec(x) PROVE DataOK'
  BY <1>9 DEF TxExec, WakerOf, Goto, hostVars, pumpVars, queueVars, boundVars,
         TypeOK, DataOK, Resting, Budget, WaitPcs
<1>10. ASSUME NEW x \in Ctxs, RxRead(x) PROVE DataOK'
  <2>1. DataOK
    BY DEF TypeOK, DataOK
  <2>2. CASE inbox # << >>
    <3>1. Head(inbox) \in {"ack", "evt"} /\ Tail(inbox) \in Seq({"ack", "evt"})
      BY <2>1, <2>2 DEF DataOK
    <3> QED
      BY <1>10, <2>1, <2>2, <3>1 DEF RxRead, queueVars, boundVars, DataOK
  <2>3. CASE inbox = << >>
    BY <1>10, <2>1, <2>3 DEF RxRead, Goto, WakerOf, queueVars, boundVars, DataOK
  <2> QED
    BY <2>2, <2>3
<1>11. ASSUME NEW x \in Ctxs, PumpEnd(x) PROVE DataOK'
  BY <1>11 DEF PumpEnd, AfterPump, Goto, hostVars, pumpVars, queueVars,
         boundVars, TypeOK, DataOK, Resting, Budget, WaitPcs
<1>12. ASSUME NEW x \in Ctxs, Expire(x) PROVE DataOK'
  BY <1>12 DEF Expire, Ready, Goto, hostVars, pumpVars, queueVars, boundVars,
         TypeOK, DataOK, Resting, Budget, WaitPcs
<1>13. ASSUME NEW x \in Apps, CallHost(x) PROVE DataOK'
  BY <1>13 DEF CallHost, Goto, hostVars, pumpVars, queueVars, boundVars,
         TypeOK, DataOK, Resting, Budget, WaitPcs
<1>14. ASSUME BeginPoll PROVE DataOK'
  BY <1>14 DEF BeginPoll, Goto, hostVars, pumpVars, queueVars, boundVars,
         TypeOK, DataOK, Resting, Budget, WaitPcs
<1>15. ASSUME RunEvent PROVE DataOK'
  BY <1>15 DEF RunEvent, Goto, hostVars, pumpVars, queueVars, boundVars,
         TypeOK, DataOK, Resting, Budget, WaitPcs
<1>16. ASSUME EventsDone PROVE DataOK'
  BY <1>16 DEF EventsDone, Goto, hostVars, pumpVars, queueVars, boundVars,
         TypeOK, DataOK, Resting, Budget, WaitPcs
<1>17. ASSUME DropRun PROVE DataOK'
  BY <1>17 DEF DropRun, Goto, hostVars, pumpVars, queueVars, boundVars,
         TypeOK, DataOK, Resting, Budget, WaitPcs
<1>18. ASSUME StartRun PROVE DataOK'
  BY <1>18 DEF StartRun, Goto, hostVars, pumpVars, queueVars, boundVars,
         TypeOK, DataOK, Resting, Budget, WaitPcs
<1>19. ASSUME CtlAnswer PROVE DataOK'
  BY <1>19 DEF CtlAnswer, Send, hostVars, pumpVars, queueVars, boundVars,
         TypeOK, DataOK, Resting, Budget, WaitPcs
<1>20. ASSUME CtlPacket PROVE DataOK'
  BY <1>20 DEF CtlPacket, Send, hostVars, pumpVars, queueVars, boundVars,
         TypeOK, DataOK, Resting, Budget, WaitPcs
<1> QED
  BY <1>1, <1>2, <1>3, <1>4, <1>5, <1>6, <1>7, <1>8, <1>9, <1>10, <1>11,
         <1>12, <1>13, <1>14, <1>15, <1>16, <1>17, <1>18, <1>19, <1>20
     DEF Next, Step, Enter, Check, Recheck, LastCheck, WaitPcs

\* Every step keeps goals and program counters in agreement.
LEMMA GoalsStep == IInv /\ [Next]_vars => GoalsOK'
<1> SUFFICES ASSUME IInv, [Next]_vars PROVE GoalsOK'
  OBVIOUS
<1> USE PumpAssumption DEF IInv, Ctxs
<1>1. CASE UNCHANGED vars
  BY <1>1 DEF vars, hostVars, pumpVars, queueVars, slotVars, boundVars,
         TypeOK, GoalsOK
<1>2. ASSUME NEW x \in Ctxs, SendCmd(x) PROVE GoalsOK'
  BY <1>2 DEF SendCmd, Goto, boundVars, TypeOK, GoalsOK, Resting, PollPcs,
         WaitPcs
<1>3. ASSUME NEW x \in Ctxs, MutexRelease(x) PROVE GoalsOK'
  BY <1>3 DEF MutexRelease, Goto, boundVars, TypeOK, GoalsOK, Resting,
         PollPcs, WaitPcs
<1>4. ASSUME NEW x \in Ctxs, NEW at \in WaitPcs, NEW else \in {"register", "pump", "park"},
             Test(x, at, else) PROVE GoalsOK'
  BY <1>4 DEF Test, Ready, Granted, Goto, boundVars, TypeOK, GoalsOK, Resting,
         PollPcs, WaitPcs
<1>5. ASSUME NEW x \in Ctxs, Register(x) PROVE GoalsOK'
  BY <1>5 DEF Register, Goto, boundVars, TypeOK, GoalsOK, Resting, PollPcs,
         WaitPcs
<1>6. ASSUME NEW x \in Ctxs, Park(x) PROVE GoalsOK'
  BY <1>6 DEF Park, Goto, boundVars, TypeOK, GoalsOK, Resting, PollPcs,
         WaitPcs
<1>7. ASSUME NEW x \in Ctxs, PumpBegin(x) PROVE GoalsOK'
  BY <1>7 DEF PumpBegin, AfterPump, Goto, boundVars, TypeOK, GoalsOK, Resting,
         PollPcs, WaitPcs
<1>8. ASSUME NEW x \in Ctxs, TxReceive(x) PROVE GoalsOK'
  BY <1>8 DEF TxReceive, Goto, boundVars, TypeOK, GoalsOK, Resting, PollPcs,
         WaitPcs
<1>9. ASSUME NEW x \in Ctxs, TxExec(x) PROVE GoalsOK'
  BY <1>9 DEF TxExec, Goto, boundVars, TypeOK, GoalsOK, Resting, PollPcs,
         WaitPcs
<1>10. ASSUME NEW x \in Ctxs, RxRead(x) PROVE GoalsOK'
  BY <1>10 DEF RxRead, Goto, boundVars, TypeOK, GoalsOK, Resting, PollPcs,
         WaitPcs
<1>11. ASSUME NEW x \in Ctxs, PumpEnd(x) PROVE GoalsOK'
  BY <1>11 DEF PumpEnd, AfterPump, Goto, boundVars, TypeOK, GoalsOK, Resting,
         PollPcs, WaitPcs
<1>12. ASSUME NEW x \in Ctxs, Expire(x) PROVE GoalsOK'
  BY <1>12 DEF Expire, Ready, Goto, TypeOK, GoalsOK, Resting, PollPcs, WaitPcs
<1>13. ASSUME NEW x \in Apps, CallHost(x) PROVE GoalsOK'
  BY <1>13 DEF CallHost, Goto, TypeOK, GoalsOK, Resting, PollPcs, WaitPcs
<1>14. ASSUME BeginPoll PROVE GoalsOK'
  BY <1>14 DEF BeginPoll, Goto, boundVars, TypeOK, GoalsOK, Resting, PollPcs,
         WaitPcs
<1>15. ASSUME RunEvent PROVE GoalsOK'
  BY <1>15 DEF RunEvent, Goto, TypeOK, GoalsOK, Resting, PollPcs, WaitPcs
<1>16. ASSUME EventsDone PROVE GoalsOK'
  BY <1>16 DEF EventsDone, Goto, boundVars, TypeOK, GoalsOK, Resting, PollPcs,
         WaitPcs
<1>17. ASSUME DropRun PROVE GoalsOK'
  BY <1>17 DEF DropRun, Goto, TypeOK, GoalsOK, Resting, PollPcs, WaitPcs
<1>18. ASSUME StartRun PROVE GoalsOK'
  BY <1>18 DEF StartRun, Goto, boundVars, TypeOK, GoalsOK, Resting, PollPcs,
         WaitPcs
<1>19. ASSUME CtlAnswer PROVE GoalsOK'
  BY <1>19 DEF CtlAnswer, boundVars, TypeOK, GoalsOK, Resting, PollPcs,
         WaitPcs
<1>20. ASSUME CtlPacket PROVE GoalsOK'
  BY <1>20 DEF CtlPacket, TypeOK, GoalsOK, Resting, PollPcs, WaitPcs
<1> QED
  BY <1>1, <1>2, <1>3, <1>4, <1>5, <1>6, <1>7, <1>8, <1>9, <1>10, <1>11,
         <1>12, <1>13, <1>14, <1>15, <1>16, <1>17, <1>18, <1>19, <1>20
     DEF Next, Step, Enter, Check, Recheck, LastCheck, WaitPcs

\* Every step keeps the HCI mutex with the one context that holds it.
LEMMA MutexStep == IInv /\ [Next]_vars => MutexOK'
<1> SUFFICES ASSUME IInv, [Next]_vars PROVE MutexOK'
  OBVIOUS
<1> USE PumpAssumption DEF IInv, Ctxs
<1>1. CASE UNCHANGED vars
  BY <1>1 DEF vars, hostVars, pumpVars, queueVars, slotVars, boundVars,
         TypeOK, GoalsOK, MutexOK, Holds
<1>2. ASSUME NEW x \in Ctxs, SendCmd(x) PROVE MutexOK'
  BY <1>2 DEF SendCmd, Goto, hostVars, TypeOK, GoalsOK, MutexOK, Holds,
         Resting, PollPcs, WaitPcs
<1>3. ASSUME NEW x \in Ctxs, MutexRelease(x) PROVE MutexOK'
  BY <1>3 DEF MutexRelease, Goto, TypeOK, GoalsOK, MutexOK, Holds, Resting,
         PollPcs, WaitPcs
<1>4. ASSUME NEW x \in Ctxs, NEW at \in WaitPcs, NEW else \in {"register", "pump", "park"},
             Test(x, at, else) PROVE MutexOK'
  BY <1>4 DEF Test, Ready, Granted, Goto, TypeOK, GoalsOK, MutexOK, Holds,
         Resting, PollPcs, WaitPcs
<1>5. ASSUME NEW x \in Ctxs, Register(x) PROVE MutexOK'
  BY <1>5 DEF Register, Goto, TypeOK, GoalsOK, MutexOK, Holds, Resting,
         PollPcs, WaitPcs
<1>6. ASSUME NEW x \in Ctxs, Park(x) PROVE MutexOK'
  BY <1>6 DEF Park, Goto, hostVars, TypeOK, GoalsOK, MutexOK, Holds, Resting,
         PollPcs, WaitPcs
<1>7. ASSUME NEW x \in Ctxs, PumpBegin(x) PROVE MutexOK'
  BY <1>7 DEF PumpBegin, AfterPump, Goto, hostVars, TypeOK, GoalsOK, MutexOK,
         Holds, Resting, PollPcs, WaitPcs
<1>8. ASSUME NEW x \in Ctxs, TxReceive(x) PROVE MutexOK'
  BY <1>8 DEF TxReceive, Goto, hostVars, TypeOK, GoalsOK, MutexOK, Holds,
         Resting, PollPcs, WaitPcs
<1>9. ASSUME NEW x \in Ctxs, TxExec(x) PROVE MutexOK'
  BY <1>9 DEF TxExec, Goto, TypeOK, GoalsOK, MutexOK, Holds, Resting, PollPcs,
         WaitPcs
<1>10. ASSUME NEW x \in Ctxs, RxRead(x) PROVE MutexOK'
  BY <1>10 DEF RxRead, Goto, TypeOK, GoalsOK, MutexOK, Holds, Resting,
         PollPcs, WaitPcs
<1>11. ASSUME NEW x \in Ctxs, PumpEnd(x) PROVE MutexOK'
  BY <1>11 DEF PumpEnd, AfterPump, Goto, hostVars, TypeOK, GoalsOK, MutexOK,
         Holds, Resting, PollPcs, WaitPcs
<1>12. ASSUME NEW x \in Ctxs, Expire(x) PROVE MutexOK'
  BY <1>12 DEF Expire, Ready, Goto, hostVars, TypeOK, GoalsOK, MutexOK, Holds,
         Resting, PollPcs, WaitPcs
<1>13. ASSUME NEW x \in Apps, CallHost(x) PROVE MutexOK'
  BY <1>13 DEF CallHost, Goto, hostVars, TypeOK, GoalsOK, MutexOK, Holds,
         Resting, PollPcs, WaitPcs
<1>14. ASSUME BeginPoll PROVE MutexOK'
  BY <1>14 DEF BeginPoll, Goto, hostVars, TypeOK, GoalsOK, MutexOK, Holds,
         Resting, PollPcs, WaitPcs
<1>15. ASSUME RunEvent PROVE MutexOK'
  BY <1>15 DEF RunEvent, Goto, TypeOK, GoalsOK, MutexOK, Holds, Resting,
         PollPcs, WaitPcs
<1>16. ASSUME EventsDone PROVE MutexOK'
  BY <1>16 DEF EventsDone, Goto, hostVars, TypeOK, GoalsOK, MutexOK, Holds,
         Resting, PollPcs, WaitPcs
<1>17. ASSUME DropRun PROVE MutexOK'
  BY <1>17 DEF DropRun, Goto, hostVars, TypeOK, GoalsOK, MutexOK, Holds,
         Resting, PollPcs, WaitPcs
<1>18. ASSUME StartRun PROVE MutexOK'
  BY <1>18 DEF StartRun, Goto, hostVars, TypeOK, GoalsOK, MutexOK, Holds,
         Resting, PollPcs, WaitPcs
<1>19. ASSUME CtlAnswer PROVE MutexOK'
  BY <1>19 DEF CtlAnswer, hostVars, TypeOK, GoalsOK, MutexOK, Holds, Resting,
         PollPcs, WaitPcs
<1>20. ASSUME CtlPacket PROVE MutexOK'
  BY <1>20 DEF CtlPacket, hostVars, TypeOK, GoalsOK, MutexOK, Holds, Resting,
         PollPcs, WaitPcs
<1> QED
  BY <1>1, <1>2, <1>3, <1>4, <1>5, <1>6, <1>7, <1>8, <1>9, <1>10, <1>11,
         <1>12, <1>13, <1>14, <1>15, <1>16, <1>17, <1>18, <1>19, <1>20
     DEF Next, Step, Enter, Check, Recheck, LastCheck, WaitPcs

\* Every step keeps the pump with the one context that polls it.
LEMMA PumpStep == IInv /\ [Next]_vars => PumpOK'
<1> SUFFICES ASSUME IInv, [Next]_vars PROVE PumpOK'
  OBVIOUS
<1> USE PumpAssumption DEF IInv, Ctxs
<1>1. CASE UNCHANGED vars
  BY <1>1 DEF vars, hostVars, pumpVars, queueVars, slotVars, boundVars,
         TypeOK, GoalsOK, PumpOK, DropsAlone
<1>2. ASSUME NEW x \in Ctxs, SendCmd(x) PROVE PumpOK'
  BY <1>2 DEF SendCmd, Goto, pumpVars, slotVars, boundVars, TypeOK, GoalsOK,
         PumpOK, DropsAlone, Resting, PollPcs, WaitPcs, Runs
<1>3. ASSUME NEW x \in Ctxs, MutexRelease(x) PROVE PumpOK'
  BY <1>3 DEF MutexRelease, Goto, pumpVars, slotVars, boundVars, TypeOK,
         GoalsOK, PumpOK, DropsAlone, Resting, PollPcs, WaitPcs, Runs
<1>4. ASSUME NEW x \in Ctxs, NEW at \in WaitPcs, NEW else \in {"register", "pump", "park"},
             Test(x, at, else) PROVE PumpOK'
  BY <1>4 DEF Test, Ready, Granted, Goto, pumpVars, slotVars, boundVars,
         TypeOK, GoalsOK, PumpOK, DropsAlone, Resting, PollPcs, WaitPcs, Runs
<1>5. ASSUME NEW x \in Ctxs, Register(x) PROVE PumpOK'
  BY <1>5 DEF Register, Goto, pumpVars, slotVars, boundVars, TypeOK, GoalsOK,
         PumpOK, DropsAlone, Resting, PollPcs, WaitPcs, Runs
<1>6. ASSUME NEW x \in Ctxs, Park(x) PROVE PumpOK'
  BY <1>6 DEF Park, Goto, pumpVars, slotVars, boundVars, TypeOK, GoalsOK,
         PumpOK, DropsAlone, Resting, PollPcs, WaitPcs, Runs
<1>7. ASSUME NEW x \in Ctxs, PumpBegin(x) PROVE PumpOK'
  BY <1>7 DEF PumpBegin, AfterPump, Goto, pumpVars, slotVars, boundVars,
         TypeOK, GoalsOK, PumpOK, DropsAlone, Resting, PollPcs, WaitPcs, Runs
<1>8. ASSUME NEW x \in Ctxs, TxReceive(x) PROVE PumpOK'
  BY <1>8 DEF TxReceive, Goto, pumpVars, slotVars, boundVars, TypeOK, GoalsOK,
         PumpOK, DropsAlone, Resting, PollPcs, WaitPcs, Runs
<1>9. ASSUME NEW x \in Ctxs, TxExec(x) PROVE PumpOK'
  BY <1>9 DEF TxExec, Goto, pumpVars, slotVars, boundVars, TypeOK, GoalsOK,
         PumpOK, DropsAlone, Resting, PollPcs, WaitPcs, Runs
<1>10. ASSUME NEW x \in Ctxs, RxRead(x) PROVE PumpOK'
  BY <1>10 DEF RxRead, Goto, pumpVars, slotVars, boundVars, TypeOK, GoalsOK,
         PumpOK, DropsAlone, Resting, PollPcs, WaitPcs, Runs
<1>11. ASSUME NEW x \in Ctxs, PumpEnd(x) PROVE PumpOK'
  BY <1>11 DEF PumpEnd, AfterPump, Goto, pumpVars, slotVars, boundVars,
         TypeOK, GoalsOK, PumpOK, DropsAlone, Resting, PollPcs, WaitPcs, Runs
<1>12. ASSUME NEW x \in Ctxs, Expire(x) PROVE PumpOK'
  BY <1>12 DEF Expire, Ready, Goto, pumpVars, slotVars, boundVars, TypeOK,
         GoalsOK, PumpOK, DropsAlone, Resting, PollPcs, WaitPcs, Runs
<1>13. ASSUME NEW x \in Apps, CallHost(x) PROVE PumpOK'
  BY <1>13 DEF CallHost, Goto, pumpVars, slotVars, boundVars, TypeOK, GoalsOK,
         PumpOK, DropsAlone, Resting, PollPcs, WaitPcs, Runs
<1>14. ASSUME BeginPoll PROVE PumpOK'
  BY <1>14 DEF BeginPoll, Goto, pumpVars, slotVars, boundVars, TypeOK,
         GoalsOK, PumpOK, DropsAlone, Resting, PollPcs, WaitPcs, Runs
<1>15. ASSUME RunEvent PROVE PumpOK'
  BY <1>15 DEF RunEvent, Goto, pumpVars, slotVars, boundVars, TypeOK, GoalsOK,
         PumpOK, DropsAlone, Resting, PollPcs, WaitPcs, Runs
<1>16. ASSUME EventsDone PROVE PumpOK'
  BY <1>16 DEF EventsDone, Goto, pumpVars, slotVars, boundVars, TypeOK,
         GoalsOK, PumpOK, DropsAlone, Resting, PollPcs, WaitPcs, Runs
<1>17. ASSUME DropRun PROVE PumpOK'
  BY <1>17 DEF DropRun, Goto, TypeOK, GoalsOK, PumpOK, DropsAlone, Resting,
         PollPcs, WaitPcs, Runs
<1>18. ASSUME StartRun PROVE PumpOK'
  BY <1>18 DEF StartRun, Goto, pumpVars, slotVars, boundVars, TypeOK, GoalsOK,
         PumpOK, DropsAlone, Resting, PollPcs, WaitPcs, Runs
<1>19. ASSUME CtlAnswer PROVE PumpOK'
  BY <1>19 DEF CtlAnswer, pumpVars, slotVars, boundVars, TypeOK, GoalsOK,
         PumpOK, DropsAlone, Resting, PollPcs, WaitPcs
<1>20. ASSUME CtlPacket PROVE PumpOK'
  BY <1>20 DEF CtlPacket, pumpVars, slotVars, boundVars, TypeOK, GoalsOK,
         PumpOK, DropsAlone, Resting, PollPcs, WaitPcs
<1> QED
  BY <1>1, <1>2, <1>3, <1>4, <1>5, <1>6, <1>7, <1>8, <1>9, <1>10, <1>11,
         <1>12, <1>13, <1>14, <1>15, <1>16, <1>17, <1>18, <1>19, <1>20
     DEF Next, Step, Enter, Check, Recheck, LastCheck, WaitPcs

\* Every step keeps the commands on their way as many as the waits allow.
LEMMA AcksStep == IInv /\ [Next]_vars => AcksMatchWaiters'
<1> SUFFICES ASSUME IInv, [Next]_vars PROVE AcksMatchWaiters'
  OBVIOUS
<1> USE PumpAssumption DEF IInv, Ctxs
<1>1. CASE UNCHANGED vars
  BY <1>1 DEF vars, hostVars, pumpVars, queueVars, slotVars, boundVars,
         TypeOK, GoalsOK, MutexOK, Holds, AcksMatchWaiters, OnTheWay, Awaited, Executing
<1>2. ASSUME NEW x \in Ctxs, SendCmd(x) PROVE AcksMatchWaiters'
  BY <1>2 DEF SendCmd, hostVars, pumpVars, queueVars, boundVars, TypeOK,
         GoalsOK, MutexOK, Holds, AcksMatchWaiters, OnTheWay, Awaited, Executing, WaitPcs
<1>3. ASSUME NEW x \in Ctxs, MutexRelease(x) PROVE AcksMatchWaiters'
  BY <1>3 DEF MutexRelease, hostVars, pumpVars, queueVars, boundVars, TypeOK,
         GoalsOK, MutexOK, Holds, AcksMatchWaiters, OnTheWay, Awaited, Executing, WaitPcs
<1>4. ASSUME NEW x \in Ctxs, NEW at \in WaitPcs, NEW else \in {"register", "pump", "park"},
             Test(x, at, else) PROVE AcksMatchWaiters'
  BY <1>4 DEF Test, Ready, Granted, hostVars, pumpVars, queueVars, boundVars,
         TypeOK, GoalsOK, MutexOK, Holds, AcksMatchWaiters, OnTheWay, Awaited, Executing, WaitPcs
<1>5. ASSUME NEW x \in Ctxs, Register(x) PROVE AcksMatchWaiters'
  BY <1>5 DEF Register, hostVars, pumpVars, queueVars, boundVars, TypeOK,
         GoalsOK, MutexOK, Holds, AcksMatchWaiters, OnTheWay, Awaited, Executing, WaitPcs
<1>6. ASSUME NEW x \in Ctxs, Park(x) PROVE AcksMatchWaiters'
  BY <1>6 DEF Park, hostVars, pumpVars, queueVars, boundVars, TypeOK, GoalsOK,
         MutexOK, Holds, AcksMatchWaiters, OnTheWay, Awaited, Executing, WaitPcs
<1>7. ASSUME NEW x \in Ctxs, PumpBegin(x) PROVE AcksMatchWaiters'
  BY <1>7 DEF PumpBegin, hostVars, pumpVars, queueVars, boundVars, TypeOK,
         GoalsOK, MutexOK, Holds, AcksMatchWaiters, OnTheWay, Awaited, Executing, WaitPcs
<1>8. ASSUME NEW x \in Ctxs, TxReceive(x) PROVE AcksMatchWaiters'
  BY <1>8 DEF TxReceive, hostVars, pumpVars, queueVars, boundVars, TypeOK,
         GoalsOK, MutexOK, Holds, AcksMatchWaiters, OnTheWay, Awaited, Executing, WaitPcs
<1>9. ASSUME NEW x \in Ctxs, TxExec(x) PROVE AcksMatchWaiters'
  BY <1>9 DEF TxExec, hostVars, pumpVars, queueVars, boundVars, TypeOK,
         GoalsOK, MutexOK, Holds, AcksMatchWaiters, OnTheWay, Awaited, Executing, WaitPcs
<1>10. ASSUME NEW x \in Ctxs, RxRead(x) PROVE AcksMatchWaiters'
  BY <1>10 DEF RxRead, hostVars, pumpVars, queueVars, boundVars, TypeOK,
         GoalsOK, MutexOK, Holds, AcksMatchWaiters, OnTheWay, Awaited, Executing, WaitPcs
<1>11. ASSUME NEW x \in Ctxs, PumpEnd(x) PROVE AcksMatchWaiters'
  BY <1>11 DEF PumpEnd, hostVars, pumpVars, queueVars, boundVars, TypeOK,
         GoalsOK, MutexOK, Holds, AcksMatchWaiters, OnTheWay, Awaited, Executing, WaitPcs
<1>12. ASSUME NEW x \in Ctxs, Expire(x) PROVE AcksMatchWaiters'
  BY <1>12 DEF Expire, Ready, hostVars, pumpVars, queueVars, boundVars,
         TypeOK, GoalsOK, MutexOK, Holds, AcksMatchWaiters, OnTheWay, Awaited, Executing, WaitPcs
<1>13. ASSUME NEW x \in Apps, CallHost(x) PROVE AcksMatchWaiters'
  BY <1>13 DEF CallHost, hostVars, pumpVars, queueVars, boundVars, TypeOK,
         GoalsOK, MutexOK, Holds, AcksMatchWaiters, OnTheWay, Awaited, Executing, WaitPcs
<1>14. ASSUME BeginPoll PROVE AcksMatchWaiters'
  BY <1>14 DEF BeginPoll, hostVars, pumpVars, queueVars, boundVars, TypeOK,
         GoalsOK, MutexOK, Holds, AcksMatchWaiters, OnTheWay, Awaited, Executing, WaitPcs
<1>15. ASSUME RunEvent PROVE AcksMatchWaiters'
  BY <1>15 DEF RunEvent, hostVars, pumpVars, queueVars, boundVars, TypeOK,
         GoalsOK, MutexOK, Holds, AcksMatchWaiters, OnTheWay, Awaited, Executing, WaitPcs
<1>16. ASSUME EventsDone PROVE AcksMatchWaiters'
  BY <1>16 DEF EventsDone, hostVars, pumpVars, queueVars, boundVars, TypeOK,
         GoalsOK, MutexOK, Holds, AcksMatchWaiters, OnTheWay, Awaited, Executing, WaitPcs
<1>17. ASSUME DropRun PROVE AcksMatchWaiters'
  BY <1>17 DEF DropRun, hostVars, pumpVars, queueVars, boundVars, TypeOK,
         GoalsOK, MutexOK, Holds, AcksMatchWaiters, OnTheWay, Awaited, Executing, WaitPcs
<1>18. ASSUME StartRun PROVE AcksMatchWaiters'
  BY <1>18 DEF StartRun, hostVars, pumpVars, queueVars, boundVars, TypeOK,
         GoalsOK, MutexOK, Holds, AcksMatchWaiters, OnTheWay, Awaited, Executing, WaitPcs
<1>19. ASSUME CtlAnswer PROVE AcksMatchWaiters'
  BY <1>19 DEF CtlAnswer, hostVars, pumpVars, queueVars, boundVars, TypeOK,
         GoalsOK, MutexOK, Holds, AcksMatchWaiters, OnTheWay, Awaited, Executing, WaitPcs
<1>20. ASSUME CtlPacket PROVE AcksMatchWaiters'
  BY <1>20 DEF CtlPacket, hostVars, pumpVars, queueVars, boundVars, TypeOK,
         GoalsOK, MutexOK, Holds, AcksMatchWaiters, OnTheWay, Awaited, Executing, WaitPcs
<1> QED
  BY <1>1, <1>2, <1>3, <1>4, <1>5, <1>6, <1>7, <1>8, <1>9, <1>10, <1>11,
         <1>12, <1>13, <1>14, <1>15, <1>16, <1>17, <1>18, <1>19, <1>20
     DEF Next, Step, Enter, Check, Recheck, LastCheck, WaitPcs

\* The invariant holds of every behaviour.
THEOREM Inductive == Spec => []IInv
<1>1. IInv /\ [Next]_vars => IInv'
  BY FlagsStep, DataStep, GoalsStep, MutexStep, PumpStep, AcksStep DEF IInv, TypeOK, FlagsOK, DataOK
<1> QED
  BY InitOK, <1>1, PTL DEF Spec

\* The state of the wait loops, the pump and the bounds keeps its types.
THEOREM TypeCorrect == Spec => []TypeOK
<1>1. IInv => TypeOK
  BY DEF IInv
<1> QED
  BY <1>1, Inductive, PTL

\* However many contexts wait and pump, at most one polls the pump future,
\* and none polls a dropped one (pump_manual's busy flag), as long as the run
\* future is dropped only on the thread that polls it: with preemptive
\* threads, a drop may meet a poll and the statement is restricted to what
\* happens before it.
THEOREM PollExclusion == Spec => [](DropsAlone => PollsExclusively)
<1>1. IInv => (DropsAlone => PollsExclusively)
  BY DEF IInv, PumpOK, PollPcs, PollsExclusively, Polling
<1> QED
  BY <1>1, Inductive, PTL

\* The commands on their way are the one a context waits for and at most one
\* more for each wait that gave up (ble_npl_sem_pend under the HCI mutex);
\* until one does or the run future is dropped, the ack a pend consumes
\* answers the command it sent.
THEOREM AckMatching == Spec => []AcksMatchWaiters
<1>1. IInv => AcksMatchWaiters
  BY DEF IInv
<1> QED
  BY <1>1, Inductive, PTL
=============================================================================
