--------------------------- MODULE RadioNodeProofs ---------------------------
(***************************************************************************)
(* What TLAPS proves of RadioNode, for every value of its constants: one   *)
(* or two driver objects, any number of retries, any depth of the FIFO,    *)
(* any traffic.                                                            *)
(***************************************************************************)
EXTENDS RadioNode, TLAPS

\* Between the test of RXBYTES and the burst read nobody empties the FIFO: the
\* main loop does not run, and the chip only adds to it.
HasPacket == pc["isr"] = "readPacket" => rxFifo # <<>>

\* A context that has entered sendData has declared TX in its driver object.
MainDeclaredTx == pc["main"] \in SendSteps => rfState[SketchDriver] = "TX"

\* The interrupt routine of a detector never gets past CheckState: nothing
\* ever declares RX in the driver object it looks at.
SecondDriverIdle ==
  SketchDriver # IsrDriver =>
    rfState[IsrDriver] = "IDLE" /\ pc["isr"] \in {"off", "entered", "leave"}

\* The inductive invariant behind ExclusiveRadio.
RadioInv == /\ TypeOK /\ HasPacket
            /\ MainDeclaredTx /\ SecondDriverIdle
            /\ ExclusiveRadio

-----------------------------------------------------------------------------
(* Type correctness.                                                       *)

\* The places of the code a context can be at.
StepsOf(c) == IF c = "main" THEN MainSteps ELSE IsrSteps

\* The power-on state is well typed.
LEMMA InitTypeOK == Init => TypeOK
<1> SUFFICES ASSUME Init PROVE TypeOK OBVIOUS
<1> USE DEF Init
<1>1. ChipTypeOK
  <2>1. rxFifo \in Seq(Nat) /\ txFifo \in Seq(Nat) OBVIOUS
  <2>2. rxing \in Nat BY DEF NoRx
  <2> QED BY <2>1, <2>2 DEF ChipTypeOK
<1>2. ControlTypeOK
  BY DEF ControlTypeOK, Contexts, Drivers, MainSteps, IsrSteps, BootSteps
<1>3. JobTypeOK BY DEF JobTypeOK, NoPkt
<1>4. HistoryTypeOK BY DEF HistoryTypeOK
<1> QED BY <1>1, <1>2, <1>3, <1>4 DEF TypeOK

\* A jump to a place of the context's own code keeps pc well typed.
LEMMA GotoTypeOK ==
  ASSUME NEW c \in Contexts, NEW step \in StepsOf(c), Goto(c, step),
         pc \in [Contexts -> MainSteps \cup IsrSteps],
         pc["main"] \in MainSteps, pc["isr"] \in IsrSteps
  PROVE  /\ pc' \in [Contexts -> MainSteps \cup IsrSteps]
         /\ pc'["main"] \in MainSteps /\ pc'["isr"] \in IsrSteps
BY DEF Goto, StepsOf, Contexts

\* Both contexts run the code of sendData.
LEMMA SharedSteps ==
  ASSUME NEW c \in Contexts
  PROVE  /\ SendSteps \cup CallSteps \subseteq StepsOf(c)
         /\ c = "main" => "loop" \in StepsOf(c)
         /\ c # "main" => "leave" \in StepsOf(c)
BY DEF StepsOf, MainSteps, IsrSteps, Contexts

\* A strobe leaves the chip well typed, and the flag a Boolean.
LEMMA StrobeTypeOK ==
  ASSUME ChipTypeOK, ControlTypeOK, UNCHANGED medium,
         SRX \/ SIDLE \/ SFRX \/ SFTX \/ STX \/ SPWD
  PROVE  ChipTypeOK' /\ irqFlag' \in BOOLEAN
<1> USE DEF ChipTypeOK, medium
<1>1. irqFlag \in BOOLEAN BY DEF ControlTypeOK
<1>2. CASE SRX BY <1>1, <1>2 DEF SRX
<1>3. CASE SIDLE
  <2>1. marc' = "IDLE" /\ syncSent' = FALSE /\ UNCHANGED txFifo
    BY <1>3 DEF SIDLE
  <2>2. rxing' \in Nat BY <1>3 DEF SIDLE, NoRx
  <2>3. irqFlag' \in BOOLEAN BY <1>3 DEF SIDLE
  <2>4. rxFifo' \in Seq(Nat)
    <3>1. rxFifo' = rxFifo \/ rxFifo' = Append(rxFifo, rxing)
      BY <1>3 DEF SIDLE
    <3> QED BY SMTT(30), <3>1
  <2> QED BY <2>1, <2>2, <2>3, <2>4
<1>4. CASE SFRX BY <1>1, <1>4 DEF SFRX
<1>5. CASE SFTX BY <1>1, <1>5 DEF SFTX
<1>6. CASE STX BY <1>1, <1>6 DEF STX
<1>7. CASE SPWD BY <1>1, <1>7 DEF SPWD
<1> QED BY <1>2, <1>3, <1>4, <1>5, <1>6, <1>7

\* Each step of sendData keeps the types.
LEMMA SendTypeOK ==
  ASSUME TypeOK, NEW c \in Contexts, SendData(c)
  PROVE  TypeOK'
<1> USE DEF TypeOK, medium, chip, cpu, job, history
<1>1. ASSUME NEW step \in StepsOf(c), Goto(c, step),
             irqFlag' \in BOOLEAN, UNCHANGED <<irqOn, rfState, systemState>>
      PROVE  ControlTypeOK'
  BY <1>1, GotoTypeOK DEF ControlTypeOK
<1>2. SendSteps \cup CallSteps \subseteq StepsOf(c) BY SharedSteps
<1>3. {"enterRx", "waitRx", "flushOverflow", "loadFifo", "strobeTx",
       "checkTx", "waitHigh", "waitLow", "checkEmpty", "toIdle", "flushTx",
       "backToRx", "declareRx", "declareTx", "sendReturned"}
         \subseteq StepsOf(c)
  BY <1>2 DEF SendSteps, CallSteps
<1>4. irqFlag \in BOOLEAN BY DEF ControlTypeOK
<1>5. Driver(c) \in Drivers BY DEF Driver, Drivers
<1>6. CASE DeclareTx(c)
  <2>1. ControlTypeOK' BY <1>3, <1>5, <1>6, GotoTypeOK
    DEF DeclareTx, ControlTypeOK
  <2> QED BY <2>1, <1>6 DEF DeclareTx, ChipTypeOK, JobTypeOK, HistoryTypeOK
<1>7. CASE EnterRx(c)
  BY <1>1, <1>3, <1>7, StrobeTypeOK DEF EnterRx, JobTypeOK, HistoryTypeOK
<1>8. CASE WaitRx(c)
  BY <1>1, <1>3, <1>4, <1>8 DEF WaitRx, ChipTypeOK, JobTypeOK, HistoryTypeOK
<1>9. CASE FlushOverflow(c)
  BY <1>1, <1>3, <1>9, StrobeTypeOK
  DEF FlushOverflow, JobTypeOK, HistoryTypeOK
<1>10. CASE LoadFifo(c)
  <2>1. cur[c] \in Nat BY DEF JobTypeOK
  <2>2. txFifo' \in Seq(Nat) BY <1>10, <2>1 DEF LoadFifo, ChipTypeOK
  <2>3. ChipTypeOK' BY <1>10, <2>2 DEF LoadFifo, ChipTypeOK
  <2> QED BY <2>3, <1>1, <1>3, <1>4, <1>10
          DEF LoadFifo, JobTypeOK, HistoryTypeOK
<1>11. CASE StrobeTx(c)
  <2>1. cur[c] \in Nat BY DEF JobTypeOK
  <2>2. HistoryTypeOK' BY <1>11, <2>1 DEF StrobeTx, HistoryTypeOK
  <2> QED BY <2>2, <1>1, <1>3, <1>11, StrobeTypeOK DEF StrobeTx, JobTypeOK
<1>12. CASE CheckTx(c)
  <2>1. JobTypeOK' BY <1>12 DEF CheckTx, JobTypeOK
  <2> QED BY <2>1, <1>1, <1>3, <1>4, <1>12
          DEF CheckTx, ChipTypeOK, HistoryTypeOK
<1>13. CASE WaitHigh(c)
  BY <1>1, <1>3, <1>4, <1>13 DEF WaitHigh, ChipTypeOK, JobTypeOK, HistoryTypeOK
<1>14. CASE WaitLow(c)
  BY <1>1, <1>3, <1>4, <1>14 DEF WaitLow, ChipTypeOK, JobTypeOK, HistoryTypeOK
<1>15. CASE CheckEmpty(c)
  <2>1. JobTypeOK' BY <1>15 DEF CheckEmpty, JobTypeOK
  <2> QED BY <2>1, <1>1, <1>3, <1>4, <1>15
    DEF CheckEmpty, ChipTypeOK, HistoryTypeOK
<1>16. CASE ToIdle(c)
  BY <1>1, <1>3, <1>16, StrobeTypeOK DEF ToIdle, JobTypeOK, HistoryTypeOK
<1>17. CASE FlushTx(c)
  BY <1>1, <1>3, <1>17, StrobeTypeOK DEF FlushTx, JobTypeOK, HistoryTypeOK
<1>18. CASE BackToRx(c)
  BY <1>1, <1>3, <1>18, StrobeTypeOK DEF BackToRx, JobTypeOK, HistoryTypeOK
<1>19. CASE DeclareRx(c)
  <2>1. ControlTypeOK' BY <1>3, <1>5, <1>19, GotoTypeOK
    DEF DeclareRx, ControlTypeOK
  <2> QED BY <2>1, <1>19 DEF DeclareRx, ChipTypeOK, JobTypeOK, HistoryTypeOK
<1>20. CASE SendReturned(c)
  <2>1. CASE ~res[c] /\ tries[c] > 1
    <3>1. tries' = [tries EXCEPT ![c] = @ - 1] /\ Goto(c, "declareTx")
          /\ UNCHANGED finished
      BY <1>20, <2>1 DEF SendReturned
    <3>2. JobTypeOK' BY <1>20, <2>1, <3>1 DEF SendReturned, JobTypeOK
    <3> QED BY <3>1, <3>2, <1>1, <1>3, <1>4, <1>20
      DEF SendReturned, ChipTypeOK, HistoryTypeOK
  <2>2. CASE ~(~res[c] /\ tries[c] > 1)
    <3> DEFINE next == IF c = "main" THEN "loop" ELSE "leave"
    <3>1. /\ finished' = finished \cup {<<cur[c], res[c]>>}
          /\ Goto(c, next) /\ UNCHANGED tries
      BY <1>20, <2>2 DEF SendReturned
    <3>2. next \in StepsOf(c) BY SharedSteps
    <3>3. ControlTypeOK'
      BY <3>1, <3>2, <1>1, <1>4, <1>20 DEF SendReturned
    <3>4. <<cur[c], res[c]>> \in Nat \X BOOLEAN BY DEF JobTypeOK
    <3>5. HistoryTypeOK' BY <3>1, <3>4, <1>20 DEF SendReturned, HistoryTypeOK
    <3> QED BY <3>1, <3>3, <3>5, <1>20 DEF SendReturned, ChipTypeOK, JobTypeOK
  <2> QED BY <2>1, <2>2
<1> QED
  BY <1>6, <1>7, <1>8, <1>9, <1>10, <1>11, <1>12, <1>13, <1>14, <1>15, <1>16,
     <1>17, <1>18, <1>19, <1>20 DEF SendData

\* Handing over a new message keeps the types of both contexts' jobs.
LEMMA StartSendTypeOK ==
  ASSUME TypeOK, NEW c \in Contexts, NEW n \in Nat, StartSend(c, n),
         UNCHANGED <<pkt, res, slept>>
  PROVE  JobTypeOK' /\ "declareTx" \in StepsOf(c) /\ Goto(c, "declareTx")
BY SharedSteps DEF StartSend, TypeOK, JobTypeOK, CallSteps

\* Each step of the interrupt routine keeps the types.
LEMMA IsrTypeOK ==
  ASSUME TypeOK, HasPacket, Isr
  PROVE  TypeOK'
<1> USE DEF TypeOK, medium, chip, cpu, job, history
<1>1. ASSUME NEW step \in IsrSteps, Goto("isr", step),
             irqFlag' \in BOOLEAN, irqOn' \in BOOLEAN,
             UNCHANGED <<rfState, systemState>>
      PROVE  ControlTypeOK'
  BY <1>1, GotoTypeOK DEF ControlTypeOK, Contexts, StepsOf
<1>2. {"off", "entered", "dispatch", "leave", "readLevel", "readPacket",
       "rxToIdle", "rxFlush", "rxBack"} \subseteq IsrSteps
  BY DEF IsrSteps, ReceiveSteps
<1>3. irqFlag \in BOOLEAN /\ irqOn \in BOOLEAN BY DEF ControlTypeOK
<1>4. NoPkt \in Nat BY DEF NoPkt
<1>5. CASE EnterIsr
  BY <1>1, <1>2, <1>5 DEF EnterIsr, ChipTypeOK, JobTypeOK, HistoryTypeOK
<1>6. CASE CheckState
  BY <1>1, <1>2, <1>3, <1>6 DEF CheckState, ChipTypeOK, JobTypeOK, HistoryTypeOK
<1>7. CASE ReadLevel
  <2>1. JobTypeOK' BY <1>4, <1>7 DEF ReadLevel, JobTypeOK
  <2> QED BY <2>1, <1>1, <1>2, <1>3, <1>7
          DEF ReadLevel, ChipTypeOK, HistoryTypeOK
<1>8. CASE ReadPacket
  <2>1. rxFifo # <<>> /\ rxFifo \in Seq(Nat)
    BY <1>8 DEF ReadPacket, At, HasPacket, ChipTypeOK
  <2>2. Head(rxFifo) \in Nat /\ Tail(rxFifo) \in Seq(Nat)
    BY <2>1
  <2>3. ChipTypeOK' BY <2>2, <1>8 DEF ReadPacket, ChipTypeOK
  <2>4. JobTypeOK' BY <2>2, <1>8 DEF ReadPacket, JobTypeOK
  <2> QED BY <2>3, <2>4, <1>1, <1>2, <1>3, <1>8 DEF ReadPacket, HistoryTypeOK
<1>9. CASE RxToIdle
  BY <1>1, <1>2, <1>3, <1>9, StrobeTypeOK DEF RxToIdle, JobTypeOK, HistoryTypeOK
<1>10. CASE RxFlush
  BY <1>1, <1>2, <1>3, <1>10, StrobeTypeOK DEF RxFlush, JobTypeOK, HistoryTypeOK
<1>11. CASE RxBack
  BY <1>1, <1>2, <1>3, <1>11, StrobeTypeOK DEF RxBack, JobTypeOK, HistoryTypeOK
<1>12. CASE Discard
  BY <1>1, <1>2, <1>3, <1>12 DEF Discard, ChipTypeOK, JobTypeOK, HistoryTypeOK
<1>13. CASE LeaveIsr
  BY <1>1, <1>2, <1>3, <1>13 DEF LeaveIsr, ChipTypeOK, JobTypeOK, HistoryTypeOK
<1>14. ASSUME NEW answer \in BOOLEAN, Dispatch(answer) PROVE TypeOK'
  <2>1. HistoryTypeOK'
    BY <1>14 DEF Dispatch, HistoryTypeOK, JobTypeOK
  <2>2. JobTypeOK' /\ \E step \in IsrSteps : Goto("isr", step)
    <3>1. CASE answer
      BY <3>1, <1>14, StartSendTypeOK, TriesAssumption
      DEF Dispatch, Contexts, StepsOf
    <3>2. CASE ~answer
      BY <3>2, <1>2, <1>14 DEF Dispatch, JobTypeOK
    <3> QED BY <3>1, <3>2
  <2> QED BY <2>1, <2>2, <1>1, <1>3, <1>14 DEF Dispatch, ChipTypeOK
<1>15. CASE SendData("isr") BY <1>15, SendTypeOK DEF Contexts
<1> QED
  BY <1>5, <1>6, <1>7, <1>8, <1>9, <1>10, <1>11, <1>12, <1>13, <1>14, <1>15
  DEF Isr

\* Each step of the main loop keeps the types.
LEMMA MainTypeOK ==
  ASSUME TypeOK, Main
  PROVE  TypeOK'
<1> USE DEF TypeOK, medium, chip, cpu, job, history
<1>1. ASSUME NEW step \in MainSteps, Goto("main", step),
             irqFlag' \in BOOLEAN, irqOn' \in BOOLEAN, UNCHANGED rfState,
             systemState' \in {"RESTART", "RXON", "RXOFF"}
      PROVE  ControlTypeOK'
  BY <1>1, GotoTypeOK DEF ControlTypeOK, Contexts, StepsOf
<1>2. BootSteps \cup SleepSteps \cup {"loop"} \subseteq MainSteps
  BY DEF MainSteps
<1>3. {"bootRx", "bootIrq", "bootState", "sketchInit", "sleepIdle",
       "sleepOff", "asleep", "wakeUp", "wakeState", "loop"} \subseteq MainSteps
  BY <1>2 DEF BootSteps, SleepSteps
<1>4. /\ irqFlag \in BOOLEAN /\ irqOn \in BOOLEAN
      /\ systemState \in {"RESTART", "RXON", "RXOFF"}
  BY DEF ControlTypeOK
<1>5. ASSUME ResetChip, UNCHANGED medium
      PROVE  ChipTypeOK' /\ irqFlag' \in BOOLEAN
  <2>1. rxing' \in Nat
    BY <1>5 DEF ResetChip, NoRx
  <2>2. irqFlag' \in BOOLEAN BY <1>5 DEF ResetChip
  <2>3. rxFifo' \in Seq(Nat) /\ txFifo' \in Seq(Nat)
    BY <1>5 DEF ResetChip
  <2> QED BY <2>1, <2>2, <2>3, <1>5 DEF ResetChip, ChipTypeOK
<1>6. CASE Boot
  BY <1>1, <1>3, <1>4, <1>5, <1>6 DEF Boot, JobTypeOK, HistoryTypeOK
<1>7. CASE BootRx
  BY <1>1, <1>3, <1>4, <1>7, StrobeTypeOK DEF BootRx, JobTypeOK, HistoryTypeOK
<1>8. CASE BootIrq
  BY <1>1, <1>3, <1>4, <1>8 DEF BootIrq, ChipTypeOK, JobTypeOK, HistoryTypeOK
<1>9. CASE BootState
  BY <1>1, <1>3, <1>4, <1>9 DEF BootState, ChipTypeOK, JobTypeOK, HistoryTypeOK
<1>10. CASE SketchInit
  BY <1>1, <1>3, <1>4, <1>5, <1>10 DEF SketchInit, JobTypeOK, HistoryTypeOK
<1>11. CASE MainSend
  <2>1. JobTypeOK' /\ \E step \in MainSteps : Goto("main", step)
    BY <1>11, StartSendTypeOK, TriesAssumption DEF MainSend, Contexts, StepsOf
  <2> QED BY <2>1, <1>1, <1>4, <1>11 DEF MainSend, ChipTypeOK, HistoryTypeOK
<1>12. ASSUME NEW ena \in BOOLEAN, EnableRfRx(ena) PROVE TypeOK'
  BY <1>12 DEF EnableRfRx, ChipTypeOK, ControlTypeOK, JobTypeOK, HistoryTypeOK
<1>13. CASE GoToSleep
  BY <1>1, <1>3, <1>4, <1>13 DEF GoToSleep, ChipTypeOK, JobTypeOK, HistoryTypeOK
<1>14. CASE SleepIdle
  BY <1>1, <1>3, <1>4, <1>14, StrobeTypeOK
  DEF SleepIdle, JobTypeOK, HistoryTypeOK
<1>15. CASE SleepOff
  BY <1>1, <1>3, <1>4, <1>15, StrobeTypeOK
  DEF SleepOff, JobTypeOK, HistoryTypeOK
<1>16. CASE SleepOver
  BY <1>1, <1>3, <1>4, <1>16 DEF SleepOver, ChipTypeOK, JobTypeOK, HistoryTypeOK
<1>17. CASE WakeUp
  BY <1>1, <1>3, <1>4, <1>17 DEF WakeUp, ChipTypeOK, JobTypeOK, HistoryTypeOK
<1>18. CASE WakeState
  BY <1>1, <1>3, <1>4, <1>18 DEF WakeState, ChipTypeOK, JobTypeOK, HistoryTypeOK
<1>19. CASE SendData("main") BY <1>19, SendTypeOK DEF Contexts
<1> QED
  BY <1>6, <1>7, <1>8, <1>9, <1>10, <1>11, <1>12, <1>13, <1>14, <1>15, <1>16,
     <1>17, <1>18, <1>19 DEF Main

\* Each step of the chip and of the other stations keeps the types.
LEMMA ChipStepTypeOK ==
  ASSUME TypeOK, Chip \/ AirStart \/ AirEnd
  PROVE  TypeOK'
<1> USE DEF TypeOK, ChipQuiet, job, history
<1>1. CASE RxEnd
  <2>1. rxing \in Nat BY DEF ChipTypeOK
  <2>2. /\ rxFifo' = rxFifo \/ rxFifo' = Append(rxFifo, rxing)
        /\ marc' \in {"IDLE", "RXOVF"}
    BY <1>1 DEF RxEnd
  <2>3. rxFifo' \in Seq(Nat)
    <3>1. rxFifo \in Seq(Nat) BY DEF ChipTypeOK
    <3> QED BY <2>1, <2>2, <3>1
  <2>4. rxing' \in Nat BY <1>1 DEF RxEnd, NoRx
  <2>5. ChipTypeOK' BY <2>2, <2>3, <2>4, <1>1 DEF RxEnd, ChipTypeOK
  <2> QED BY <2>5, <1>1 DEF RxEnd, ControlTypeOK, JobTypeOK, HistoryTypeOK
<1>2. CASE RxFiltered
  <2>1. rxing' \in Nat BY <1>2 DEF RxFiltered, NoRx
  <2> QED BY <2>1, <1>2
    DEF RxFiltered, ChipTypeOK, ControlTypeOK, JobTypeOK, HistoryTypeOK
<1>3. CASE Calibrated
  BY <1>3 DEF Calibrated, ChipTypeOK, ControlTypeOK, JobTypeOK, HistoryTypeOK
<1>4. CASE TxSync
  BY <1>4 DEF TxSync, ChipTypeOK, ControlTypeOK, JobTypeOK, HistoryTypeOK
<1>5. CASE TxEnd
  <2>1. onAir' \in Seq(Nat)
    <3>1. onAir \in Seq(Nat) /\ txFifo \in Seq(Nat)
      BY DEF ChipTypeOK, HistoryTypeOK
    <3>2. onAir' = onAir \o txFifo BY <1>5 DEF TxEnd
    <3> QED BY <3>1, <3>2
  <2>2. HistoryTypeOK' BY <2>1, <1>5 DEF TxEnd, HistoryTypeOK
  <2>3. ChipTypeOK'
    <3>1. txFifo' \in Seq(Nat) BY <1>5 DEF TxEnd
    <3> QED BY <3>1, <1>5 DEF TxEnd, ChipTypeOK
  <2> QED BY <2>2, <2>3, <1>5 DEF TxEnd, ControlTypeOK, JobTypeOK
<1>6. CASE AirStart
  <2>2. rxing' \in Nat
    BY <1>6 DEF AirStart, NoRx, ChipTypeOK
  <2>3. ChipTypeOK' BY <2>2, <1>6 DEF AirStart, ChipTypeOK
  <2> QED BY <2>3, <1>6 DEF AirStart, ControlTypeOK, JobTypeOK, HistoryTypeOK
<1>7. CASE AirEnd
  BY <1>7 DEF AirEnd, ChipTypeOK, ControlTypeOK, JobTypeOK, HistoryTypeOK
<1> QED BY <1>1, <1>2, <1>3, <1>4, <1>5, <1>6, <1>7 DEF Chip

\* The two facts about types that are inductive together.
LEMMA TypeStep ==
  ASSUME TypeOK, HasPacket, [Next]_vars
  PROVE  TypeOK' /\ HasPacket'
<1>1. TypeOK'
  <2>1. CASE Main BY <2>1, MainTypeOK
  <2>2. CASE Isr BY <2>2, IsrTypeOK
  <2>3. CASE Chip \/ AirStart \/ AirEnd BY <2>3, ChipStepTypeOK
  <2>4. CASE UNCHANGED vars
    BY <2>4 DEF vars, chip, medium, cpu, job, history, TypeOK, ChipTypeOK,
       ControlTypeOK, JobTypeOK, HistoryTypeOK
  <2> QED BY <2>1, <2>2, <2>3, <2>4 DEF Next
<1>2. HasPacket'
  <2> SUFFICES ASSUME pc'["isr"] = "readPacket" PROVE rxFifo' # <<>>
    BY DEF HasPacket
  <2>1. pc \in [Contexts -> MainSteps \cup IsrSteps]
    BY DEF TypeOK, ControlTypeOK
  <2>2. rxFifo \in Seq(Nat) BY DEF TypeOK, ChipTypeOK
  <2>3. CASE Main
    <3>1. pc["isr"] = "off" /\ pc'["isr"] = "off"
      BY <2>1, <2>3 DEF Main, SendData, StartSend, At, Runs, Goto, Contexts,
         Boot, BootRx, BootIrq, BootState, SketchInit, MainSend, EnableRfRx,
         GoToSleep, SleepIdle, SleepOff, SleepOver, WakeUp, WakeState,
         DeclareTx, EnterRx, WaitRx, FlushOverflow, LoadFifo, StrobeTx,
         CheckTx, WaitHigh, WaitLow, CheckEmpty, ToIdle, FlushTx, BackToRx,
         DeclareRx, SendReturned
    <3> QED BY <3>1
  <2>4. CASE Isr
    <3>1. CASE ReadLevel
      BY <3>1, <2>1 DEF ReadLevel, Goto, Contexts, chip
    <3>2. CASE ~ReadLevel
      <4>1. pc'["isr"] # "readPacket"
        BY <3>2, <2>1, <2>4 DEF Isr, SendData, StartSend, At, Runs, Goto,
           Contexts, EnterIsr, CheckState, ReadPacket, RxToIdle, RxFlush,
           RxBack, Discard, Dispatch, LeaveIsr, DeclareTx, EnterRx, WaitRx,
           FlushOverflow, LoadFifo, StrobeTx, CheckTx, WaitHigh, WaitLow,
           CheckEmpty, ToIdle, FlushTx, BackToRx, DeclareRx, SendReturned
      <4> QED BY <4>1
    <3> QED BY <3>1, <3>2
  <2>5. CASE Chip \/ AirStart \/ AirEnd
    <3>1. rxFifo # <<>>
      BY <2>5 DEF HasPacket, Chip, ChipQuiet, RxEnd, RxFiltered, Calibrated,
         TxSync, TxEnd, AirStart, AirEnd
    <3>2. CASE RxEnd
      BY <3>1, <3>2, <2>2 DEF RxEnd
    <3>3. CASE ~RxEnd
      BY <3>1, <3>3, <2>5
      DEF Chip, RxFiltered, Calibrated, TxSync, TxEnd, AirStart, AirEnd
    <3> QED BY <3>2, <3>3
  <2>6. CASE UNCHANGED vars BY <2>6 DEF vars, chip, HasPacket
  <2> QED BY <2>3, <2>4, <2>5, <2>6 DEF Next
<1> QED BY <1>1, <1>2

\* The variables of the chip, the microcontroller and the histories keep
\* their types in every behaviour of the code.
THEOREM TypeCorrect == Spec => []TypeOK
<1>1. Init => TypeOK /\ HasPacket
  BY InitTypeOK DEF Init, HasPacket, Contexts
<1>2. TypeOK /\ HasPacket /\ [Next]_vars => TypeOK' /\ HasPacket'
  BY TypeStep
<1> QED BY <1>1, <1>2, PTL DEF Spec

-----------------------------------------------------------------------------
(* Mutual exclusion on the radio.                                          *)

\* The steps of the interrupt routine that use the radio.
Busy == ReceiveSteps \cup SendSteps \cup CallSteps \cup {"dispatch"}

\* At power on nobody is sending and the second driver is idle.
LEMMA InitRadio == Init => MainDeclaredTx /\ SecondDriverIdle /\ ExclusiveRadio
BY DEF Init, MainDeclaredTx, SecondDriverIdle, ExclusiveRadio, SendSteps,
   ReceiveSteps, CallSteps, Contexts, Drivers

\* The main loop runs only while the interrupt routine is off, and it enters
\* sendData by declaring TX, and leaves it by declaring RX.
LEMMA MainRadio ==
  ASSUME RadioInv, Main
  PROVE  (MainDeclaredTx /\ SecondDriverIdle /\ ExclusiveRadio)'
<1> USE DEF RadioInv, TypeOK, ControlTypeOK
<1>1. pc["isr"] = "off" /\ pc'["isr"] = "off"
  BY DEF Main, SendData, StartSend, At, Runs, Goto, Contexts,
     Boot, BootRx, BootIrq, BootState, SketchInit, MainSend, EnableRfRx,
     GoToSleep, SleepIdle, SleepOff, SleepOver, WakeUp, WakeState,
     DeclareTx, EnterRx, WaitRx, FlushOverflow, LoadFifo, StrobeTx,
     CheckTx, WaitHigh, WaitLow, CheckEmpty, ToIdle, FlushTx, BackToRx,
     DeclareRx, SendReturned
<1>2. ExclusiveRadio'
  BY <1>1 DEF ExclusiveRadio, ReceiveSteps, SendSteps, CallSteps
<1>3. CASE DeclareTx("main")
  BY <1>1, <1>2, <1>3 DEF DeclareTx, Goto, Driver, Drivers, Contexts,
     MainDeclaredTx, SecondDriverIdle
<1>4. CASE DeclareRx("main")
  BY <1>1, <1>2, <1>4 DEF DeclareRx, Goto, Driver, Drivers, Contexts,
     MainDeclaredTx, SecondDriverIdle, SendSteps
<1>5. CASE ~DeclareTx("main") /\ ~DeclareRx("main")
  <2>1. UNCHANGED rfState
    BY <1>5 DEF Main, SendData, Boot, BootRx, BootIrq, BootState, SketchInit,
       MainSend, EnableRfRx, GoToSleep, SleepIdle, SleepOff, SleepOver,
       WakeUp, WakeState, EnterRx, WaitRx, FlushOverflow, LoadFifo, StrobeTx,
       CheckTx, WaitHigh, WaitLow, CheckEmpty, ToIdle, FlushTx, BackToRx,
       SendReturned
  <2>2. pc'["main"] \in SendSteps => pc["main"] \in SendSteps
    BY <1>5 DEF Main, SendData, StartSend, At, Goto, Contexts, SendSteps,
       Boot, BootRx, BootIrq, BootState, SketchInit, MainSend, EnableRfRx,
       GoToSleep, SleepIdle, SleepOff, SleepOver, WakeUp, WakeState,
       EnterRx, WaitRx, FlushOverflow, LoadFifo, StrobeTx, CheckTx, WaitHigh,
       WaitLow, CheckEmpty, ToIdle, FlushTx, BackToRx, SendReturned
  <2> QED BY <1>1, <1>2, <2>1, <2>2 DEF MainDeclaredTx, SecondDriverIdle
<1> QED BY <1>3, <1>4, <1>5

\* The interrupt routine goes past CheckState only when its driver is declared
\* in RX: not while the main loop is inside sendData of the same object.
LEMMA IsrRadio ==
  ASSUME RadioInv, Isr
  PROVE  (MainDeclaredTx /\ SecondDriverIdle /\ ExclusiveRadio)'
<1> USE DEF RadioInv, TypeOK, ControlTypeOK
<1>1. pc'["main"] = pc["main"]
  BY DEF Isr, SendData, StartSend, Goto, Contexts,
     EnterIsr, CheckState, ReadLevel, ReadPacket, RxToIdle, RxFlush,
     RxBack, Discard, Dispatch, LeaveIsr, DeclareTx, EnterRx, WaitRx,
     FlushOverflow, LoadFifo, StrobeTx, CheckTx, WaitHigh, WaitLow,
     CheckEmpty, ToIdle, FlushTx, BackToRx, DeclareRx, SendReturned
<1>2. CASE EnterIsr
  BY <1>1, <1>2 DEF EnterIsr, Goto, Contexts, MainDeclaredTx,
     SecondDriverIdle, ExclusiveRadio, SendSteps, ReceiveSteps, CallSteps
<1>3. CASE LeaveIsr
  BY <1>1, <1>3 DEF LeaveIsr, Goto, Contexts, MainDeclaredTx,
     SecondDriverIdle, ExclusiveRadio, SendSteps, ReceiveSteps, CallSteps
<1>4. CASE CheckState
  <2>1. UNCHANGED rfState BY <1>4 DEF CheckState
  <2>2. CASE rfState[IsrDriver] = "RX"
    <3>1. pc["main"] \notin SendSteps /\ SketchDriver = IsrDriver
      BY <2>2 DEF MainDeclaredTx, SecondDriverIdle
    <3> QED BY <1>1, <2>1, <3>1
      DEF MainDeclaredTx, SecondDriverIdle, ExclusiveRadio
  <2>3. CASE rfState[IsrDriver] # "RX"
    <3>1. pc'["isr"] = "leave" BY <1>4, <2>3 DEF CheckState, Goto, Contexts
    <3> QED BY <1>1, <2>1, <3>1 DEF MainDeclaredTx, SecondDriverIdle,
      ExclusiveRadio, SendSteps, ReceiveSteps, CallSteps
  <2> QED BY <2>2, <2>3
<1>5. CASE ~EnterIsr /\ ~LeaveIsr /\ ~CheckState
  <2>1. pc["isr"] \in Busy
    BY <1>5 DEF Isr, SendData, At, Busy, SendSteps, ReceiveSteps, CallSteps,
       ReadLevel, ReadPacket, RxToIdle, RxFlush, RxBack, Discard, Dispatch,
       DeclareTx, EnterRx, WaitRx, FlushOverflow, LoadFifo, StrobeTx,
       CheckTx, WaitHigh, WaitLow, CheckEmpty, ToIdle, FlushTx, BackToRx,
       DeclareRx, SendReturned
  <2>2. pc["main"] \notin SendSteps BY <2>1 DEF ExclusiveRadio, Busy
  <2>3. SketchDriver = IsrDriver
    BY <2>1 DEF SecondDriverIdle, Busy, SendSteps, ReceiveSteps, CallSteps
  <2> QED BY <1>1, <2>2, <2>3
    DEF MainDeclaredTx, SecondDriverIdle, ExclusiveRadio
<1> QED BY <1>2, <1>3, <1>4, <1>5

\* RadioInv is inductive.
LEMMA RadioStep ==
  ASSUME RadioInv, [Next]_vars
  PROVE  RadioInv'
<1>1. TypeOK' /\ HasPacket' BY TypeStep DEF RadioInv
<1>2. (MainDeclaredTx /\ SecondDriverIdle /\ ExclusiveRadio)'
  <2>1. CASE Main BY <2>1, MainRadio
  <2>2. CASE Isr BY <2>2, IsrRadio
  <2>3. CASE Chip \/ AirStart \/ AirEnd \/ UNCHANGED vars
    <3>1. UNCHANGED <<pc, rfState>>
      BY <2>3 DEF Chip, ChipQuiet, RxEnd, RxFiltered, Calibrated, TxSync,
         TxEnd, AirStart, AirEnd, vars
    <3> QED BY <3>1
      DEF RadioInv, MainDeclaredTx, SecondDriverIdle, ExclusiveRadio
  <2> QED BY <2>1, <2>2, <2>3 DEF Next
<1> QED BY <1>1, <1>2 DEF RadioInv

\* While the main loop is inside sendData, the interrupt routine neither reads
\* the FIFO nor strobes the chip: the purpose of rfState, with one driver
\* object or two.
THEOREM RadioIsExclusive == Spec => []ExclusiveRadio
<1>1. Init => RadioInv
  BY InitTypeOK, InitRadio DEF RadioInv, Init, HasPacket, Contexts
<1>2. RadioInv /\ [Next]_vars => RadioInv' BY RadioStep
<1>3. RadioInv => ExclusiveRadio BY DEF RadioInv
<1> QED BY <1>1, <1>2, <1>3, PTL DEF Spec

-------------------------------------------------------------------------------
(***************************************************************************)
(* Proofs about the transmitting half of RadioNode: what CC1101::sendData  *)
(* and the retries of SWPACKET::send do to a message, for every value of   *)
(* the constants.  The argument follows one message through the code: it   *)
(* is in the FIFO of the chip exactly between the burst write and the      *)
(* flush, on the air exactly from the end of the transmission on, and the  *)
(* result says which of the two ways out of sendData was taken.            *)
(***************************************************************************)

\* The messages whose transmission completed.
Aired == {onAir[i] : i \in DOMAIN onAir}

\* Places of sendData before and after the one where a message may go out, and
\* all the places at which a context is still responsible for its message.
BeforeTx == {"declareTx", "enterRx", "waitRx", "flushOverflow", "loadFifo",
             "strobeTx", "checkTx", "waitHigh"}
AfterTx  == {"toIdle", "flushTx", "backToRx", "declareRx", "sendReturned"}
Sending  == SendSteps \cup CallSteps

\* Where the TX FIFO may hold a message.
Loaded == {"strobeTx", "checkTx", "waitHigh", "waitLow", "checkEmpty",
           "toIdle", "flushTx"}

\* The chip by itself: it receives in RX only, and GDO0 shows a sync word of
\* our own in TX only.
ChipInv == /\ rxing # NoRx => marc = "RX"
           /\ syncSent => marc = "TX"

\* Messages are numbered as they are asked for; nothing else is ever sent or
\* reported, and the two contexts never send the same one.
Numbered ==
  /\ \A c \in Contexts : cur[c] <= nreq
  /\ \A c \in Contexts : pc[c] \in Sending => cur[c] > 0
  /\ cur["main"] = cur["isr"] => cur["main"] = 0
  /\ \A m \in Aired : m <= nreq
  /\ \A f \in finished : f[1] <= nreq

\* Where context c is in sendData tells whether its message is out, and what
\* the chip is doing with it.
Follows(c) ==
  /\ pc[c] \in BeforeTx => cur[c] \notin Aired
  /\ pc[c] \in {"strobeTx", "checkTx", "waitHigh"} => txFifo = <<cur[c]>>
  /\ pc[c] = "checkTx" => ~syncSent
  /\ pc[c] = "waitHigh" => marc = "TX"
  /\ pc[c] = "waitLow" =>
       \/ marc = "TX" /\ syncSent /\ txFifo = <<cur[c]>> /\ cur[c] \notin Aired
       \/ marc = "IDLE" /\ txFifo = <<>> /\ cur[c] \in Aired
  /\ pc[c] = "checkEmpty" =>
       marc = "IDLE" /\ txFifo = <<>> /\ cur[c] \in Aired
  /\ pc[c] \in AfterTx => (res[c] <=> cur[c] \in Aired)
  /\ pc[c] = "flushTx" => marc = "IDLE"

\* The chip transmits only for a context that waits for the end of it, and no
\* message is left in its FIFO.
ForSomeone ==
  /\ marc = "TX" =>
       \E c \in Contexts : pc[c] \in {"checkTx", "waitHigh", "waitLow"}
  /\ (\A c \in Contexts : pc[c] \notin Loaded) => txFifo = <<>>

\* A message that was reported is not sent again.
ReportedOnce ==
  \A c \in Contexts : pc[c] \in Sending =>
    \A f \in finished : f[1] # cur[c]

\* What a transmission means, whatever the contexts do besides.
Sent == /\ ChipInv /\ Numbered
        /\ \A c \in Contexts : Follows(c)
        /\ ForSomeone /\ ReportedOnce
        /\ AtMostOnceOnAir /\ ResultIsTruth

\* The inductive invariant behind AtMostOnceOnAir and ResultIsTruth.
SendInv == RadioInv /\ Sent

-----------------------------------------------------------------------------
(* The two contexts keep out of each other's way.                          *)

\* At most one context is inside sendData.
LEMMA OneSender ==
  ASSUME RadioInv, NEW c \in Contexts, NEW d \in Contexts, c # d,
         pc[c] \in SendSteps
  PROVE  pc[d] \notin SendSteps
BY DEF RadioInv, ExclusiveRadio, Contexts

\* While a context runs on its way through sendData, the other one is out of it.
LEMMA OtherIsOut ==
  ASSUME RadioInv, NEW c \in Contexts, NEW d \in Contexts, c # d,
         Runs(c), pc[c] \in Sending
  PROVE  pc[d] \notin SendSteps
BY DEF RadioInv, ExclusiveRadio, Contexts, Runs, Sending, SendSteps

\* While a context runs elsewhere and uses the radio, nobody is in sendData.
LEMMA NobodySends ==
  ASSUME RadioInv, NEW c \in Contexts, Runs(c), pc[c] \notin Sending,
         c = "isr" => pc[c] \in ReceiveSteps
  PROVE  \A d \in Contexts : pc[d] \notin SendSteps
BY DEF RadioInv, ExclusiveRadio, Contexts, Runs, Sending, SendSteps

\* A jump of context c moves no other context.
LEMMA GotoMoves ==
  ASSUME RadioInv, NEW c \in Contexts, NEW step, Goto(c, step)
  PROVE  /\ pc'[c] = step
         /\ \A d \in Contexts : d # c => pc'[d] = pc[d]
BY DEF RadioInv, TypeOK, ControlTypeOK, Goto

\* A context on its way through sendData moves on: what has to be shown is what
\* concerns the chip and the context itself.
LEMMA SenderMoves ==
  ASSUME SendInv, NEW c \in Contexts, NEW step \in Sending,
         Runs(c), pc[c] \in Sending, Goto(c, step),
         UNCHANGED <<cur, nreq, onAir, finished>>,
         \A d \in Contexts : d # c => res'[d] = res[d],
         ChipInv', Follows(c)', ForSomeone'
  PROVE  Sent'
<1> USE DEF SendInv, Sent
<1>1. pc'[c] = step /\ \A d \in Contexts : d # c => pc'[d] = pc[d]
  BY GotoMoves
<1>2. UNCHANGED Aired BY DEF Aired
<1>3. Numbered' BY <1>1, <1>2 DEF Numbered
<1>4. ReportedOnce' BY <1>1 DEF ReportedOnce
<1>5. AtMostOnceOnAir' /\ ResultIsTruth'
  BY DEF AtMostOnceOnAir, ResultIsTruth
<1>6. ASSUME NEW d \in Contexts, d # c PROVE Follows(d)'
  <2>1. pc[d] \notin SendSteps /\ pc'[d] = pc[d] /\ res'[d] = res[d]
    BY <1>1, <1>6, OtherIsOut
  <2>2. Follows(d) OBVIOUS
  <2> QED BY <1>2, <2>1, <2>2 DEF Follows, SendSteps
<1> QED BY <1>3, <1>4, <1>5, <1>6

\* A context that is not sending moves on, and does not touch a radio that
\* somebody is sending with.
LEMMA OthersMove ==
  ASSUME SendInv, NEW c \in Contexts, NEW step, step \notin Sending,
         pc[c] \notin Sending, Goto(c, step),
         UNCHANGED <<cur, res, nreq, onAir, finished>>,
         ChipInv',
         \/ UNCHANGED <<marc, txFifo, syncSent>>
         \/ /\ \A d \in Contexts : pc[d] \notin SendSteps
            /\ marc' # "TX" /\ txFifo' = <<>>
  PROVE  Sent'
<1> USE DEF SendInv, Sent
<1>1. pc'[c] = step /\ \A d \in Contexts : d # c => pc'[d] = pc[d]
  BY GotoMoves
<1>2. UNCHANGED Aired BY DEF Aired
<1>3. Numbered' BY <1>1, <1>2 DEF Numbered
<1>4. ReportedOnce' BY <1>1 DEF ReportedOnce
<1>5. AtMostOnceOnAir' /\ ResultIsTruth'
  BY DEF AtMostOnceOnAir, ResultIsTruth
<1>6. ASSUME NEW d \in Contexts PROVE Follows(d)'
  <2>1. Follows(d) OBVIOUS
  <2>2. CASE d = c
    BY <1>1, <2>2 DEF Follows, Sending, SendSteps, CallSteps, BeforeTx, AfterTx
  <2>3. CASE d # c /\ UNCHANGED <<marc, txFifo, syncSent>>
    BY <1>1, <1>2, <2>1, <2>3 DEF Follows
  <2>4. CASE d # c /\ pc[d] \notin SendSteps
    BY <1>1, <1>2, <2>1, <2>4 DEF Follows, SendSteps
  <2> QED BY <2>2, <2>3, <2>4
<1>7. ForSomeone'
  <2>1. CASE UNCHANGED <<marc, txFifo, syncSent>>
    <3>1. ForSomeone OBVIOUS
    <3>2. pc[c] \notin Loaded /\ pc'[c] \notin Loaded
          /\ pc[c] \notin {"checkTx", "waitHigh", "waitLow"}
      BY <1>1 DEF Sending, SendSteps, Loaded
    <3> QED BY <1>1, <2>1, <3>1, <3>2 DEF ForSomeone
  <2>2. CASE marc' # "TX" /\ txFifo' = <<>>
    BY <2>2 DEF ForSomeone
  <2> QED BY <2>1, <2>2
<1> QED BY <1>3, <1>4, <1>5, <1>6, <1>7

-----------------------------------------------------------------------------
(* One lemma per group of actions.                                         *)

\* Each step of sendData but the last: the message goes from the caller's
\* memory to the FIFO, from there on the air or not, and the result follows.
LEMMA SenderSent ==
  ASSUME SendInv, NEW c \in Contexts, SendData(c), ~SendReturned(c)
  PROVE  Sent'
<1> USE DEF SendInv, Sent, chip, medium, cpu, job, history
<1>1. Runs(c) /\ pc[c] \in Sending
  BY DEF SendData, At, Sending, SendSteps, CallSteps, DeclareTx, EnterRx,
     WaitRx, FlushOverflow, LoadFifo, StrobeTx, CheckTx, WaitHigh, WaitLow,
     CheckEmpty, ToIdle, FlushTx, BackToRx, DeclareRx
<1>2. \A d \in Contexts : d # c => pc[d] \notin SendSteps
  BY <1>1, OtherIsOut
<1>3. ChipInv /\ Follows(c) /\ ForSomeone OBVIOUS
<1>4. ASSUME NEW step \in Sending, Goto(c, step)
      PROVE  /\ pc'[c] = step
             /\ \A d \in Contexts : d # c => pc'[d] = pc[d]
  BY <1>4, GotoMoves
<1>5. {"enterRx", "waitRx", "flushOverflow", "loadFifo", "strobeTx",
       "checkTx", "waitHigh", "waitLow", "checkEmpty", "toIdle", "flushTx",
       "backToRx", "declareRx", "sendReturned"} \subseteq Sending
  BY DEF Sending, SendSteps, CallSteps
\* Nothing but the context's place changes the chip's duty: a step of the
\* sender that leaves the FIFO as it should be for the place it goes to.
<1>6. ASSUME NEW step \in Sending, Goto(c, step),
             marc' = "TX" => step \in {"checkTx", "waitHigh", "waitLow"},
             step \notin Loaded => txFifo' = <<>>
      PROVE  ForSomeone'
  BY <1>4, <1>6 DEF ForSomeone
<1>7. pc[c] \notin {"checkTx", "waitHigh", "waitLow"}
        => marc # "TX"
  BY <1>2, <1>3 DEF ForSomeone, SendSteps
<1>8. pc[c] \notin Loaded => txFifo = <<>>
  BY <1>2, <1>3 DEF ForSomeone, Loaded, SendSteps
<1>9. ASSUME NEW step \in Sending, Goto(c, step),
             UNCHANGED <<cur, nreq, onAir, finished>>,
             \A d \in Contexts : d # c => res'[d] = res[d],
             ChipInv', Follows(c)',
             marc' = "TX" => step \in {"checkTx", "waitHigh", "waitLow"},
             step \notin Loaded => txFifo' = <<>>
      PROVE  Sent'
  BY <1>1, <1>6, <1>9, SenderMoves
<1>10. (UNCHANGED onAir) => UNCHANGED Aired BY DEF Aired
<1>11. CASE DeclareTx(c)
  <2>1. Goto(c, "enterRx") /\ pc[c] = "declareTx" BY <1>11 DEF DeclareTx, At
  <2>2. pc'[c] = "enterRx" BY <2>1, <1>4, <1>5
  <2>3. ChipInv' BY <1>11, <1>3 DEF DeclareTx, ChipInv
  <2>4. Follows(c)'
    BY <1>3, <1>7, <1>8, <1>10, <1>11, <2>1, <2>2
    DEF DeclareTx, ChipInv, Follows, BeforeTx, AfterTx, Loaded, SendSteps
  <2> QED
    BY <1>3, <1>5, <1>7, <1>8, <1>9, <1>11, <2>1, <2>3, <2>4
    DEF DeclareTx, Follows, Loaded, SendSteps
<1>12. CASE EnterRx(c)
  <2>1. Goto(c, "waitRx") /\ pc[c] = "enterRx" BY <1>12 DEF EnterRx, At
  <2>2. pc'[c] = "waitRx" BY <2>1, <1>4, <1>5
  <2>3. ChipInv' BY <1>12, <1>3 DEF EnterRx, SRX, ChipInv
  <2>4. Follows(c)'
    BY <1>3, <1>7, <1>8, <1>10, <1>12, <2>1, <2>2
    DEF EnterRx, SRX, ChipInv, Follows, BeforeTx, AfterTx, Loaded, SendSteps
  <2> QED
    BY <1>3, <1>5, <1>7, <1>8, <1>9, <1>12, <2>1, <2>3, <2>4
    DEF EnterRx, SRX, Follows, Loaded, SendSteps
<1>13. CASE WaitRx(c)
  <2> DEFINE step == IF marc = "RX" THEN "loadFifo"
                     ELSE IF marc = "RXOVF" THEN "flushOverflow" ELSE "waitRx"
  <2>1. Goto(c, step) /\ pc[c] = "waitRx" BY <1>13 DEF WaitRx, At
  <2>2. step \in {"loadFifo", "flushOverflow", "waitRx"} OBVIOUS
  <2> HIDE DEF step
  <2>3. pc'[c] = step BY <2>1, <2>2, <1>4, <1>5
  <2>4. ChipInv' BY <1>13, <1>3 DEF WaitRx, ChipInv
  <2>5. Follows(c)'
    BY <1>3, <1>8, <1>10, <1>13, <2>1, <2>2, <2>3
    DEF WaitRx, Follows, BeforeTx, AfterTx, Loaded
  <2> QED
    BY <1>5, <1>7, <1>8, <1>9, <1>13, <2>1, <2>2, <2>4, <2>5
    DEF WaitRx, Loaded
<1>14. CASE FlushOverflow(c)
  <2>1. Goto(c, "waitRx") /\ pc[c] = "flushOverflow" BY <1>14 DEF FlushOverflow, At
  <2>2. pc'[c] = "waitRx" BY <2>1, <1>4, <1>5
  <2>3. ChipInv' BY <1>14, <1>3 DEF FlushOverflow, SFRX, ChipInv
  <2>4. Follows(c)'
    BY <1>3, <1>7, <1>8, <1>10, <1>14, <2>1, <2>2
    DEF FlushOverflow, SFRX, ChipInv, Follows, BeforeTx, AfterTx, Loaded, SendSteps
  <2> QED
    BY <1>3, <1>5, <1>7, <1>8, <1>9, <1>14, <2>1, <2>3, <2>4
    DEF FlushOverflow, SFRX, Follows, Loaded, SendSteps
<1>15. CASE LoadFifo(c)
  <2>1. Goto(c, "strobeTx") /\ pc[c] = "loadFifo" BY <1>15 DEF LoadFifo, At
  <2>2. pc'[c] = "strobeTx" BY <2>1, <1>4, <1>5
  <2>3. ChipInv' BY <1>15, <1>3 DEF LoadFifo, ChipInv
  <2>4. Follows(c)'
    BY <1>3, <1>7, <1>8, <1>10, <1>15, <2>1, <2>2
    DEF LoadFifo, ChipInv, Follows, BeforeTx, AfterTx, Loaded, SendSteps
  <2> QED
    BY <1>3, <1>5, <1>7, <1>8, <1>9, <1>15, <2>1, <2>3, <2>4
    DEF LoadFifo, Follows, Loaded, SendSteps
<1>16. CASE StrobeTx(c)
  <2>1. Goto(c, "checkTx") /\ pc[c] = "strobeTx" BY <1>16 DEF StrobeTx, At
  <2>2. pc'[c] = "checkTx" BY <2>1, <1>4, <1>5
  <2>3. ChipInv' BY <1>16, <1>3 DEF StrobeTx, STX, ChipInv
  <2>4. Follows(c)'
    BY <1>3, <1>7, <1>8, <1>10, <1>16, <2>1, <2>2
    DEF StrobeTx, STX, ChipInv, Follows, BeforeTx, AfterTx, Loaded, SendSteps
  <2> QED
    BY <1>3, <1>5, <1>7, <1>8, <1>9, <1>16, <2>1, <2>3, <2>4
    DEF StrobeTx, STX, Follows, Loaded, SendSteps
<1>17. CASE CheckTx(c)
  <2> DEFINE step == IF marc = "TX" THEN "waitHigh" ELSE "toIdle"
  <2>1. Goto(c, step) /\ pc[c] = "checkTx" BY <1>17 DEF CheckTx, At
  <2>2. \/ step = "waitHigh" /\ marc = "TX"
        \/ step = "toIdle" /\ marc # "TX"
    OBVIOUS
  <2> HIDE DEF step
  <2>3. pc'[c] = step BY <2>1, <2>2, <1>4, <1>5
  <2>4. ChipInv' BY <1>17, <1>3 DEF CheckTx, ChipInv
  <2>5. /\ res'[c] = FALSE
        /\ \A d \in Contexts : d # c => res'[d] = res[d]
    BY <1>17 DEF CheckTx, RadioInv, TypeOK, JobTypeOK
  <2>6. Follows(c)'
    BY <1>3, <1>8, <1>10, <1>17, <2>1, <2>2, <2>3, <2>5
    DEF CheckTx, Follows, BeforeTx, AfterTx, Loaded
  <2> QED
    BY <1>5, <1>7, <1>8, <1>9, <1>17, <2>1, <2>2, <2>4, <2>5, <2>6
    DEF CheckTx, Loaded
<1>18. CASE WaitHigh(c)
  <2>1. Goto(c, "waitLow") /\ pc[c] = "waitHigh" BY <1>18 DEF WaitHigh, At
  <2>2. pc'[c] = "waitLow" BY <2>1, <1>4, <1>5
  <2>3. ChipInv' BY <1>18, <1>3 DEF WaitHigh, GDO0, ChipInv
  <2>4. Follows(c)'
    BY <1>3, <1>7, <1>8, <1>10, <1>18, <2>1, <2>2
    DEF WaitHigh, GDO0, ChipInv, Follows, BeforeTx, AfterTx, Loaded, SendSteps
  <2> QED
    BY <1>3, <1>5, <1>7, <1>8, <1>9, <1>18, <2>1, <2>3, <2>4
    DEF WaitHigh, GDO0, Follows, Loaded, SendSteps
<1>19. CASE WaitLow(c)
  <2>1. Goto(c, "checkEmpty") /\ pc[c] = "waitLow" BY <1>19 DEF WaitLow, At
  <2>2. pc'[c] = "checkEmpty" BY <2>1, <1>4, <1>5
  <2>3. ChipInv' BY <1>19, <1>3 DEF WaitLow, GDO0, ChipInv
  <2>4. Follows(c)'
    BY <1>3, <1>7, <1>8, <1>10, <1>19, <2>1, <2>2
    DEF WaitLow, GDO0, ChipInv, Follows, BeforeTx, AfterTx, Loaded, SendSteps
  <2> QED
    BY <1>3, <1>5, <1>7, <1>8, <1>9, <1>19, <2>1, <2>3, <2>4
    DEF WaitLow, GDO0, Follows, Loaded, SendSteps
<1>20. CASE CheckEmpty(c)
  <2>1. Goto(c, "toIdle") /\ pc[c] = "checkEmpty" BY <1>20 DEF CheckEmpty, At
  <2>2. pc'[c] = "toIdle" BY <2>1, <1>4, <1>5
  <2>3. ChipInv' BY <1>20, <1>3 DEF CheckEmpty, ChipInv
  <2>4. marc = "IDLE" /\ txFifo = <<>> /\ cur[c] \in Aired
    BY <1>3, <2>1 DEF Follows
  <2>5. /\ res'[c] = TRUE
        /\ \A d \in Contexts : d # c => res'[d] = res[d]
    <3> DEFINE empty == (txFifo = <<>>)
    <3>1. empty = TRUE BY <2>4
    <3> HIDE DEF empty
    <3>2. res' = [res EXCEPT ![c] = empty] BY <1>20 DEF CheckEmpty, empty
    <3> QED BY <3>1, <3>2 DEF RadioInv, TypeOK, JobTypeOK
  <2>6. Follows(c)'
    BY <1>10, <1>20, <2>2, <2>4, <2>5
    DEF CheckEmpty, Follows, BeforeTx, AfterTx
  <2> QED
    BY <1>5, <1>9, <1>20, <2>1, <2>3, <2>4, <2>5, <2>6
    DEF CheckEmpty, Loaded
<1>21. CASE ToIdle(c)
  <2>1. Goto(c, "flushTx") /\ pc[c] = "toIdle" BY <1>21 DEF ToIdle, At
  <2>2. pc'[c] = "flushTx" BY <2>1, <1>4, <1>5
  <2>3. ChipInv' BY <1>21, <1>3 DEF ToIdle, SIDLE, ChipInv
  <2>4. Follows(c)'
    BY <1>3, <1>7, <1>8, <1>10, <1>21, <2>1, <2>2
    DEF ToIdle, SIDLE, ChipInv, Follows, BeforeTx, AfterTx, Loaded, SendSteps
  <2> QED
    BY <1>3, <1>5, <1>7, <1>8, <1>9, <1>21, <2>1, <2>3, <2>4
    DEF ToIdle, SIDLE, Follows, Loaded, SendSteps
<1>22. CASE FlushTx(c)
  <2>1. Goto(c, "backToRx") /\ pc[c] = "flushTx" BY <1>22 DEF FlushTx, At
  <2>2. pc'[c] = "backToRx" BY <2>1, <1>4, <1>5
  <2>3. ChipInv' BY <1>22, <1>3 DEF FlushTx, SFTX, ChipInv
  <2>4. Follows(c)'
    BY <1>3, <1>7, <1>8, <1>10, <1>22, <2>1, <2>2
    DEF FlushTx, SFTX, ChipInv, Follows, BeforeTx, AfterTx, Loaded, SendSteps
  <2> QED
    BY <1>3, <1>5, <1>7, <1>8, <1>9, <1>22, <2>1, <2>3, <2>4
    DEF FlushTx, SFTX, Follows, Loaded, SendSteps
<1>23. CASE BackToRx(c)
  <2>1. Goto(c, "declareRx") /\ pc[c] = "backToRx" BY <1>23 DEF BackToRx, At
  <2>2. pc'[c] = "declareRx" BY <2>1, <1>4, <1>5
  <2>3. ChipInv' BY <1>23, <1>3 DEF BackToRx, SRX, ChipInv
  <2>4. Follows(c)'
    BY <1>3, <1>7, <1>8, <1>10, <1>23, <2>1, <2>2
    DEF BackToRx, SRX, ChipInv, Follows, BeforeTx, AfterTx, Loaded, SendSteps
  <2> QED
    BY <1>3, <1>5, <1>7, <1>8, <1>9, <1>23, <2>1, <2>3, <2>4
    DEF BackToRx, SRX, Follows, Loaded, SendSteps
<1>24. CASE DeclareRx(c)
  <2>1. Goto(c, "sendReturned") /\ pc[c] = "declareRx" BY <1>24 DEF DeclareRx, At
  <2>2. pc'[c] = "sendReturned" BY <2>1, <1>4, <1>5
  <2>3. ChipInv' BY <1>24, <1>3 DEF DeclareRx, ChipInv
  <2>4. Follows(c)'
    BY <1>3, <1>7, <1>8, <1>10, <1>24, <2>1, <2>2
    DEF DeclareRx, ChipInv, Follows, BeforeTx, AfterTx, Loaded, SendSteps
  <2> QED
    BY <1>3, <1>5, <1>7, <1>8, <1>9, <1>24, <2>1, <2>3, <2>4
    DEF DeclareRx, Follows, Loaded, SendSteps
<1> QED
  BY <1>11, <1>12, <1>13, <1>14, <1>15, <1>16, <1>17, <1>18, <1>19, <1>20, <1>21, <1>22, <1>23, <1>24 DEF SendData

\* The end of sendData: another attempt with the same message, which has not
\* gone out, or the truth about it for the caller.
LEMMA ReturnedSent ==
  ASSUME SendInv, NEW c \in Contexts, SendReturned(c)
  PROVE  Sent'
<1> USE DEF SendInv, Sent, chip
<1>1. Runs(c) /\ pc[c] = "sendReturned" /\ pc[c] \in Sending
  BY DEF SendReturned, At, Sending, CallSteps
<1>2. UNCHANGED <<chip, cur, res, nreq, onAir>> BY DEF SendReturned, job
<1>3. ChipInv' BY <1>2 DEF ChipInv
<1>4. UNCHANGED Aired BY <1>2 DEF Aired
<1>5. (res[c] <=> cur[c] \in Aired) BY <1>1 DEF Follows, AfterTx
<1>6. CASE ~res[c] /\ tries[c] > 1
  <2>1. Goto(c, "declareTx") /\ UNCHANGED finished BY <1>6 DEF SendReturned
  <2>2. /\ pc'[c] = "declareTx"
        /\ \A d \in Contexts : d # c => pc'[d] = pc[d]
    BY <2>1, GotoMoves
  <2>3. Follows(c)' BY <1>2, <1>4, <1>5, <1>6, <2>2
    DEF Follows, BeforeTx, AfterTx
  <2>4. ForSomeone' BY <1>1, <1>2, <2>2 DEF ForSomeone, Loaded
  <2>5. "declareTx" \in Sending BY DEF Sending, CallSteps
  <2> QED BY <1>1, <1>2, <1>3, <2>1, <2>3, <2>4, <2>5, SenderMoves
<1>7. CASE ~(~res[c] /\ tries[c] > 1)
  <2> DEFINE step == IF c = "main" THEN "loop" ELSE "leave"
  <2>1. /\ Goto(c, step)
        /\ finished' = finished \cup {<<cur[c], res[c]>>}
    BY <1>7 DEF SendReturned
  <2>2. step \notin Sending /\ step \notin Loaded
    BY DEF Sending, SendSteps, CallSteps, Loaded
  <2> HIDE DEF step
  <2>3. /\ pc'[c] = step
        /\ \A d \in Contexts : d # c => pc'[d] = pc[d]
    BY <2>1, GotoMoves
  <2>4. ASSUME NEW d \in Contexts PROVE Follows(d)'
    <3>1. Follows(d) OBVIOUS
    <3>2. CASE d = c
      BY <2>2, <2>3, <3>2
      DEF Follows, Sending, SendSteps, CallSteps, BeforeTx, AfterTx
    <3>3. CASE d # c BY <1>2, <1>4, <2>3, <3>1, <3>3 DEF Follows
    <3> QED BY <3>2, <3>3
  <2>5. ForSomeone'
    BY <1>1, <1>2, <2>2, <2>3 DEF ForSomeone, Loaded, Sending, SendSteps
  <2>6. Numbered' BY <1>2, <1>4, <2>1, <2>2, <2>3 DEF Numbered
  <2>7. ReportedOnce'
    BY <1>1, <1>2, <2>1, <2>2, <2>3 DEF ReportedOnce, Numbered, Contexts
  <2>8. AtMostOnceOnAir' BY <1>2 DEF AtMostOnceOnAir
  <2>9. ResultIsTruth'
    <3>1. (\E i \in DOMAIN onAir : onAir[i] = cur[c]) <=> res[c]
      BY <1>5 DEF Aired
    <3> SUFFICES ASSUME NEW f \in finished'
                 PROVE  f[2] <=> \E i \in DOMAIN onAir : onAir[i] = f[1]
      BY <1>2 DEF ResultIsTruth
    <3>2. CASE f \in finished BY <3>2 DEF ResultIsTruth
    <3>3. CASE f = <<cur[c], res[c]>> BY <3>1, <3>3
    <3> QED BY <2>1, <3>2, <3>3
  <2> QED BY <1>3, <2>4, <2>5, <2>6, <2>7, <2>8, <2>9
<1> QED BY <1>6, <1>7

\* A new message has a number that was never used.
LEMMA StartSent ==
  ASSUME SendInv, NEW c \in Contexts, NEW n, StartSend(c, n),
         pc[c] \notin Sending,
         UNCHANGED <<chip, res, onAir, finished>>
  PROVE  Sent'
<1> USE DEF SendInv, Sent, chip
<1>1. /\ pc'[c] = "declareTx"
      /\ \A d \in Contexts : d # c => pc'[d] = pc[d]
  BY GotoMoves DEF StartSend
<1>2. nreq \in Nat /\ \A d \in Contexts : cur[d] \in Nat
  BY DEF RadioInv, TypeOK, JobTypeOK
<1>3. /\ cur'[c] = nreq + 1 /\ nreq' = nreq + 1
      /\ \A d \in Contexts : d # c => cur'[d] = cur[d]
  BY DEF StartSend, RadioInv, TypeOK, JobTypeOK
<1>4. UNCHANGED Aired BY DEF Aired
<1>5. cur'[c] \notin Aired
  BY <1>2, <1>3 DEF Numbered
<1>6. ASSUME NEW d \in Contexts PROVE Follows(d)'
  <2>1. Follows(d) OBVIOUS
  <2>2. CASE d = c BY <1>1, <1>4, <1>5, <2>2 DEF Follows, BeforeTx, AfterTx
  <2>3. CASE d # c BY <1>1, <1>3, <1>4, <2>1, <2>3 DEF Follows
  <2> QED BY <2>2, <2>3
<1>7. ForSomeone'
  BY <1>1 DEF ForSomeone, Loaded, Sending, SendSteps
<1>8. \A m \in Aired : m \in Nat
  BY DEF RadioInv, TypeOK, HistoryTypeOK, Aired
<1>9. \A f \in finished : f[1] \in Nat
  BY DEF RadioInv, TypeOK, HistoryTypeOK
<1>10. Numbered'
  <2>1. \A d \in Contexts : cur'[d] <= nreq'
    BY <1>2, <1>3 DEF Numbered
  <2>2. \A d \in Contexts : pc'[d] \in Sending => cur'[d] > 0
    BY <1>1, <1>2, <1>3 DEF Numbered
  <2>3. cur'["main"] = cur'["isr"] => cur'["main"] = 0
    BY <1>2, <1>3 DEF Numbered, Contexts
  <2>4. \A m \in Aired' : m <= nreq' BY <1>2, <1>3, <1>4, <1>8 DEF Numbered
  <2>5. \A f \in finished' : f[1] <= nreq' BY <1>2, <1>3, <1>9 DEF Numbered
  <2> QED BY <2>1, <2>2, <2>3, <2>4, <2>5 DEF Numbered
<1>11. ReportedOnce'
  BY <1>1, <1>2, <1>3, <1>9 DEF ReportedOnce, Numbered
<1> QED
  BY <1>6, <1>7, <1>10, <1>11 DEF ChipInv, AtMostOnceOnAir, ResultIsTruth

\* The interrupt routine outside sendData: it uses the radio only where the
\* main loop is not sending.
LEMMA IsrSent ==
  ASSUME SendInv, Isr, ~SendData("isr")
  PROVE  Sent'
<1> USE DEF SendInv, chip, medium, cpu, job, history
<1>1. "isr" \in Contexts BY DEF Contexts
<1>2. ChipInv BY DEF Sent
<1>3. {"off", "entered", "dispatch", "leave", "readLevel", "readPacket",
       "rxToIdle", "rxFlush", "rxBack"} \cap Sending = {}
  BY DEF Sending, SendSteps, CallSteps
<1>4. ASSUME NEW step, step \notin Sending, pc["isr"] \notin Sending,
             Goto("isr", step), UNCHANGED <<marc, rxing, txFifo, syncSent>>,
             UNCHANGED <<cur, res, nreq, onAir, finished>>
      PROVE  Sent'
  BY <1>1, <1>2, <1>4, OthersMove DEF ChipInv
<1>6. ASSUME At("isr", "rxToIdle") \/ At("isr", "rxFlush")
               \/ At("isr", "rxBack")
      PROVE  /\ \A d \in Contexts : pc[d] \notin SendSteps
             /\ marc # "TX" /\ txFifo = <<>> /\ pc["isr"] \notin Sending
  <2>1. /\ Runs("isr") /\ pc["isr"] \in {"rxToIdle", "rxFlush", "rxBack"}
        /\ pc["isr"] \notin Sending
    BY <1>3, <1>6 DEF At
  <2>2. \A d \in Contexts : pc[d] \notin SendSteps
    BY <1>1, <2>1, NobodySends DEF ReceiveSteps
  <2> QED BY <2>1, <2>2 DEF Sent, ForSomeone, Loaded, SendSteps
<1>7. CASE EnterIsr
  BY <1>3, <1>4, <1>7 DEF EnterIsr
<1>8. CASE CheckState
  BY <1>3, <1>4, <1>8 DEF CheckState, At
<1>9. CASE ReadLevel
  BY <1>3, <1>4, <1>9 DEF ReadLevel, At
<1>10. CASE ReadPacket
  BY <1>3, <1>4, <1>10 DEF ReadPacket, At
<1>11. CASE RxToIdle
  <2>1. ChipInv' BY <1>11 DEF RxToIdle, SIDLE, ChipInv
  <2> QED BY <1>1, <1>3, <1>6, <1>11, <2>1, OthersMove DEF RxToIdle, SIDLE
<1>12. CASE RxFlush
  <2>1. ChipInv' BY <1>2, <1>12 DEF RxFlush, SFRX, ChipInv
  <2> QED BY <1>1, <1>3, <1>6, <1>12, <2>1, OthersMove DEF RxFlush, SFRX
<1>13. CASE RxBack
  <2>1. ChipInv' BY <1>2, <1>13 DEF RxBack, SRX, ChipInv
  <2> QED BY <1>1, <1>3, <1>6, <1>13, <2>1, OthersMove DEF RxBack, SRX
<1>14. CASE Discard
  BY <1>3, <1>4, <1>14 DEF Discard, At
<1>15. ASSUME NEW answer \in BOOLEAN, Dispatch(answer) PROVE Sent'
  <2>1. pc["isr"] \notin Sending BY <1>3, <1>15 DEF Dispatch, At
  <2>2. CASE answer
    BY <1>1, <1>15, <2>1, <2>2, StartSent DEF Dispatch
  <2>3. CASE ~answer
    BY <1>3, <1>4, <1>15, <2>1, <2>3 DEF Dispatch
  <2> QED BY <2>2, <2>3
<1>16. CASE LeaveIsr
  BY <1>3, <1>4, <1>16 DEF LeaveIsr, At
<1> QED
  BY <1>7, <1>8, <1>9, <1>10, <1>11, <1>12, <1>13, <1>14, <1>15, <1>16
  DEF Isr

\* The main loop outside sendData: start, sleep, and the message of the sketch.
LEMMA MainSent ==
  ASSUME SendInv, Main, ~SendData("main")
  PROVE  Sent'
<1> USE DEF SendInv, chip, medium, cpu, job, history
<1>1. "main" \in Contexts BY DEF Contexts
<1>2. ChipInv BY DEF Sent
<1>3. (BootSteps \cup SleepSteps \cup {"loop"}) \cap Sending = {}
  BY DEF BootSteps, SleepSteps, Sending, SendSteps, CallSteps
<1>4. {"boot", "bootRx", "bootIrq", "bootState", "sketchInit", "sleepIdle",
       "sleepOff", "asleep", "wakeUp", "wakeState", "loop"} \cap Sending = {}
  BY <1>3 DEF BootSteps, SleepSteps
<1>5. ASSUME Runs("main"), pc["main"] \notin Sending
      PROVE  /\ \A d \in Contexts : pc[d] \notin SendSteps
             /\ marc # "TX" /\ txFifo = <<>>
  <2>1. \A d \in Contexts : pc[d] \notin SendSteps
    BY <1>1, <1>5, NobodySends
  <2> QED BY <2>1 DEF Sent, ForSomeone, Loaded, SendSteps
<1>6. ASSUME NEW step, step \notin Sending, pc["main"] \notin Sending,
             Runs("main"), Goto("main", step),
             UNCHANGED <<cur, res, nreq, onAir, finished>>,
             ChipInv', marc' # "TX", txFifo' = <<>>
      PROVE  Sent'
  BY <1>1, <1>5, <1>6, OthersMove
<1>7. CASE Boot
  <2>1. ChipInv' BY <1>7 DEF Boot, ResetChip, ChipInv
  <2> QED BY <1>4, <1>6, <1>7, <2>1 DEF Boot, At, ResetChip
<1>8. CASE BootRx
  <2>1. ChipInv' BY <1>2, <1>8 DEF BootRx, SRX, ChipInv
  <2> QED BY <1>4, <1>5, <1>6, <1>8, <2>1 DEF BootRx, At, SRX
<1>9. CASE BootIrq
  <2>1. ChipInv' BY <1>2, <1>9 DEF BootIrq, ChipInv
  <2> QED BY <1>4, <1>5, <1>6, <1>9, <2>1 DEF BootIrq, At
<1>10. CASE BootState
  <2>1. ChipInv' BY <1>2, <1>10 DEF BootState, ChipInv
  <2> QED BY <1>4, <1>5, <1>6, <1>10, <2>1 DEF BootState, At
<1>11. CASE SketchInit
  <2>1. ChipInv' BY <1>11 DEF SketchInit, ResetChip, ChipInv
  <2> QED BY <1>4, <1>6, <1>11, <2>1 DEF SketchInit, At, ResetChip
<1>12. CASE MainSend
  BY <1>1, <1>4, <1>12, StartSent DEF MainSend, At
<1>13. ASSUME NEW ena \in BOOLEAN, EnableRfRx(ena) PROVE Sent'
  <2>1. ChipInv' BY <1>2, <1>13 DEF EnableRfRx, ChipInv
  <2>2. Goto("main", "loop")
    BY <1>13 DEF EnableRfRx, At, Goto, RadioInv, TypeOK, ControlTypeOK
  <2> QED BY <1>4, <1>5, <1>6, <1>13, <2>1, <2>2 DEF EnableRfRx, At
<1>14. CASE GoToSleep
  <2>1. ChipInv' BY <1>2, <1>14 DEF GoToSleep, ChipInv
  <2> QED BY <1>4, <1>5, <1>6, <1>14, <2>1 DEF GoToSleep, At
<1>15. CASE SleepIdle
  <2>1. ChipInv' BY <1>15 DEF SleepIdle, SIDLE, ChipInv
  <2> QED BY <1>4, <1>5, <1>6, <1>15, <2>1 DEF SleepIdle, At, SIDLE
<1>16. CASE SleepOff
  <2>1. ChipInv' BY <1>2, <1>16 DEF SleepOff, SPWD, ChipInv
  <2> QED BY <1>4, <1>5, <1>6, <1>16, <2>1 DEF SleepOff, At, SPWD
<1>17. CASE SleepOver
  <2>1. ChipInv' BY <1>2, <1>17 DEF SleepOver, ChipInv
  <2> QED BY <1>4, <1>5, <1>6, <1>17, <2>1 DEF SleepOver, At
<1>18. CASE WakeUp
  <2>1. ChipInv' BY <1>2, <1>18 DEF WakeUp, ChipInv
  <2> QED BY <1>4, <1>5, <1>6, <1>18, <2>1 DEF WakeUp, At
<1>19. CASE WakeState
  <2>1. ChipInv' BY <1>2, <1>19 DEF WakeState, ChipInv
  <2> QED BY <1>4, <1>5, <1>6, <1>19, <2>1 DEF WakeState, At
<1> QED
  BY <1>7, <1>8, <1>9, <1>10, <1>11, <1>12, <1>13, <1>14, <1>15, <1>16,
     <1>17, <1>18, <1>19 DEF Main

\* The chip by itself, as long as it does not finish a transmission: it leaves
\* the states in which a sender waits for it alone.
LEMMA ChipSent ==
  ASSUME SendInv, Chip \/ AirStart \/ AirEnd, ~TxEnd
  PROVE  Sent'
<1> USE DEF SendInv, Sent
<1>1. UNCHANGED <<txFifo, pc, cur, res, nreq, onAir, finished>>
  BY DEF Chip, RxEnd, RxFiltered, Calibrated, TxSync, TxEnd, AirStart, AirEnd,
     ChipQuiet, job, history
<1>2. UNCHANGED Aired BY <1>1 DEF Aired
<1>3. Numbered' /\ ReportedOnce' /\ AtMostOnceOnAir' /\ ResultIsTruth'
  BY <1>1, <1>2 DEF Numbered, ReportedOnce, AtMostOnceOnAir, ResultIsTruth
<1>4. /\ ChipInv'
      /\ marc' = marc \/ (marc \in {"RX", "CALRX"} /\ marc' # "TX")
      /\ \/ syncSent' = syncSent
         \/ /\ marc = "TX" /\ marc' = "TX" /\ syncSent' = TRUE
            /\ \A c \in Contexts : pc[c] # "checkTx"
  <2>1. CASE RxEnd BY <2>1 DEF RxEnd, ChipInv
  <2>2. CASE RxFiltered BY <2>2 DEF RxFiltered, ChipInv
  <2>3. CASE Calibrated BY <2>3 DEF Calibrated, ChipInv
  <2>4. CASE TxSync BY <2>4 DEF TxSync, ChipInv, PreambleOutlastsCheck
  <2>5. CASE AirStart BY <2>5 DEF AirStart, ChipInv
  <2>6. CASE AirEnd BY <2>6 DEF AirEnd, ChipInv
  <2> QED BY <2>1, <2>2, <2>3, <2>4, <2>5, <2>6 DEF Chip
<1>5. ASSUME NEW c \in Contexts PROVE Follows(c)'
  <2>1. Follows(c) OBVIOUS
  <2> QED BY <1>1, <1>2, <1>4, <2>1 DEF Follows
<1>6. ForSomeone'
  <2>1. ForSomeone OBVIOUS
  <2>2. marc' = "TX" => marc = "TX" BY <1>4
  <2> QED BY <1>1, <2>1, <2>2 DEF ForSomeone
<1> QED BY <1>3, <1>4, <1>5, <1>6

\* The end of a transmission: the one context that waits for it has its message
\* in the FIFO, and that message was not on the air before.
LEMMA TxEndSent ==
  ASSUME SendInv, TxEnd
  PROVE  Sent'
<1> USE DEF SendInv, Sent, job
<1>1. /\ marc = "TX" /\ syncSent /\ marc' = "IDLE" /\ ~syncSent'
      /\ txFifo' = <<>> /\ onAir' = onAir \o txFifo
      /\ UNCHANGED <<rxing, pc, cur, res, nreq, finished>>
      /\ \A c \in Contexts : pc[c] # "waitHigh"
  BY DEF TxEnd, PollSeesHigh
<1>2. PICK c \in Contexts : pc[c] \in {"checkTx", "waitHigh", "waitLow"}
  BY <1>1 DEF ForSomeone
<1>3. pc[c] = "waitLow" /\ txFifo = <<cur[c]>> /\ cur[c] \notin Aired
  <2>1. Follows(c) OBVIOUS
  <2> QED BY <1>1, <1>2, <2>1 DEF Follows
<1>4. \A d \in Contexts : d # c => pc[d] \notin SendSteps
  BY <1>3, OneSender DEF SendSteps
<1>5. onAir \in Seq(Nat) /\ cur[c] \in Nat
  BY DEF RadioInv, TypeOK, HistoryTypeOK, JobTypeOK
<1>6. /\ DOMAIN onAir' = 1..(Len(onAir) + 1) /\ DOMAIN onAir = 1..Len(onAir)
      /\ onAir'[Len(onAir) + 1] = cur[c]
      /\ \A i \in 1..Len(onAir) : onAir'[i] = onAir[i]
  <2>1. onAir' = onAir \o <<cur[c]>> BY <1>1, <1>3
  <2> QED BY <1>5, <2>1
<1>7. Len(onAir) \in Nat BY <1>5
<1>8. Aired' = Aired \cup {cur[c]}
  BY <1>6, <1>7 DEF Aired
<1>9. AtMostOnceOnAir'
  <2> SUFFICES ASSUME NEW i \in DOMAIN onAir', NEW j \in DOMAIN onAir',
                      onAir'[i] = onAir'[j]
               PROVE  i = j
    BY DEF AtMostOnceOnAir
  <2>1. \A k \in 1..Len(onAir) : onAir[k] # cur[c]
    BY <1>3, <1>6 DEF Aired
  <2>2. CASE i \in 1..Len(onAir) /\ j \in 1..Len(onAir)
    BY <1>6, <2>2 DEF AtMostOnceOnAir
  <2>3. CASE i \notin 1..Len(onAir) \/ j \notin 1..Len(onAir)
    BY <1>6, <1>7, <2>1, <2>3
  <2> QED BY <2>2, <2>3
<1>10. ResultIsTruth'
  <2>1. \A f \in finished : f[1] # cur[c]
    BY <1>3 DEF ReportedOnce, Sending, SendSteps
  <2> SUFFICES ASSUME NEW f \in finished
               PROVE  f[2] <=> \E i \in DOMAIN onAir' : onAir'[i] = f[1]
    BY <1>1 DEF ResultIsTruth
  <2>2. f[2] <=> \E i \in DOMAIN onAir : onAir[i] = f[1]
    BY DEF ResultIsTruth
  <2> QED BY <1>6, <1>7, <2>1, <2>2
<1>11. ASSUME NEW d \in Contexts PROVE Follows(d)'
  <2>1. CASE d = c
    BY <1>1, <1>3, <1>8, <2>1 DEF Follows, BeforeTx, AfterTx
  <2>2. CASE d # c
    <3>1. pc[d] \notin SendSteps /\ Follows(d) BY <1>4, <2>2
    <3>2. pc[d] \in Sending => cur[d] # cur[c]
      BY <2>2 DEF Numbered, Contexts
    <3> QED BY <1>1, <1>8, <3>1, <3>2
            DEF Follows, BeforeTx, AfterTx, Sending, SendSteps, CallSteps
  <2> QED BY <2>1, <2>2
<1>12. Numbered'
  <2>1. cur[c] <= nreq BY DEF Numbered
  <2> QED BY <1>1, <1>8, <2>1 DEF Numbered
<1> QED
  BY <1>1, <1>9, <1>10, <1>11, <1>12 DEF ChipInv, ForSomeone, ReportedOnce

-----------------------------------------------------------------------------
(* The theorems.                                                           *)

\* Power on: nobody sends.
LEMMA InitSent == Init => Sent
<1> SUFFICES ASSUME Init PROVE Sent OBVIOUS
<1> USE DEF Init
<1>1. Aired = {} BY DEF Aired
<1>2. \A c \in Contexts : pc[c] \notin Sending /\ pc[c] \notin Loaded
  BY DEF Contexts, Sending, SendSteps, CallSteps, Loaded
<1>3. \A c \in Contexts : Follows(c)
  BY <1>2 DEF Follows, Sending, SendSteps, CallSteps, BeforeTx, AfterTx
<1>4. ChipInv /\ ForSomeone BY DEF ChipInv, ForSomeone
<1>5. Numbered BY <1>1, <1>2 DEF Numbered, Contexts
<1>6. ReportedOnce /\ AtMostOnceOnAir /\ ResultIsTruth
  BY DEF ReportedOnce, AtMostOnceOnAir, ResultIsTruth
<1> QED BY <1>3, <1>4, <1>5, <1>6 DEF Sent

\* SendInv is inductive.
LEMMA SendStep ==
  ASSUME SendInv, [Next]_vars
  PROVE  SendInv'
<1>1. RadioInv' BY RadioStep DEF SendInv
<1>2. Sent'
  <2>1. CASE SendData("main")
    BY <2>1, SenderSent, ReturnedSent DEF Contexts
  <2>2. CASE SendData("isr")
    BY <2>2, SenderSent, ReturnedSent DEF Contexts
  <2>3. CASE Main /\ ~SendData("main") BY <2>3, MainSent
  <2>4. CASE Isr /\ ~SendData("isr") BY <2>4, IsrSent
  <2>5. CASE (Chip \/ AirStart \/ AirEnd) /\ ~TxEnd BY <2>5, ChipSent
  <2>6. CASE TxEnd BY <2>6, TxEndSent
  <2>7. CASE UNCHANGED vars
    <3>1. UNCHANGED Aired BY <2>7 DEF vars, history, Aired
    <3>2. UNCHANGED <<marc, rxing, syncSent, txFifo, pc, cur, res, nreq,
                      onAir, finished>>
      BY <2>7 DEF vars, chip, job, history
    <3> QED BY <3>1, <3>2
      DEF SendInv, Sent, ChipInv, Numbered, Follows, ForSomeone, ReportedOnce,
          AtMostOnceOnAir, ResultIsTruth
  <2> QED BY <2>1, <2>2, <2>3, <2>4, <2>5, <2>6, <2>7 DEF Next
<1> QED BY <1>1, <1>2 DEF SendInv

\* Power on establishes what every step keeps.
LEMMA InitSend == Init => SendInv
BY InitTypeOK, InitRadio, InitSent
DEF SendInv, RadioInv, Init, HasPacket, Contexts

\* A message goes on the air at most once, whatever the retries of
\* SWPACKET::send do: sendData reports a failure only if nothing went out.
THEOREM NeverSentTwice == Spec => []AtMostOnceOnAir
<1>1. SendInv /\ [Next]_vars => SendInv' BY SendStep
<1>2. SendInv => AtMostOnceOnAir BY DEF SendInv, Sent
<1> QED BY InitSend, <1>1, <1>2, PTL DEF Spec

\* The result of a send is true exactly when its message went out, for either
\* caller of sendData and any number of attempts.
THEOREM CallerKnows == Spec => []ResultIsTruth
<1>1. SendInv /\ [Next]_vars => SendInv' BY SendStep
<1>2. SendInv => ResultIsTruth BY DEF SendInv, Sent
<1> QED BY InitSend, <1>1, <1>2, PTL DEF Spec

-------------------------------------------------------------------------------
(***************************************************************************)
(* Proofs about the receiving half of RadioNode, for every value of the    *)
(* constants: that a board which has sent once goes on listening, and that *)
(* what isrGDO0event hands to the SWAP layer is a subsequence of what was  *)
(* on the air (LossyChannel).                                              *)
(***************************************************************************)

\* The chip receives, or will without another strobe.
Listening == marc \in {"CALRX", "RX"}

\* The interrupt routine past the place where it takes the edge.
Serving == {"entered"} \cup ReceiveSteps

\* Until a send declares RX for the first time, rfState keeps the interrupt
\* routine out of the radio: so it is during the start of the board.
Undeclared ==
  /\ pc["main"] \in BootSteps => rfState[IsrDriver] = "IDLE"
  /\ rfState[IsrDriver] = "IDLE" => pc["isr"] \in {"off", "entered", "leave"}

\* Inside sendData, the object the interrupt routine looks at is not in RX.
NotInRx ==
  \A c \in Contexts : pc[c] \in SendSteps => rfState[IsrDriver] # "RX"

\* The places of the code that sleep come after a call of goToSleep.
HasSlept == pc["main"] \in SleepSteps => slept > 0

\* The two strobes SIDLE and SRX with the flush between them take the chip to
\* RX from wherever it was.
ThroughIdle ==
  /\ pc["isr"] \in {"rxFlush", "rxBack"} => marc = "IDLE"
  /\ \A c \in Contexts : pc[c] = "backToRx" => marc = "IDLE"
  /\ \A c \in Contexts : pc[c] = "declareRx" => Listening

\* With rfState in RX, the chip listens, or an edge is waiting, or the edge
\* has been taken and the strobes are still to come.
WillListen ==
  rfState[IsrDriver] = "RX" /\ slept = 0
    => Listening \/ irqFlag \/ pc["isr"] \in Serving

\* The inductive invariant behind NeverDeaf.
Hearing == Undeclared /\ NotInRx /\ HasSlept /\ ThroughIdle /\ WillListen
HearInv == SendInv /\ Hearing

-----------------------------------------------------------------------------
\* The packets in the RX FIFO, and those the SWAP layer has got.
Held   == {rxFifo[i] : i \in DOMAIN rxFifo}
Handed == {delivered[i] : i \in DOMAIN delivered}

\* Where ccPacket holds what this call of receiveData has read.
AfterRead == {"rxToIdle", "rxFlush", "rxBack", "dispatch"}

\* The chip receives the packet that is on the air, and that is the last one.
OnTheAir == /\ air # 0 => air = seen
            /\ rxing # NoRx => rxing = air

\* The packets on their way through the board are in the order of the air:
\* handed over, read, in the FIFO, being received.
Ordered ==
  /\ \A i, j \in DOMAIN rxFifo : i < j => rxFifo[i] < rxFifo[j]
  /\ \A p \in Held : 0 < p /\ p <= seen /\ (rxing # NoRx => p < rxing)
  /\ \A q \in Handed : q <= seen /\ (rxing # NoRx => q < rxing)
  /\ \A q \in Handed, p \in Held : q < p

\* ccPacket is static: what it holds counts only between the read and the end
\* of the same call.
Fresh ==
  pc["isr"] \in AfterRead /\ pkt # NoPkt =>
    /\ pkt <= seen /\ (rxing # NoRx => pkt < rxing)
    /\ \A q \in Handed : q < pkt
    /\ \A p \in Held : pkt < p

\* The inductive invariant behind DeliversAsChannel.
ChannelInv == RadioInv /\ OnTheAir /\ Ordered /\ Fresh

-----------------------------------------------------------------------------
(* Refinement of LossyChannel.                                             *)

\* Steps that bring no new packet to the air, to the microcontroller or to the
\* SWAP layer: a reception may end or be cut off, and the FIFO be emptied.
Motion ==
  /\ seen' = seen /\ delivered' = delivered
  /\ \/ UNCHANGED <<air, rxing>>
     \/ rxing' = NoRx /\ air' \in {air, 0}
  /\ \/ rxFifo' \in {rxFifo, <<>>}
     \/ rxing # NoRx /\ rxing' = NoRx /\ rxFifo' = Append(rxFifo, rxing)

\* The packet that is being received is younger than all that are here.
LEMMA MotionOrdered ==
  ASSUME ChannelInv, Motion
  PROVE  /\ OnTheAir' /\ Ordered'
         /\ \A p \in Held' : p \in Held \/ (rxing # NoRx /\ p = rxing)
<1> USE DEF ChannelInv, RadioInv, TypeOK, ChipTypeOK
<1>1. rxFifo \in Seq(Nat) /\ rxing \in Nat /\ seen \in Nat OBVIOUS
<1>2. OnTheAir' BY DEF OnTheAir, Motion, NoRx
<1>3. Handed' = Handed BY DEF Handed, Motion
<1>4. CASE rxFifo' = rxFifo
  <2>1. Held' = Held BY <1>4 DEF Held
  <2> QED BY <1>2, <1>3, <1>4, <2>1 DEF Ordered, Motion
<1>5. CASE rxFifo' = <<>>
  <2>1. Held' = {} BY <1>5 DEF Held
  <2> QED BY <1>2, <1>3, <1>5, <2>1 DEF Ordered, Motion
<1>6. CASE rxing # NoRx /\ rxing' = NoRx /\ rxFifo' = Append(rxFifo, rxing)
  <2>1. /\ DOMAIN rxFifo' = 1..(Len(rxFifo) + 1)
        /\ DOMAIN rxFifo = 1..Len(rxFifo) /\ Len(rxFifo) \in Nat
        /\ rxFifo'[Len(rxFifo) + 1] = rxing
        /\ \A i \in 1..Len(rxFifo) : rxFifo'[i] = rxFifo[i]
    BY <1>1, <1>6
  <2>2. Held' = Held \cup {rxing}
    <3> DEFINE n == Len(rxFifo)
    <3>1. 1..(n + 1) = (1..n) \cup {n + 1} BY <2>1
    <3> HIDE DEF n
    <3> QED BY <2>1, <3>1 DEF Held, n
  <2>3. 0 < rxing /\ rxing <= seen
    BY <1>1, <1>6 DEF OnTheAir, NoRx
  <2>4. \A i, j \in DOMAIN rxFifo' : i < j => rxFifo'[i] < rxFifo'[j]
    <3> SUFFICES ASSUME NEW i \in 1..(Len(rxFifo) + 1),
                        NEW j \in 1..(Len(rxFifo) + 1), i < j
                 PROVE  rxFifo'[i] < rxFifo'[j]
      BY <2>1
    <3>1. i \in 1..Len(rxFifo) /\ rxFifo'[i] = rxFifo[i] BY <2>1
    <3>2. CASE j \in 1..Len(rxFifo) BY <2>1, <3>1, <3>2 DEF Ordered
    <3>3. CASE j = Len(rxFifo) + 1
      <4>1. rxFifo[i] \in Held BY <2>1, <3>1 DEF Held
      <4>2. rxFifo[i] < rxing BY <1>6, <4>1 DEF Ordered
      <4> QED BY <2>1, <3>1, <3>3, <4>2
    <3> QED BY <2>1, <3>2, <3>3
  <2>5. /\ \A p \in Held' : 0 < p /\ p <= seen
        /\ \A q \in Handed : q <= seen
        /\ \A q \in Handed, p \in Held' : q < p
    BY <1>6, <2>2, <2>3 DEF Ordered
  <2> QED BY <1>2, <1>3, <1>6, <2>2, <2>4, <2>5 DEF Ordered, Motion
<1> QED BY <1>4, <1>5, <1>6 DEF Motion

\* With it, what the interrupt routine has read stays the next packet.
LEMMA MotionKeeps ==
  ASSUME ChannelInv, Motion, pkt' = pkt,
         pc'["isr"] \in AfterRead => pc["isr"] \in AfterRead
  PROVE  OnTheAir' /\ Ordered' /\ Fresh'
<1>1. /\ OnTheAir' /\ Ordered'
      /\ \A p \in Held' : p \in Held \/ (rxing # NoRx /\ p = rxing)
  BY MotionOrdered
<1>2. Handed' = Handed /\ seen' = seen /\ rxing' \in {rxing, NoRx}
  BY DEF Handed, Motion
<1>3. Fresh' BY <1>1, <1>2 DEF ChannelInv, Fresh
<1> QED BY <1>1, <1>3

\* Every strobe is such a step.
LEMMA StrobeMotion ==
  ASSUME SRX \/ SIDLE \/ SFRX \/ SFTX \/ STX \/ SPWD \/ ResetChip,
         UNCHANGED medium, UNCHANGED delivered
  PROVE  Motion
<1> USE DEF Motion, medium
<1>1. CASE SRX BY <1>1 DEF SRX
<1>2. CASE SIDLE
  <2>1. CASE rxing # NoRx /\ Len(rxFifo) < FifoSlots BY <1>2, <2>1 DEF SIDLE
  <2>2. CASE ~(rxing # NoRx /\ Len(rxFifo) < FifoSlots)
    BY <1>2, <2>2 DEF SIDLE
  <2> QED BY <2>1, <2>2
<1>3. CASE SFRX BY <1>3 DEF SFRX
<1>4. CASE SFTX BY <1>4 DEF SFTX
<1>5. CASE STX BY <1>5 DEF STX
<1>6. CASE SPWD BY <1>6 DEF SPWD
<1>7. CASE ResetChip BY <1>7 DEF ResetChip
<1> QED BY <1>1, <1>2, <1>3, <1>4, <1>5, <1>6, <1>7

\* sendData receives nothing, in either context.
LEMMA SendMotion ==
  ASSUME ChannelInv, NEW c \in Contexts, SendData(c)
  PROVE  /\ Motion /\ pkt' = pkt
         /\ pc'["isr"] \in AfterRead => pc["isr"] \in AfterRead
<1> USE DEF chip, medium, cpu, job, history
<1>1. pkt' = pkt /\ UNCHANGED medium /\ UNCHANGED delivered
  BY DEF SendData, DeclareTx, EnterRx, WaitRx, FlushOverflow, LoadFifo,
     StrobeTx, CheckTx, WaitHigh, WaitLow, CheckEmpty, ToIdle, FlushTx,
     BackToRx, DeclareRx, SendReturned
<1>2. UNCHANGED <<rxFifo, rxing>> => Motion BY <1>1 DEF Motion
<1>3. Motion
  BY <1>1, <1>2, StrobeMotion
  DEF SendData, DeclareTx, EnterRx, WaitRx, FlushOverflow, LoadFifo,
      StrobeTx, CheckTx, WaitHigh, WaitLow, CheckEmpty, ToIdle, FlushTx,
      BackToRx, DeclareRx, SendReturned
<1>4. \E step \in Sending \cup {"loop", "leave"} : Goto(c, step)
  BY DEF SendData, DeclareTx, EnterRx, WaitRx, FlushOverflow, LoadFifo,
     StrobeTx, CheckTx, WaitHigh, WaitLow, CheckEmpty, ToIdle, FlushTx,
     BackToRx, DeclareRx, SendReturned, Sending, SendSteps, CallSteps
<1>5. pc'["isr"] \in Sending \cup {"loop", "leave"} \/ pc'["isr"] = pc["isr"]
  BY <1>4, GotoMoves DEF ChannelInv, Contexts
<1>6. AfterRead \cap (Sending \cup {"loop", "leave"}) = {}
  BY DEF AfterRead, Sending, SendSteps, CallSteps
<1> QED BY <1>1, <1>3, <1>5, <1>6

\* Nor does the main loop.
LEMMA MainMotion ==
  ASSUME ChannelInv, Main
  PROVE  /\ Motion /\ pkt' = pkt
         /\ pc'["isr"] \in AfterRead => pc["isr"] \in AfterRead
<1> USE DEF chip, medium, cpu, job, history
<1>1. CASE SendData("main") BY <1>1, SendMotion DEF Contexts
<1>2. CASE ~SendData("main")
  <2>1. pkt' = pkt /\ UNCHANGED medium /\ UNCHANGED delivered
    BY <1>2 DEF Main, Boot, BootRx, BootIrq, BootState, SketchInit, MainSend,
       EnableRfRx, GoToSleep, SleepIdle, SleepOff, SleepOver, WakeUp,
       WakeState
  <2>2. UNCHANGED <<rxFifo, rxing>> => Motion BY <2>1 DEF Motion
  <2>3. Motion
    BY <1>2, <2>1, <2>2, StrobeMotion
    DEF Main, Boot, BootRx, BootIrq, BootState, SketchInit, MainSend,
        EnableRfRx, GoToSleep, SleepIdle, SleepOff, SleepOver, WakeUp,
        WakeState
  <2>4. UNCHANGED pc \/ \E step \in MainSteps : Goto("main", step)
    BY <1>2 DEF Main, Boot, BootRx, BootIrq, BootState, SketchInit, MainSend,
       EnableRfRx, GoToSleep, SleepIdle, SleepOff, SleepOver, WakeUp,
       WakeState, StartSend, MainSteps, BootSteps, SleepSteps, CallSteps
  <2>5. pc'["isr"] = pc["isr"]
    BY <2>4, GotoMoves DEF ChannelInv, Contexts
  <2> QED BY <2>1, <2>3, <2>5
<1> QED BY <1>1, <1>2

\* The interrupt routine takes one packet out of the FIFO, or none, and hands
\* over what it has taken, or nothing.
LEMMA IsrChannel ==
  ASSUME ChannelInv, Isr
  PROVE  /\ OnTheAir' /\ Ordered' /\ Fresh'
         /\ seen' = seen
         /\ \/ delivered' = delivered
            \/ /\ pkt \in 1..seen /\ delivered' = Append(delivered, pkt)
               /\ \A q \in Handed : q < pkt
<1> USE DEF chip, medium, cpu, job, history
<1>1. ASSUME Motion, pkt' = pkt, NEW step, Goto("isr", step),
             step \in AfterRead => pc["isr"] \in AfterRead
      PROVE  /\ OnTheAir' /\ Ordered' /\ Fresh'
             /\ seen' = seen /\ delivered' = delivered
  <2>1. pc'["isr"] = step BY <1>1, GotoMoves DEF ChannelInv, Contexts
  <2> QED BY <1>1, <2>1, MotionKeeps DEF Motion
<1>2. UNCHANGED <<air, seen, rxFifo, rxing, delivered>> => Motion
  BY DEF Motion
<1>3. CASE EnterIsr
  BY <1>1, <1>2, <1>3 DEF EnterIsr, AfterRead
<1>4. CASE CheckState
  BY <1>1, <1>2, <1>4 DEF CheckState, AfterRead
<1>5. CASE ReadLevel
  <2>1. CASE rxFifo # <<>> /\ marc # "RXOVF"
    BY <1>1, <1>2, <1>5, <2>1 DEF ReadLevel, AfterRead
  <2>2. CASE ~(rxFifo # <<>> /\ marc # "RXOVF")
    <3>1. Motion /\ pkt' = NoPkt
      BY <1>2, <1>5, <2>2 DEF ReadLevel
    <3> QED BY <3>1, MotionOrdered DEF Fresh, Motion
  <2> QED BY <2>1, <2>2
<1>6. CASE ReadPacket
  <2>1. rxFifo # <<>> /\ rxFifo \in Seq(Nat)
    BY <1>6 DEF ReadPacket, At, ChannelInv, RadioInv, HasPacket, TypeOK,
       ChipTypeOK
  <2>2. /\ pkt' = rxFifo[1]
        /\ DOMAIN rxFifo = 1..Len(rxFifo) /\ Len(rxFifo) \in Nat \ {0}
        /\ DOMAIN rxFifo' = 1..(Len(rxFifo) - 1)
        /\ \A i \in 1..(Len(rxFifo) - 1) : rxFifo'[i] = rxFifo[i + 1]
    BY <1>6, <2>1 DEF ReadPacket
  <2>3. UNCHANGED <<air, seen, rxing, delivered>> /\ Handed' = Handed
    BY <1>6 DEF ReadPacket, Handed
  <2>4. pkt' \in Held BY <2>2 DEF Held
  <2>5. \A p \in Held' : p \in Held /\ pkt' < p
    <3> SUFFICES ASSUME NEW i \in 1..(Len(rxFifo) - 1)
                 PROVE  rxFifo[i + 1] \in Held /\ rxFifo[1] < rxFifo[i + 1]
      BY <2>2 DEF Held
    <3>1. i + 1 \in DOMAIN rxFifo /\ 1 \in DOMAIN rxFifo /\ 1 < i + 1
      BY <2>2
    <3> QED BY <3>1 DEF ChannelInv, Ordered, Held
  <2>6. \A i, j \in DOMAIN rxFifo' : i < j => rxFifo'[i] < rxFifo'[j]
    <3> SUFFICES ASSUME NEW i \in 1..(Len(rxFifo) - 1),
                        NEW j \in 1..(Len(rxFifo) - 1), i < j
                 PROVE  rxFifo[i + 1] < rxFifo[j + 1]
      BY <2>2
    <3>1. i + 1 \in DOMAIN rxFifo /\ j + 1 \in DOMAIN rxFifo /\ i + 1 < j + 1
      BY <2>2
    <3> QED BY <3>1 DEF ChannelInv, Ordered
  <2> QED
    BY <2>3, <2>4, <2>5, <2>6 DEF ChannelInv, OnTheAir, Ordered, Fresh
<1>7. CASE RxToIdle
  BY <1>1, <1>7, StrobeMotion DEF RxToIdle, At, AfterRead
<1>8. CASE RxFlush
  BY <1>1, <1>8, StrobeMotion DEF RxFlush, At, AfterRead
<1>9. CASE RxBack
  BY <1>1, <1>9, StrobeMotion DEF RxBack, At, AfterRead
<1>10. CASE Discard
  BY <1>1, <1>2, <1>10 DEF Discard, AfterRead
<1>11. ASSUME NEW answer \in BOOLEAN, Dispatch(answer)
       PROVE  /\ OnTheAir' /\ Ordered' /\ Fresh' /\ seen' = seen
              /\ pkt \in 1..seen /\ delivered' = Append(delivered, pkt)
              /\ \A q \in Handed : q < pkt
  <2>1. /\ pc["isr"] \in AfterRead /\ pkt # NoPkt
        /\ delivered' = Append(delivered, pkt)
        /\ UNCHANGED <<air, seen, rxing, rxFifo, pkt>>
    BY <1>11 DEF Dispatch, At, AfterRead
  <2>2. /\ pkt <= seen /\ (rxing # NoRx => pkt < rxing)
        /\ \A q \in Handed : q < pkt
        /\ \A p \in Held : pkt < p
    BY <2>1 DEF ChannelInv, Fresh
  <2>3. delivered \in Seq(Nat) /\ pkt \in Nat /\ seen \in Nat
    BY DEF ChannelInv, RadioInv, TypeOK, HistoryTypeOK, JobTypeOK, ChipTypeOK
  <2>4. Handed' = Handed \cup {pkt}
    <3> DEFINE n == Len(delivered)
    <3>1. /\ DOMAIN delivered' = 1..(n + 1) /\ DOMAIN delivered = 1..n
          /\ delivered'[n + 1] = pkt /\ n \in Nat
          /\ \A i \in 1..n : delivered'[i] = delivered[i]
      BY <2>1, <2>3
    <3>2. 1..(n + 1) = (1..n) \cup {n + 1} BY <3>1
    <3> HIDE DEF n
    <3> QED BY <3>1, <3>2 DEF Handed
  <2>5. Held' = Held BY <2>1 DEF Held
  <2>6. pc'["isr"] \notin AfterRead
    <3>1. Goto("isr", "declareTx") \/ Goto("isr", "leave")
      BY <1>11 DEF Dispatch, StartSend
    <3> QED BY <3>1, GotoMoves DEF ChannelInv, Contexts, AfterRead
  <2>7. OnTheAir' /\ Fresh'
    BY <2>1, <2>6 DEF ChannelInv, OnTheAir, Fresh
  <2>8. Ordered'
    BY <2>1, <2>2, <2>4, <2>5 DEF ChannelInv, Ordered
  <2>9. pkt \in 1..seen BY <2>1, <2>2, <2>3 DEF NoPkt
  <2> QED BY <2>1, <2>2, <2>7, <2>8, <2>9
<1>12. CASE LeaveIsr
  BY <1>1, <1>2, <1>12 DEF LeaveIsr, AfterRead
<1>13. CASE SendData("isr")
  BY <1>13, SendMotion, MotionKeeps DEF Contexts, Motion
<1> QED
  BY <1>3, <1>4, <1>5, <1>6, <1>7, <1>8, <1>9, <1>10, <1>11, <1>12, <1>13
  DEF Isr

\* The chip ends receptions; only another station begins one, with the next
\* number.
LEMMA ChipChannel ==
  ASSUME ChannelInv, Chip \/ AirStart \/ AirEnd
  PROVE  /\ OnTheAir' /\ Ordered' /\ Fresh'
         /\ seen' = seen \/ seen' = seen + 1
         /\ delivered' = delivered
<1> USE DEF ChipQuiet, history
<1>1. UNCHANGED <<pkt, pc, delivered>>
  BY DEF Chip, RxEnd, RxFiltered, Calibrated, TxSync, TxEnd, AirStart, AirEnd
<1>2. CASE Chip \/ AirEnd
  <2>1. RxEnd => Motion BY DEF RxEnd, Motion
  <2>2. RxFiltered => Motion BY DEF RxFiltered, Motion
  <2>3. Calibrated \/ TxSync \/ TxEnd => Motion
    BY DEF Calibrated, TxSync, TxEnd, Motion
  <2>4. AirEnd => Motion BY DEF AirEnd, Motion
  <2>5. Motion => OnTheAir' /\ Ordered' /\ Fresh' /\ seen' = seen
    BY <1>1, MotionKeeps DEF Motion
  <2> QED BY <1>1, <1>2, <2>1, <2>2, <2>3, <2>4, <2>5 DEF Chip
<1>3. CASE AirStart
  <2>1. /\ air = 0 /\ seen' = seen + 1 /\ air' = seen + 1
        /\ rxing' \in {NoRx, seen + 1} /\ UNCHANGED rxFifo
    BY <1>3 DEF AirStart
  <2>2. Held' = Held /\ Handed' = Handed BY <1>1, <2>1 DEF Held, Handed
  <2>3. seen \in Nat /\ Held \subseteq Nat /\ Handed \subseteq Nat /\ pkt \in Nat
    BY DEF ChannelInv, RadioInv, TypeOK, ChipTypeOK, HistoryTypeOK, JobTypeOK,
       Held, Handed
  <2>4. OnTheAir' BY <2>1 DEF OnTheAir
  <2>5. Ordered' BY <2>1, <2>2, <2>3 DEF ChannelInv, Ordered
  <2>6. Fresh' BY <1>1, <2>1, <2>2, <2>3 DEF ChannelInv, Fresh
  <2> QED BY <1>1, <2>1, <2>4, <2>5, <2>6
<1> QED BY <1>2, <1>3

\* ChannelInv is inductive, and each step is one of the channel or none.
LEMMA ChannelStep ==
  ASSUME ChannelInv, [Next]_vars
  PROVE  ChannelInv' /\ [Channel!Next]_<<seen, delivered>>
<1>1. RadioInv' BY RadioStep DEF ChannelInv
<1>2. CASE Main
  <2>1. OnTheAir' /\ Ordered' /\ Fresh' BY <1>2, MainMotion, MotionKeeps
  <2>2. UNCHANGED <<seen, delivered>> BY <1>2, MainMotion DEF Motion
  <2> QED BY <1>1, <2>1, <2>2 DEF ChannelInv
<1>3. CASE Isr
  <2>1. OnTheAir' /\ Ordered' /\ Fresh' BY <1>3, IsrChannel
  <2>2. [Channel!Next]_<<seen, delivered>>
    <3>1. CASE delivered' = delivered BY <1>3, <3>1, IsrChannel
    <3>2. CASE /\ pkt \in 1..seen /\ delivered' = Append(delivered, pkt)
               /\ seen' = seen /\ \A q \in Handed : q < pkt
      <4>1. Channel!Deliver(pkt) BY <3>2 DEF Channel!Deliver, Handed
      <4> QED BY <3>2, <4>1 DEF Channel!Next
    <3> QED BY <1>3, <3>1, <3>2, IsrChannel
  <2> QED BY <1>1, <2>1, <2>2 DEF ChannelInv
<1>4. CASE Chip \/ AirStart \/ AirEnd
  <2>1. OnTheAir' /\ Ordered' /\ Fresh' BY <1>4, ChipChannel
  <2>2. [Channel!Next]_<<seen, delivered>>
    BY <1>4, ChipChannel DEF Channel!Next, Channel!Offer
  <2> QED BY <1>1, <2>1, <2>2 DEF ChannelInv
<1>5. CASE UNCHANGED vars
  <2>1. UNCHANGED <<air, seen, rxing, rxFifo, delivered, pkt, pc>>
    BY <1>5 DEF vars, chip, medium, history
  <2>2. Held' = Held /\ Handed' = Handed BY <2>1 DEF Held, Handed
  <2> QED BY <1>1, <2>1, <2>2 DEF ChannelInv, OnTheAir, Ordered, Fresh
<1> QED BY <1>2, <1>3, <1>4, <1>5 DEF Next

\* The board is a lossy channel: the SWAP layer gets packets that were on the
\* air, in that order and none of them twice, although receiveData empties the
\* FIFO after one packet and ccPacket outlives every call.
THEOREM BoardIsLossyChannel == Spec => DeliversAsChannel
<1>1. Init => ChannelInv
  <2> SUFFICES ASSUME Init PROVE ChannelInv OBVIOUS
  <2>1. RadioInv
    BY InitTypeOK, InitRadio DEF RadioInv, Init, HasPacket, Contexts
  <2>2. Held = {} /\ Handed = {} BY DEF Init, Held, Handed
  <2> QED BY <2>1, <2>2 DEF Init, ChannelInv, OnTheAir, Ordered, Fresh
<1>2. Init => Channel!Init BY DEF Init, Channel!Init
<1>3. ChannelInv /\ [Next]_vars => ChannelInv' BY ChannelStep
<1>4. ChannelInv /\ [Next]_vars => [Channel!Next]_<<seen, delivered>>
  BY ChannelStep
<1> QED BY <1>1, <1>2, <1>3, <1>4, PTL DEF Spec, DeliversAsChannel, Channel!Spec

-----------------------------------------------------------------------------
(* Never deaf.                                                             *)

\* A sender declares TX before it touches the chip, and declares RX when the
\* chip is on its way to RX.
LEMMA SendHears ==
  ASSUME HearInv, NEW c \in Contexts, SendData(c)
  PROVE  Hearing'
<1> USE DEF HearInv, SendInv, Hearing, chip, medium, cpu, job, history
<1>1. Runs(c) /\ pc[c] \in Sending
  BY DEF SendData, At, Sending, SendSteps, CallSteps, DeclareTx, EnterRx,
     WaitRx, FlushOverflow, LoadFifo, StrobeTx, CheckTx, WaitHigh, WaitLow,
     CheckEmpty, ToIdle, FlushTx, BackToRx, DeclareRx, SendReturned
<1>2. \A d \in Contexts : d # c => pc[d] \notin SendSteps
  BY <1>1, OtherIsOut
<1>3. PICK step \in Sending \cup {"loop", "leave"} : Goto(c, step)
  BY DEF SendData, DeclareTx, EnterRx, WaitRx, FlushOverflow, LoadFifo,
     StrobeTx, CheckTx, WaitHigh, WaitLow, CheckEmpty, ToIdle, FlushTx,
     BackToRx, DeclareRx, SendReturned, Sending, SendSteps, CallSteps
<1>4. pc'[c] = step /\ \A d \in Contexts : d # c => pc'[d] = pc[d]
  BY <1>3, GotoMoves
<1>5. slept' = slept
  BY DEF SendData, DeclareTx, EnterRx, WaitRx, FlushOverflow, LoadFifo,
     StrobeTx, CheckTx, WaitHigh, WaitLow, CheckEmpty, ToIdle, FlushTx,
     BackToRx, DeclareRx, SendReturned
<1>6. /\ step \notin BootSteps \cup SleepSteps \cup {"rxFlush", "rxBack"}
      /\ pc[c] \notin {"off", "entered", "leave"} \cup Serving
  BY <1>1 DEF BootSteps, SleepSteps, Sending, SendSteps, CallSteps, Serving,
     ReceiveSteps
<1>7. c = "main" => pc["isr"] = "off" BY <1>1 DEF Runs
<1>8. c = "main" \/ c = "isr" BY DEF Contexts
<1>9. IsrDriver \in Drivers /\ Driver(c) \in Drivers
      /\ rfState \in [Drivers -> {"IDLE", "RX", "TX"}]
  BY DEF Drivers, Driver, RadioInv, TypeOK, ControlTypeOK
<1>10. \/ UNCHANGED rfState
       \/ DeclareTx(c) /\ rfState' = [rfState EXCEPT ![Driver(c)] = "TX"]
       \/ DeclareRx(c) /\ rfState' = [rfState EXCEPT ![Driver(c)] = "RX"]
  BY DEF SendData, DeclareTx, EnterRx, WaitRx, FlushOverflow, LoadFifo,
     StrobeTx, CheckTx, WaitHigh, WaitLow, CheckEmpty, ToIdle, FlushTx,
     BackToRx, DeclareRx, SendReturned
<1>11. rfState'[IsrDriver] = "IDLE" => rfState[IsrDriver] = "IDLE"
  BY <1>9, <1>10
<1>12. Undeclared'
  BY <1>4, <1>6, <1>7, <1>8, <1>9, <1>11 DEF Undeclared, Contexts
<1>13. HasSlept' BY <1>4, <1>5, <1>6, <1>8 DEF HasSlept, Contexts
<1>14. DeclareTx(c) => rfState'[IsrDriver] # "RX"
  <2>1. CASE Driver(c) = IsrDriver BY <1>9, <2>1 DEF DeclareTx
  <2>2. CASE Driver(c) # IsrDriver
    BY <1>9, <2>2 DEF DeclareTx, Driver, RadioInv, SecondDriverIdle
  <2> QED BY <2>1, <2>2
<1>15. pc[c] \in SendSteps => rfState[IsrDriver] # "RX" BY DEF NotInRx
<1>16. pc[c] \in SendSteps \/ DeclareTx(c) \/ SendReturned(c)
  BY DEF SendData, At, SendSteps, EnterRx, WaitRx, FlushOverflow, LoadFifo,
     StrobeTx, CheckTx, WaitHigh, WaitLow, CheckEmpty, ToIdle, FlushTx,
     BackToRx, DeclareRx
<1>17. SendReturned(c) => UNCHANGED <<chip, irqFlag, rfState>>
  BY DEF SendReturned
<1>18. DeclareRx(c) => /\ marc \in {"CALRX", "RX"} /\ UNCHANGED chip
                       /\ step = "sendReturned"
  <2>1. DeclareRx(c) => Goto(c, "sendReturned") /\ pc[c] = "declareRx"
    BY DEF DeclareRx, At
  <2>2. DeclareRx(c) => pc'[c] = "sendReturned" BY <2>1, GotoMoves
  <2> QED BY <1>4, <2>1, <2>2 DEF DeclareRx, ThroughIdle, Listening
<1>19. SendReturned(c) => step \notin SendSteps
  <2>1. SendReturned(c) => Goto(c, "declareTx") \/ Goto(c, "loop")
                             \/ Goto(c, "leave")
    BY DEF SendReturned
  <2>2. SendReturned(c) => pc'[c] \in {"declareTx", "loop", "leave"}
    BY <2>1, GotoMoves
  <2> QED BY <1>4, <2>2 DEF SendSteps
<1>20. NotInRx'
  <2> SUFFICES ASSUME pc'[c] \in SendSteps PROVE rfState'[IsrDriver] # "RX"
    BY <1>2, <1>4 DEF NotInRx
  <2> QED BY <1>4, <1>10, <1>14, <1>15, <1>16, <1>18, <1>19 DEF SendSteps
<1>21. WillListen'
  <2> SUFFICES ASSUME rfState'[IsrDriver] = "RX", slept' = 0
               PROVE  marc' \in {"CALRX", "RX"} \/ irqFlag'
                        \/ pc'["isr"] \in Serving
    BY DEF WillListen, Listening
  <2>1. CASE DeclareRx(c) BY <1>18, <2>1
  <2>2. CASE ~DeclareRx(c)
    <3>1. UNCHANGED rfState /\ rfState[IsrDriver] = "RX" /\ SendReturned(c)
      BY <1>10, <1>14, <1>15, <1>16, <2>2
    <3>2. (pc[c] \notin Serving /\ pc'["isr"] = pc["isr"]) \/ c = "isr"
      BY <1>4, <1>6, <1>8 DEF Contexts
    <3> QED
      BY <1>5, <1>6, <1>7, <1>8, <1>17, <3>1, <3>2
      DEF WillListen, Listening, Serving, ReceiveSteps
  <2> QED BY <2>1, <2>2
<1>22. ThroughIdle'
  <2>1. pc'["isr"] \notin {"rxFlush", "rxBack"}
    BY <1>4, <1>6, <1>7, <1>8 DEF Contexts
  <2>2. \A d \in Contexts : d # c => pc'[d] \notin {"backToRx", "declareRx"}
    BY <1>2, <1>4 DEF SendSteps
  <2>3. pc'[c] = "backToRx" => marc' = "IDLE"
    <3>1. ~FlushTx(c) => pc'[c] # "backToRx"
      BY <1>4, GotoMoves
      DEF SendData, DeclareTx, EnterRx, WaitRx, FlushOverflow, LoadFifo,
          StrobeTx, CheckTx, WaitHigh, WaitLow, CheckEmpty, ToIdle,
          BackToRx, DeclareRx, SendReturned
    <3>2. FlushTx(c) => marc = "IDLE" /\ marc' = marc
      BY DEF FlushTx, At, SFTX, Sent, Follows
    <3> QED BY <3>1, <3>2
  <2>4. pc'[c] = "declareRx" => marc' \in {"CALRX", "RX"}
    <3>1. ~BackToRx(c) => pc'[c] # "declareRx"
      BY <1>4, GotoMoves
      DEF SendData, DeclareTx, EnterRx, WaitRx, FlushOverflow, LoadFifo,
          StrobeTx, CheckTx, WaitHigh, WaitLow, CheckEmpty, ToIdle, FlushTx,
          DeclareRx, SendReturned
    <3>2. BackToRx(c) => marc' = "CALRX"
      BY DEF BackToRx, At, SRX, ThroughIdle
    <3> QED BY <3>1, <3>2
  <2> QED BY <2>1, <2>2, <2>3, <2>4 DEF ThroughIdle, Listening
<1> QED BY <1>12, <1>13, <1>20, <1>21, <1>22

\* The interrupt routine, once it has taken an edge, comes by RxBack whatever
\* it finds in the FIFO.
LEMMA IsrHears ==
  ASSUME HearInv, Isr, ~SendData("isr")
  PROVE  Hearing'
<1> USE DEF HearInv, SendInv, Hearing, chip, medium, cpu, job, history
<1>1. UNCHANGED <<rfState, slept>>
  BY DEF Isr, EnterIsr, CheckState, ReadLevel, ReadPacket, RxToIdle, RxFlush,
     RxBack, Discard, Dispatch, LeaveIsr
<1>2. ASSUME NEW step, Goto("isr", step)
      PROVE  pc'["isr"] = step /\ pc'["main"] = pc["main"]
  BY <1>2, GotoMoves DEF Contexts
<1>3. ASSUME pc'["main"] = pc["main"], pc'["isr"] \notin SendSteps,
             rfState[IsrDriver] = "IDLE"
               => pc'["isr"] \in {"off", "entered", "leave"}
      PROVE  Undeclared' /\ NotInRx' /\ HasSlept'
  BY <1>1, <1>3 DEF Undeclared, NotInRx, HasSlept, Contexts
<1>4. ASSUME NEW step, Goto("isr", step), UNCHANGED <<chip, irqFlag>>,
             step \notin SendSteps \cup {"rxFlush", "rxBack"},
             rfState[IsrDriver] = "IDLE" => step \in {"off", "entered", "leave"},
             \/ step \in Serving
             \/ pc["isr"] \notin Serving
             \/ rfState[IsrDriver] # "RX"
      PROVE  Hearing'
  <2>1. pc'["isr"] = step /\ pc'["main"] = pc["main"] BY <1>2, <1>4
  <2>2. Undeclared' /\ NotInRx' /\ HasSlept' BY <1>3, <1>4, <2>1
  <2>3. ThroughIdle'
    BY <1>4, <2>1 DEF ThroughIdle, Listening, Contexts, SendSteps
  <2>4. WillListen'
    BY <1>1, <1>4, <2>1 DEF WillListen, Listening
  <2> QED BY <2>2, <2>3, <2>4
<1>5. ASSUME Runs("isr"), pc["isr"] \in ReceiveSteps
      PROVE  /\ rfState[IsrDriver] # "IDLE"
             /\ pc["main"] \notin SendSteps
  BY <1>5 DEF Undeclared, RadioInv, ExclusiveRadio, ReceiveSteps
<1>6. CASE EnterIsr
  <2>1. Goto("isr", "entered") /\ UNCHANGED chip BY <1>6 DEF EnterIsr
  <2>2. pc'["isr"] = "entered" /\ pc'["main"] = pc["main"] BY <1>2, <2>1
  <2>3. Undeclared' /\ NotInRx' /\ HasSlept' BY <1>3, <2>2 DEF SendSteps
  <2>4. ThroughIdle' BY <2>1, <2>2 DEF ThroughIdle, Listening, Contexts
  <2>5. WillListen' BY <2>2 DEF WillListen, Serving
  <2> QED BY <2>3, <2>4, <2>5
<1>7. CASE CheckState
  <2>1. CASE rfState[IsrDriver] = "RX"
    BY <1>4, <1>7, <2>1 DEF CheckState, Serving, ReceiveSteps, SendSteps
  <2>2. CASE rfState[IsrDriver] # "RX"
    BY <1>4, <1>7, <2>2 DEF CheckState, Serving, ReceiveSteps, SendSteps
  <2> QED BY <2>1, <2>2
<1>8. CASE ReadLevel
  <2>1. rfState[IsrDriver] # "IDLE" BY <1>5, <1>8
    DEF ReadLevel, At, ReceiveSteps
  <2>2. CASE rxFifo # <<>> /\ marc # "RXOVF"
    BY <1>4, <1>8, <2>1, <2>2 DEF ReadLevel, Serving, ReceiveSteps, SendSteps
  <2>3. CASE ~(rxFifo # <<>> /\ marc # "RXOVF")
    BY <1>4, <1>8, <2>1, <2>3 DEF ReadLevel, Serving, ReceiveSteps, SendSteps
  <2> QED BY <2>2, <2>3
<1>9. CASE ReadPacket
  <2>1. rfState[IsrDriver] # "IDLE" /\ pc["main"] \notin SendSteps
    BY <1>5, <1>9 DEF ReadPacket, At, ReceiveSteps
  <2>2. Goto("isr", "rxToIdle") /\ UNCHANGED <<marc, irqFlag>>
    BY <1>9 DEF ReadPacket
  <2>3. pc'["isr"] = "rxToIdle" /\ pc'["main"] = pc["main"] BY <1>2, <2>2
  <2>4. Undeclared' /\ NotInRx' /\ HasSlept' BY <1>3, <2>1, <2>3 DEF SendSteps
  <2>5. ThroughIdle' BY <2>2, <2>3 DEF ThroughIdle, Listening, Contexts
  <2>6. WillListen' BY <2>3 DEF WillListen, Serving, ReceiveSteps
  <2> QED BY <2>4, <2>5, <2>6
<1>10. CASE RxToIdle
  <2>1. rfState[IsrDriver] # "IDLE" /\ pc["main"] \notin SendSteps
    BY <1>5, <1>10 DEF RxToIdle, At, ReceiveSteps
  <2>2. Goto("isr", "rxFlush") /\ marc' = "IDLE" BY <1>10 DEF RxToIdle, SIDLE
  <2>3. pc'["isr"] = "rxFlush" /\ pc'["main"] = pc["main"] BY <1>2, <2>2
  <2>4. Undeclared' /\ NotInRx' /\ HasSlept' BY <1>3, <2>1, <2>3 DEF SendSteps
  <2>5. ThroughIdle' BY <2>1, <2>2, <2>3 DEF ThroughIdle, Contexts, SendSteps
  <2>6. WillListen' BY <2>3 DEF WillListen, Serving, ReceiveSteps
  <2> QED BY <2>4, <2>5, <2>6
<1>11. CASE RxFlush
  <2>1. rfState[IsrDriver] # "IDLE" /\ pc["main"] \notin SendSteps
    BY <1>5, <1>11 DEF RxFlush, At, ReceiveSteps
  <2>2. Goto("isr", "rxBack") /\ marc' = "IDLE"
    BY <1>11 DEF RxFlush, At, SFRX, ThroughIdle
  <2>3. pc'["isr"] = "rxBack" /\ pc'["main"] = pc["main"] BY <1>2, <2>2
  <2>4. Undeclared' /\ NotInRx' /\ HasSlept' BY <1>3, <2>1, <2>3 DEF SendSteps
  <2>5. ThroughIdle' BY <2>1, <2>2, <2>3 DEF ThroughIdle, Contexts, SendSteps
  <2>6. WillListen' BY <2>3 DEF WillListen, Serving, ReceiveSteps
  <2> QED BY <2>4, <2>5, <2>6
<1>12. CASE RxBack
  <2>1. rfState[IsrDriver] # "IDLE" /\ pc["main"] \notin SendSteps
    BY <1>5, <1>12 DEF RxBack, At, ReceiveSteps
  <2>2. Goto("isr", "dispatch") /\ marc' = "CALRX"
    BY <1>12 DEF RxBack, At, SRX, ThroughIdle
  <2>3. pc'["isr"] = "dispatch" /\ pc'["main"] = pc["main"] BY <1>2, <2>2
  <2>4. Undeclared' /\ NotInRx' /\ HasSlept' BY <1>3, <2>1, <2>3 DEF SendSteps
  <2>5. ThroughIdle' BY <2>1, <2>2, <2>3 DEF ThroughIdle, Contexts, SendSteps
  <2>6. WillListen' BY <2>2 DEF WillListen, Listening
  <2> QED BY <2>4, <2>5, <2>6
<1>13. CASE Discard
  <2>1. pc["isr"] = "dispatch" BY <1>13 DEF Discard, At
  <2> QED BY <1>4, <1>13, <2>1 DEF Discard, Serving, ReceiveSteps, SendSteps
<1>14. ASSUME NEW answer \in BOOLEAN, Dispatch(answer) PROVE Hearing'
  <2>1. pc["isr"] = "dispatch" /\ UNCHANGED <<chip, irqFlag>>
    BY <1>14 DEF Dispatch, At
  <2>2. rfState[IsrDriver] # "IDLE" BY <2>1 DEF Undeclared
  <2>3. Goto("isr", "declareTx") \/ Goto("isr", "leave")
    BY <1>14 DEF Dispatch, StartSend
  <2> QED BY <1>4, <2>1, <2>2, <2>3 DEF Serving, ReceiveSteps, SendSteps
<1>15. CASE LeaveIsr
  <2>1. pc["isr"] = "leave" BY <1>15 DEF LeaveIsr, At
  <2> QED BY <1>4, <1>15, <2>1 DEF LeaveIsr, Serving, ReceiveSteps, SendSteps
<1> QED
  BY <1>6, <1>7, <1>8, <1>9, <1>10, <1>11, <1>12, <1>13, <1>14, <1>15 DEF Isr

\* Outside sendData the main loop strobes the chip only while it starts, before
\* any send, and while it goes to sleep.
LEMMA MainHears ==
  ASSUME HearInv, Main, ~SendData("main")
  PROVE  Hearing'
<1> USE DEF HearInv, SendInv, Hearing, chip, medium, cpu, job, history
<1>1. rfState' = rfState /\ (slept' = slept \/ GoToSleep)
  BY DEF Main, Boot, BootRx, BootIrq, BootState, SketchInit, MainSend,
     EnableRfRx, GoToSleep, SleepIdle, SleepOff, SleepOver, WakeUp, WakeState
<1>2. Runs("main") /\ pc["main"] \in BootSteps \cup SleepSteps \cup {"loop"}
  BY DEF Main, Boot, BootRx, BootIrq, BootState, SketchInit, MainSend,
     EnableRfRx, GoToSleep, SleepIdle, SleepOff, SleepOver, WakeUp, WakeState,
     At, BootSteps, SleepSteps
<1>3. UNCHANGED pc \/ \E step \in MainSteps \ SendSteps :
        /\ Goto("main", step)
        /\ step \in BootSteps => pc["main"] \in BootSteps
        /\ step \in SleepSteps => pc["main"] \in SleepSteps \/ GoToSleep
  BY DEF Main, Boot, BootRx, BootIrq, BootState, SketchInit, MainSend,
     EnableRfRx, GoToSleep, SleepIdle, SleepOff, SleepOver, WakeUp, WakeState,
     At, StartSend, MainSteps, BootSteps, SleepSteps, CallSteps, SendSteps
<1>4. pc["isr"] = "off" /\ pc'["isr"] = "off"
  BY <1>2, <1>3, GotoMoves DEF Runs, Contexts
<1>5. /\ pc["main"] \notin SendSteps /\ pc'["main"] \notin SendSteps
      /\ pc'["main"] \in BootSteps => pc["main"] \in BootSteps
      /\ pc'["main"] \in SleepSteps => pc["main"] \in SleepSteps \/ GoToSleep
  BY <1>2, <1>3, GotoMoves DEF Contexts, BootSteps, SleepSteps, SendSteps
<1>6. Undeclared' /\ NotInRx' /\ ThroughIdle'
  BY <1>1, <1>4, <1>5
  DEF Undeclared, NotInRx, ThroughIdle, Contexts, SendSteps
<1>7. slept \in Nat /\ slept' \in Nat
  BY <1>1 DEF GoToSleep, RadioInv, TypeOK, JobTypeOK
<1>8. GoToSleep => slept' > 0 BY <1>7 DEF GoToSleep, RadioInv, TypeOK, JobTypeOK
<1>9. HasSlept' BY <1>1, <1>5, <1>8 DEF HasSlept
<1>10. WillListen'
  <2> SUFFICES ASSUME rfState[IsrDriver] = "RX", slept' = 0
               PROVE  marc' \in {"CALRX", "RX"} \/ irqFlag'
    BY <1>1 DEF WillListen, Listening
  <2>1. slept = 0 /\ ~GoToSleep BY <1>1, <1>7, <1>8
  <2>2. pc["main"] \notin BootSteps \cup SleepSteps
    BY <1>7, <2>1 DEF Undeclared, HasSlept
  <2>3. UNCHANGED <<chip, irqFlag>>
    BY <2>1, <2>2
    DEF Main, Boot, BootRx, BootIrq, BootState, SketchInit, MainSend,
        EnableRfRx, SleepIdle, SleepOff, SleepOver, WakeUp, WakeState, At,
        BootSteps, SleepSteps
  <2> QED BY <1>4, <2>1, <2>3 DEF WillListen, Listening, Serving, ReceiveSteps
<1> QED BY <1>6, <1>9, <1>10

\* The chip leaves RX only with an edge, and IDLE not at all.
LEMMA ChipHears ==
  ASSUME HearInv, Chip \/ AirStart \/ AirEnd
  PROVE  Hearing'
<1> USE DEF HearInv, SendInv, Hearing, ChipQuiet, job, history
<1>1. UNCHANGED <<pc, rfState, slept>>
  BY DEF Chip, RxEnd, RxFiltered, Calibrated, TxSync, TxEnd, AirStart, AirEnd
<1>2. /\ Listening \/ irqFlag => Listening' \/ irqFlag'
      /\ marc = "IDLE" => marc' = "IDLE"
      /\ (\E c \in Contexts : pc[c] = "declareRx") /\ Listening => Listening'
  <2>1. ChipInv BY DEF Sent
  <2>2. CASE RxEnd
    BY <2>1, <2>2 DEF RxEnd, PacketOutlastsAssignment, ChipInv, Listening
  <2>3. CASE RxFiltered BY <2>3 DEF RxFiltered, Listening
  <2>4. CASE Calibrated BY <2>4 DEF Calibrated, Listening
  <2>5. CASE TxSync BY <2>5 DEF TxSync, Listening
  <2>6. CASE TxEnd BY <2>6 DEF TxEnd, Listening
  <2>7. CASE AirStart \/ AirEnd BY <2>7 DEF AirStart, AirEnd, Listening
  <2> QED BY <2>2, <2>3, <2>4, <2>5, <2>6, <2>7 DEF Chip
<1> QED
  BY <1>1, <1>2
  DEF Undeclared, NotInRx, HasSlept, ThroughIdle, WillListen

\* HearInv is inductive.
LEMMA HearStep ==
  ASSUME HearInv, [Next]_vars
  PROVE  HearInv'
<1>1. SendInv' BY SendStep DEF HearInv
<1>2. Hearing'
  <2>1. CASE SendData("main") \/ SendData("isr")
    BY <2>1, SendHears DEF Contexts
  <2>2. CASE Main /\ ~SendData("main") BY <2>2, MainHears
  <2>3. CASE Isr /\ ~SendData("isr") BY <2>3, IsrHears
  <2>4. CASE Chip \/ AirStart \/ AirEnd BY <2>4, ChipHears
  <2>5. CASE UNCHANGED vars
    <3>1. UNCHANGED <<pc, rfState, slept, marc, irqFlag>>
      BY <2>5 DEF vars, chip, cpu
    <3> QED BY <3>1 DEF HearInv, Hearing, Undeclared, NotInRx, HasSlept,
      ThroughIdle, WillListen, Listening
  <2> QED BY <2>1, <2>2, <2>3, <2>4, <2>5 DEF Next
<1> QED BY <1>1, <1>2 DEF HearInv

\* Once a send has declared RX, a board that has not slept and is at rest
\* listens: each of the ways out of RX leaves an edge, and the interrupt
\* routine answers each edge with the strobes that lead back to RX.
THEOREM ListensAtRest == Spec => []NeverDeaf
<1>1. Init => HearInv
  <2> SUFFICES ASSUME Init PROVE Hearing BY InitSend DEF HearInv
  <2> QED BY DEF Init, Hearing, Undeclared, NotInRx, HasSlept, ThroughIdle,
      WillListen, Contexts, Drivers, BootSteps, SleepSteps, SendSteps
<1>2. HearInv /\ [Next]_vars => HearInv' BY HearStep
<1>3. HearInv => NeverDeaf
  BY DEF HearInv, Hearing, WillListen, Listening, NeverDeaf, AtRest, Serving,
     ReceiveSteps
<1> QED BY <1>1, <1>2, <1>3, PTL DEF Spec
===============================================================================
