---------------------------- MODULE DetectorProofs ----------------------------
(***************************************************************************)
(* Proofs about the detector's sketch, for any number of frames and cycles, *)
(* any size of the UART's buffer and any codes: its types; that alarms and  *)
(* their ends take turns in what it sends; and what flows from the head     *)
(* unit through the line and the sketch into the messages: frames keep      *)
(* their order and are used once, the values of an undisturbed cycle are    *)
(* the answers asked for, and the sketch agrees with the head about the     *)
(* alarm unless a frame was lost.                                           *)
(***************************************************************************)
EXTENDS Detector, SequenceTheorems, TLAPS

-----------------------------------------------------------------------------
(* Types.                                                                  *)

\* What a token may say.
Words == Codes \cup Asked \cup Marks

\* The tokens the model makes are tokens, and there is a first command.
LEMMA TokenTypes ==
  /\ Etx \in Tokens /\ Ack \in Tokens /\ NoSource \in Tokens
  /\ Timeout \in Seq(Tokens)
  /\ \A n \in Nat, what \in Words : Text(n, what) \in Tokens
  /\ Alarms \subseteq Words /\ Notices \subseteq Words /\ End \in Words
  /\ Asked \subseteq Words
  /\ 1 \in DOMAIN Commands
  /\ \A f \in DOMAIN Commands : Commands[f] \in Asked
<1>1. Tokens = [n : Nat, what : Words]
  BY DEF Tokens, Words
<1>2. {"etx", "ack", "none", "TIMEOUT"} \subseteq Words
  BY DEF Words, Marks
<1>3. /\ Etx \in Tokens /\ Ack \in Tokens
      /\ \A n \in Nat, what \in Words : Text(n, what) \in Tokens
  BY <1>1, <1>2 DEF Etx, Ack, Text
<1>4. NoSource \in Tokens /\ Text(0, "TIMEOUT") \in Tokens
  BY <1>2, <1>3 DEF NoSource
<1>5. Timeout \in Seq(Tokens)
  BY <1>4 DEF Timeout
<1>6. Len(Commands) \in Nat /\ Len(Commands) > 0
  BY CodesAssumption
<1>7. 1 \in DOMAIN Commands
  BY <1>6, CodesAssumption
<1>8. /\ Alarms \subseteq Words /\ Notices \subseteq Words /\ End \in Words
      /\ Asked \subseteq Words
  BY DEF Words, Codes
<1>9. \A f \in DOMAIN Commands : Commands[f] \in Asked
  BY DEF Asked
<1> QED
  BY <1>3, <1>4, <1>5, <1>7, <1>8, <1>9

\* The types hold at power on.
LEMMA InitTypeOK == Init => TypeOK
<1>1. SUFFICES ASSUME Init PROVE TypeOK
  OBVIOUS
<1>2. fields \in [DOMAIN Commands -> Tokens]
  BY <1>1, TokenTypes DEF Init
<1>3. \A S : <<>> \in Seq(S)
  OBVIOUS
<1> QED
  BY <1>1, <1>2, <1>3, TokenTypes
     DEF Init, TypeOK, LineTypeOK, SketchTypeOK, HistoryTypeOK

\* The head unit and the line.
LEMMA LineStep == TypeOK /\ Next => LineTypeOK'
<1>1. SUFFICES ASSUME LineTypeOK, field \in DOMAIN Commands, Next
               PROVE  LineTypeOK'
  BY DEF TypeOK, SketchTypeOK
<1>0. line \in Seq(Tokens) /\ wire \in Seq(Tokens)
  BY <1>1 DEF LineTypeOK
<1>2. ASSUME NEW what \in Words, Send(what),
             headAlarm' \in Alarms \cup {"none"}
      PROVE  LineTypeOK'
  <2>1. <<Text(frames + 1, what), Etx>> \in Seq(Tokens)
    BY <1>1, TokenTypes DEF LineTypeOK
  <2> QED
    BY <1>1, <1>2, <2>1 DEF LineTypeOK, Send
<1>3. CASE \E a \in Alarms : Raise(a)
  BY <1>1, <1>2, <1>3, TokenTypes DEF Raise
<1>4. CASE Clear
  BY <1>1, <1>2, <1>4, TokenTypes DEF Clear
<1>5. CASE \E n \in Notices : Notify(n)
  BY <1>1, <1>2, <1>5, TokenTypes DEF Notify, LineTypeOK
<1>6. CASE Answer
  <2>1. Head(requests) \in Asked /\ Tail(requests) \in Seq(Asked)
    BY <1>1, <1>6 DEF LineTypeOK, Answer
  <2>2. <<Ack, Text(frames + 1, Head(requests)), Etx>> \in Seq(Tokens)
    BY <1>1, <2>1, TokenTypes DEF LineTypeOK
  <2> QED
    BY <1>1, <1>6, <2>1, <2>2 DEF LineTypeOK, Answer
<1>7. CASE Miss
  BY <1>1, <1>7 DEF LineTypeOK, Miss
<1>8. CASE Arrive
  <2>1. Head(wire) \in Tokens /\ Tail(wire) \in Seq(Tokens)
    BY <1>1, <1>8 DEF LineTypeOK, Arrive
  <2>2. line' \in Seq(Tokens)
    <3>1. line' = line \/ line' = Append(line, Head(wire))
      BY <1>8 DEF Arrive
    <3> QED
      BY <1>0, <2>1, <3>1
  <2> QED
    BY <1>1, <1>8, <2>1, <2>2 DEF LineTypeOK, Arrive
<1>9. CASE Ask
  <2>1. requests' \in Seq(Asked)
    <3>1. requests' = Append(requests, Commands[field])
      BY <1>9 DEF Ask
    <3>2. Commands[field] \in Asked
      BY <1>1 DEF Asked
    <3> QED
      BY <1>1, <3>1, <3>2 DEF LineTypeOK
  <2> QED
    BY <1>1, <1>9, <2>1 DEF LineTypeOK, Ask
<1>10. CASE ReadInfo \/ ReadAnswer
  <2>1. line' \in Seq(Tokens)
    <3>1. line # <<>> /\ line' = Tail(line)
      BY <1>10 DEF ReadInfo, ReadAnswer
    <3> QED
      BY <1>0, <3>1
  <2> QED
    BY <1>1, <1>10, <2>1 DEF LineTypeOK, ReadInfo, ReadAnswer, head
<1>11. CASE \/ Top \/ InfoTimeout \/ Parse \/ SendState
            \/ \E due \in BOOLEAN : CycleTest(due)
            \/ AnswerTimeout \/ Store \/ SendReport \/ Park
  BY <1>1, <1>11 DEF LineTypeOK, Top, InfoTimeout, Parse, SendState,
                     CycleTest, AnswerTimeout, Store, SendReport, Park, head
<1> QED
  BY <1>1, <1>3, <1>4, <1>5, <1>6, <1>7, <1>8, <1>9, <1>10, <1>11
     DEF Next, Loop, HeadUnit

\* loop() up to the data cycle.
LEMMA FrameStep ==
  /\ LineTypeOK /\ SketchTypeOK
  /\ Top \/ ReadInfo \/ InfoTimeout \/ Parse \/ SendState
  => SketchTypeOK'
<1>1. SUFFICES ASSUME LineTypeOK, SketchTypeOK,
                      Top \/ ReadInfo \/ InfoTimeout \/ Parse \/ SendState
               PROVE  SketchTypeOK'
  OBVIOUS
<1>2. receivedInfo \in Seq(Tokens)
  BY <1>1 DEF SketchTypeOK
<1>3. CASE Top
  BY <1>1, <1>3 DEF SketchTypeOK, Top, sketch
<1>4. CASE ReadInfo
  <2>1. Head(line) \in Tokens
    BY <1>1, <1>4 DEF LineTypeOK, ReadInfo
  <2>2. receivedInfo' \in Seq(Tokens)
    BY <1>2, <1>4, <2>1 DEF ReadInfo
  <2> QED
    BY <1>1, <1>4, <2>2 DEF SketchTypeOK, ReadInfo
<1>5. CASE InfoTimeout
  BY <1>1, <1>5, TokenTypes DEF SketchTypeOK, InfoTimeout
<1>6. CASE Parse
  <2>1. \A what : Is(what) => receivedInfo[1] \in Tokens
    BY <1>2 DEF Is
  <2>2. CASE ~Recognised
    <3>1. \/ receivedInfo' = <<>> /\ UNCHANGED <<outgoing, alarmActive>>
                                  /\ pc' = "cycleTest"
      BY <1>6, <2>2 DEF Parse, Recognised
    <3> QED
      BY <1>1, <1>6, <3>1 DEF SketchTypeOK, Parse
  <2>3. CASE Recognised
    <3>1. receivedInfo[1] \in Tokens
      BY <2>1, <2>3 DEF Recognised
    <3>2. \E active \in BOOLEAN : Report(active)
      BY <1>1, <1>6, <2>3 DEF Parse, SketchTypeOK
    <3> QED
      BY <1>1, <1>6, <3>1, <3>2 DEF SketchTypeOK, Parse, Report
  <2> QED
    BY <2>2, <2>3
<1>7. CASE SendState
  BY <1>1, <1>7 DEF SketchTypeOK, SendState
<1> QED
  BY <1>1, <1>3, <1>4, <1>5, <1>6, <1>7

\* The data cycle.
LEMMA CycleStep ==
  /\ LineTypeOK /\ SketchTypeOK
  /\ \/ \E due \in BOOLEAN : CycleTest(due)
     \/ Ask \/ ReadAnswer \/ AnswerTimeout \/ Store \/ SendReport
  => SketchTypeOK'
<1>1. SUFFICES ASSUME LineTypeOK, SketchTypeOK,
                      \/ \E due \in BOOLEAN : CycleTest(due)
                      \/ Ask \/ ReadAnswer \/ AnswerTimeout \/ Store
                      \/ SendReport
               PROVE  SketchTypeOK'
  OBVIOUS
<1>2. response \in Seq(Tokens)
  BY <1>1 DEF SketchTypeOK
<1>3. CASE \E due \in BOOLEAN : CycleTest(due)
  BY <1>1, <1>3, TokenTypes DEF SketchTypeOK, CycleTest
<1>4. CASE Ask
  BY <1>1, <1>4 DEF SketchTypeOK, Ask
<1>5. CASE ReadAnswer
  <2>1. Head(line) \in Tokens
    BY <1>1, <1>5 DEF LineTypeOK, ReadAnswer
  <2>2. response' \in Seq(Tokens)
    BY <1>2, <1>5, <2>1 DEF ReadAnswer
  <2> QED
    BY <1>1, <1>5, <2>2 DEF SketchTypeOK, ReadAnswer
<1>6. CASE AnswerTimeout
  BY <1>1, <1>6 DEF SketchTypeOK, AnswerTimeout
<1>7. CASE Store
  <2>1. (IF response = <<>> THEN NoSource ELSE Head(response)) \in Tokens
    BY <1>2, TokenTypes
  <2>2. field < Len(Commands) => field + 1 \in DOMAIN Commands
    BY <1>1, CodesAssumption DEF SketchTypeOK
  <2>3. fields' \in [DOMAIN Commands -> Tokens]
    BY <1>1, <1>7, <2>1 DEF SketchTypeOK, Store
  <2> QED
    BY <1>1, <1>7, <2>2, <2>3 DEF SketchTypeOK, Store
<1>8. CASE SendReport
  BY <1>1, <1>8 DEF SketchTypeOK, SendReport
<1> QED
  BY <1>1, <1>3, <1>4, <1>5, <1>6, <1>7, <1>8

\* The histories.
LEMMA HistoryStep == TypeOK /\ Next => HistoryTypeOK'
<1>1. SUFFICES ASSUME SketchTypeOK, HistoryTypeOK, Next PROVE HistoryTypeOK'
  BY DEF TypeOK
<1>2. sent \in Seq(Messages)
  BY <1>1 DEF HistoryTypeOK
<1>3. CASE SendState
  <2>1. [kind |-> "state", source |-> outgoing] \in Messages
    BY <1>1 DEF SketchTypeOK, Messages
  <2>2. sent' \in Seq(Messages)
    BY <1>2, <1>3, <2>1 DEF SendState
  <2> QED
    BY <1>1, <1>3, <2>2 DEF HistoryTypeOK, SendState
<1>4. CASE SendReport
  <2>1. [kind |-> "data", source |-> fields, clean |-> clean] \in Messages
    BY <1>1 DEF SketchTypeOK, HistoryTypeOK, Messages
  <2>2. sent' \in Seq(Messages)
    BY <1>2, <1>4, <2>1 DEF SendReport
  <2> QED
    BY <1>1, <1>4, <2>2 DEF HistoryTypeOK, SendReport
<1>5. CASE \/ Top \/ ReadInfo \/ InfoTimeout \/ Parse
           \/ \E due \in BOOLEAN : CycleTest(due)
           \/ Ask \/ ReadAnswer \/ AnswerTimeout \/ Store \/ Park
  BY <1>1, <1>5 DEF HistoryTypeOK, Top, ReadInfo, InfoTimeout, Parse,
                    CycleTest, Ask, ReadAnswer, AnswerTimeout, Store, Park
<1>6. CASE HeadUnit \/ Arrive
  BY <1>1, <1>6 DEF HistoryTypeOK, HeadUnit, Raise, Clear, Notify, Send,
                    Answer, Miss, Arrive
<1> QED
  BY <1>1, <1>3, <1>4, <1>5, <1>6 DEF Next, Loop

\* Every step keeps the types.
LEMMA TypeStep == TypeOK /\ [Next]_vars => TypeOK'
<1>1. TypeOK /\ UNCHANGED vars => TypeOK'
  BY DEF TypeOK, LineTypeOK, SketchTypeOK, HistoryTypeOK, vars, head, sketch
<1>2. SketchTypeOK /\ (HeadUnit \/ Arrive) => SketchTypeOK'
  BY DEF SketchTypeOK, HeadUnit, Raise, Clear, Notify, Send, Answer, Miss,
         Arrive, sketch
<1>3. SketchTypeOK /\ Park => SketchTypeOK'
  BY DEF SketchTypeOK, Park, sketch
<1> QED
  BY <1>1, <1>2, <1>3, LineStep, FrameStep, CycleStep, HistoryStep
     DEF TypeOK, Next, Loop

\* Whatever the head sends and whatever the line loses, the sketch's state
\* stays within its types: field never leaves the commands' indices, and the
\* messages handed to the radio are state or data messages.
THEOREM TypeCorrect == Spec => []TypeOK
BY InitTypeOK, TypeStep, PTL DEF Spec

-----------------------------------------------------------------------------
(* Alarms and their ends take turns.  AlarmsAlternate alone does not say    *)
(* why the next alarm may be sent: alarmActive, or the message under way,   *)
(* tells whether the alarms sent so far have ended.                         *)

\* Every alarm sent has been ended since.
AllEnded == \A i \in DOMAIN sent :
  IsAlarm(sent[i]) => \E k \in i+1..Len(sent) : IsEnd(sent[k])

\* An alarm is under way, or no alarm is active and its end is not under way
\* any more.  A board that waits in sendData for ever reports nothing.
MayAlarm == IF pc = "sendState"
            THEN \/ outgoing.what \in Alarms
                 \/ outgoing.what # End /\ ~alarmActive
            ELSE pc # "parked" /\ ~alarmActive

\* alarmActive is set before the alarm goes out.
AlarmDeclared == pc = "sendState" /\ outgoing.what \in Alarms => alarmActive

AlarmInv == AlarmsAlternate /\ (MayAlarm => AllEnded) /\ AlarmDeclared

\* At power on no alarm has been stored or sent.
LEMMA InitAlarms == Init => AlarmInv
BY DEF Init, AlarmInv, AlarmsAlternate, AllEnded, AlarmDeclared

\* A message that is not an alarm breaks nothing.
LEMMA AppendOther ==
  ASSUME TypeOK, AlarmInv, NEW m, sent' = Append(sent, m), ~IsAlarm(m)
  PROVE  /\ AlarmsAlternate'
         /\ AllEnded \/ IsEnd(m) => AllEnded'
<1>1. /\ Len(sent) \in Nat /\ DOMAIN sent = 1..Len(sent)
      /\ DOMAIN sent' = 1..Len(sent)+1
      /\ Len(sent') = Len(sent) + 1
      /\ \A i \in 1..Len(sent) : sent'[i] = sent[i]
      /\ sent'[Len(sent) + 1] = m
  <2>1. sent \in Seq(Messages)
    BY DEF TypeOK, HistoryTypeOK
  <2> QED
    BY <2>1
<1>2. AlarmsAlternate'
  <2>1. SUFFICES ASSUME NEW i \in 1..Len(sent)+1, NEW j \in 1..Len(sent)+1,
                        i < j, IsAlarm(sent'[i]), IsAlarm(sent'[j])
                 PROVE  \E k \in i+1..j-1 : IsEnd(sent'[k])
    BY <1>1 DEF AlarmsAlternate, IsAlarm, IsEnd
  <2>2. i \in 1..Len(sent) /\ j \in 1..Len(sent)
    BY <1>1, <2>1
  <2>3. PICK k \in i+1..j-1 : IsEnd(sent[k])
    BY <1>1, <2>1, <2>2 DEF AlarmInv, AlarmsAlternate
  <2> QED
    BY <1>1, <2>2, <2>3
<1>3. AllEnded \/ IsEnd(m) => AllEnded'
  <2>1. SUFFICES ASSUME AllEnded \/ IsEnd(m), NEW i \in 1..Len(sent)+1,
                        IsAlarm(sent'[i])
                 PROVE  \E k \in i+1..Len(sent)+1 : IsEnd(sent'[k])
    BY <1>1 DEF AllEnded, IsAlarm, IsEnd
  <2>2. i \in 1..Len(sent) /\ IsAlarm(sent[i])
    BY <1>1, <2>1
  <2>3. CASE IsEnd(m)
    BY <1>1, <2>2, <2>3
  <2>4. CASE AllEnded
    <3>1. PICK k \in i+1..Len(sent) : IsEnd(sent[k])
      BY <1>1, <2>2, <2>4 DEF AllEnded
    <3> QED
      BY <1>1, <2>2, <3>1
  <2> QED
    BY <2>1, <2>3, <2>4
<1> QED
  BY <1>2, <1>3

\* An alarm may be sent once all others have ended.
LEMMA AppendAlarm ==
  ASSUME TypeOK, AlarmInv, AllEnded, NEW m, sent' = Append(sent, m)
  PROVE  AlarmsAlternate'
<1>1. /\ Len(sent) \in Nat /\ DOMAIN sent = 1..Len(sent)
      /\ DOMAIN sent' = 1..Len(sent)+1
      /\ \A i \in 1..Len(sent) : sent'[i] = sent[i]
  <2>1. sent \in Seq(Messages)
    BY DEF TypeOK, HistoryTypeOK
  <2> QED
    BY <2>1
<1>2. SUFFICES ASSUME NEW i \in 1..Len(sent)+1, NEW j \in 1..Len(sent)+1,
                      i < j, IsAlarm(sent'[i]), IsAlarm(sent'[j])
               PROVE  \E k \in i+1..j-1 : IsEnd(sent'[k])
  BY <1>1 DEF AlarmsAlternate, IsAlarm, IsEnd
<1>3. i \in 1..Len(sent) /\ IsAlarm(sent[i])
  BY <1>1, <1>2
<1>4. CASE j \in 1..Len(sent)
  <2>1. PICK k \in i+1..j-1 : IsEnd(sent[k])
    BY <1>1, <1>2, <1>3, <1>4 DEF AlarmInv, AlarmsAlternate
  <2> QED
    BY <1>1, <1>3, <1>4, <2>1
<1>5. CASE j = Len(sent) + 1
  <2>1. PICK k \in i+1..Len(sent) : IsEnd(sent[k])
    BY <1>1, <1>3 DEF AllEnded
  <2> QED
    BY <1>1, <1>3, <1>5, <2>1
<1> QED
  BY <1>1, <1>2, <1>4, <1>5

\* A step that sends nothing and does not make another alarm possible.
LEMMA SilentStep ==
  ASSUME AlarmInv, UNCHANGED sent, MayAlarm' => MayAlarm, AlarmDeclared'
  PROVE  AlarmInv'
BY DEF AlarmInv, AlarmsAlternate, AllEnded, IsAlarm, IsEnd

\* Every step keeps the alarm invariant.
LEMMA AlarmStep == TypeOK /\ AlarmInv /\ [Next]_vars => AlarmInv'
<1>1. SUFFICES ASSUME TypeOK, AlarmInv, [Next]_vars PROVE AlarmInv'
  OBVIOUS
<1>2. CASE Parse
  <2>1. UNCHANGED sent
    BY <1>2 DEF Parse
  <2>2. MayAlarm' => MayAlarm
    BY <1>2, CodesAssumption DEF Parse, Report, Is, MayAlarm
  <2>3. AlarmDeclared'
    BY <1>2, CodesAssumption DEF Parse, Report, Is, AlarmDeclared
  <2> QED
    BY <1>1, <2>1, <2>2, <2>3, SilentStep
<1>3. CASE SendState
  <2> DEFINE m == [kind |-> "state", source |-> outgoing]
  <2>1. /\ pc = "sendState" /\ sent' = Append(sent, m)
        /\ pc' = "cycleTest" /\ UNCHANGED <<alarmActive, outgoing>>
    BY <1>3 DEF SendState
  <2>2. /\ IsAlarm(m) <=> outgoing.what \in Alarms
        /\ IsEnd(m) <=> outgoing.what = End
    BY DEF IsAlarm, IsEnd
  <2>3. AlarmDeclared'
    BY <2>1 DEF AlarmDeclared
  <2>4. CASE outgoing.what \in Alarms
    <3>1. AllEnded
      BY <1>1, <2>1, <2>4 DEF AlarmInv, MayAlarm
    <3>2. AlarmsAlternate'
      BY <1>1, <2>1, <3>1, AppendAlarm
    <3>3. ~MayAlarm'
      BY <1>1, <2>1, <2>4 DEF AlarmInv, AlarmDeclared, MayAlarm
    <3> QED
      BY <2>3, <3>2, <3>3 DEF AlarmInv
  <2>5. CASE outgoing.what \notin Alarms
    <3>1. ~IsAlarm(m)
      BY <2>2, <2>5
    <3> HIDE DEF m
    <3>2. AlarmsAlternate' /\ (AllEnded \/ IsEnd(m) => AllEnded')
      BY <1>1, <2>1, <3>1, AppendOther
    <3>3. MayAlarm' => AllEnded \/ IsEnd(m)
      BY <1>1, <2>1, <2>2 DEF AlarmInv, MayAlarm
    <3> QED
      BY <2>3, <3>2, <3>3 DEF AlarmInv
  <2> QED
    BY <2>4, <2>5
<1>4. CASE SendReport
  <2> DEFINE m == [kind |-> "data", source |-> fields, clean |-> clean]
  <2>1. /\ pc = "sendReport" /\ sent' = Append(sent, m)
        /\ pc' = "top" /\ UNCHANGED <<alarmActive, outgoing>>
    BY <1>4 DEF SendReport
  <2>2. ~IsAlarm(m)
    BY DEF IsAlarm
  <2> HIDE DEF m
  <2>3. AlarmsAlternate' /\ (AllEnded => AllEnded')
    BY <1>1, <2>1, <2>2, AppendOther
  <2>4. (MayAlarm' => MayAlarm) /\ AlarmDeclared'
    BY <2>1 DEF MayAlarm, AlarmDeclared
  <2> QED
    BY <1>1, <2>3, <2>4 DEF AlarmInv
<1>5. CASE \/ Top \/ ReadInfo \/ InfoTimeout
           \/ \E due \in BOOLEAN : CycleTest(due)
           \/ Ask \/ ReadAnswer \/ AnswerTimeout \/ Store
  <2>1. /\ UNCHANGED <<sent, alarmActive, outgoing>>
        /\ pc # "sendState" /\ pc # "parked" /\ pc' # "sendState"
    BY <1>5 DEF Top, ReadInfo, InfoTimeout, CycleTest, Ask, ReadAnswer,
                AnswerTimeout, Store, sketch
  <2>2. (MayAlarm' => MayAlarm) /\ AlarmDeclared'
    BY <2>1 DEF MayAlarm, AlarmDeclared
  <2> QED
    BY <1>1, <2>1, <2>2, SilentStep
<1>6. CASE HeadUnit \/ Arrive \/ UNCHANGED vars
  <2>1. UNCHANGED <<sent, alarmActive, outgoing, pc>>
    BY <1>6 DEF HeadUnit, Raise, Clear, Notify, Send, Answer, Miss, Arrive,
                vars, sketch
  <2>2. (MayAlarm' => MayAlarm) /\ AlarmDeclared'
    BY <1>1, <2>1 DEF AlarmInv, MayAlarm, AlarmDeclared
  <2> QED
    BY <1>1, <2>1, <2>2, SilentStep
<1>7. CASE Park
  <2>1. UNCHANGED sent /\ pc' = "parked"
    BY <1>7 DEF Park
  <2>2. ~MayAlarm' /\ AlarmDeclared'
    BY <2>1 DEF MayAlarm, AlarmDeclared
  <2> QED
    BY <1>1, <2>1, <2>2, SilentStep
<1> QED
  BY <1>1, <1>2, <1>3, <1>4, <1>5, <1>6, <1>7 DEF Next, Loop

\* Between two alarm messages of a detector there is the end of the first,
\* for any number of frames lost, cut short or swallowed: ParseReceivedInfo
\* sets and clears alarmActive together with every report.
THEOREM AlarmsTakeTurns == Spec => []AlarmsAlternate
<1>1. Spec => [](TypeOK /\ AlarmInv)
  BY InitTypeOK, InitAlarms, TypeStep, AlarmStep, PTL DEF Spec
<1>2. AlarmInv => AlarmsAlternate
  BY DEF AlarmInv
<1> QED
  BY <1>1, <1>2, PTL

-----------------------------------------------------------------------------
(* Order.  FramesInOrder speaks of messages only; frames are numbered by    *)
(* the head, and between the head and the messages they stand, youngest     *)
(* last, in the values stored, in the hand of the reader, in the buffer of  *)
(* the UART and on the wire.                                               *)

\* The frames among some tokens: marks have no number.
Numbers(s) == {s[i].n : i \in DOMAIN s} \ {0}

\* Each frame is younger than whatever stands before it.
Increasing(s) ==
  \A i, j \in DOMAIN s : i < j /\ s[j].n # 0 => s[i].n < s[j].n

Before(A, B) == \A a \in A, b \in B : a < b

\* The values of the data message that are there.
Done == IF pc \in {"ask", "readAnswer", "store"} THEN 1..field-1
        ELSE IF pc = "sendReport" THEN DOMAIN Commands ELSE {}

Gone   == UNION {Used(sent[i]) : i \in DOMAIN sent}
Stored == {fields[f].n : f \in Done} \ {0}
\* What loop() or GetData has collected.
Hand   == IF pc \in {"readInfo", "parse"} THEN Numbers(receivedInfo)
          ELSE IF pc = "sendState" THEN {outgoing.n}
          ELSE IF pc \in {"readAnswer", "store"} THEN Numbers(response)
          ELSE {}

\* Five stations in a row.
Row(A, B, C, D, E) ==
  /\ Before(A, B) /\ Before(A, C) /\ Before(A, D) /\ Before(A, E)
  /\ Before(B, C) /\ Before(B, D) /\ Before(B, E)
  /\ Before(C, D) /\ Before(C, E)
  /\ Before(D, E)

StoredInOrder == \A f, g \in Done :
  f < g /\ fields[g].n # 0 => fields[f].n < fields[g].n

\* Only marks are without a number.
Numbered(s) == \A i \in DOMAIN s : s[i].n = 0 => s[i].what \in Marks

\* No frame is younger than the last one sent.
Flowing ==
  /\ Row(Gone, Stored, Hand, Numbers(line), Numbers(wire))
  /\ \A n \in Gone \cup Stored \cup Hand \cup Numbers(line) \cup Numbers(wire) :
       n <= frames

OrderInv ==
  /\ FramesInOrder /\ Flowing
  /\ Increasing(line) /\ Increasing(wire) /\ StoredInOrder
  /\ Numbered(line) /\ Numbered(wire) /\ Numbered(receivedInfo)
  /\ pc \notin {"readInfo", "parse", "sendState", "parked"} => receivedInfo = <<>>

-----------------------------------------------------------------------------
(* Undisturbed cycles.                                                     *)

\* The answer t to the command just asked is on its way: which of its tokens
\* are on the wire, in the buffer and in the response.  The end of it may
\* have been dropped by a UART that was full.
Unended(t) == \/ line \in {<<Ack, t>>, <<t>>} /\ response = <<>>
              \/ line = <<>> /\ response = <<t>>
Ended(t)   == \/ line \in {<<Ack, t, Etx>>, <<t, Etx>>} /\ response = <<>>
              \/ line = <<Etx>> /\ response = <<t>>
Coming(t) ==
  \/ wire = <<Ack, t, Etx>> /\ line = <<>> /\ response = <<>>
  \/ wire = <<t, Etx>> /\ line \in {<<>>, <<Ack>>} /\ response = <<>>
  \/ wire = <<Etx>> /\ Unended(t)
  \/ wire = <<>> /\ (Unended(t) \/ Ended(t))

Quiet == line = <<>> /\ wire = <<>> /\ requests = <<>>

Answering ==
  \/ /\ requests \in {<<Commands[field]>>, <<>>}
     /\ line = <<>> /\ wire = <<>> /\ response = <<>>
  \/ requests = <<>> /\ \E n \in 1..frames : Coming(Text(n, Commands[field]))

CycleSteps == {"ask", "readAnswer", "store", "sendReport"}

Undisturbed ==
  clean /\ pc \in CycleSteps =>
    /\ \A f \in Done : fields[f].what = Commands[f]
    /\ IF pc = "readAnswer" THEN Answering ELSE Quiet
    /\ pc = "store" => response # <<>> /\ Head(response).what = Commands[field]

CleanInv == CleanCycle /\ Undisturbed

-----------------------------------------------------------------------------
(* The flag.                                                               *)

Flow == line \o wire

\* A frame of the head stands between two ends of frames.
WellFormed(s) ==
  /\ \A i \in DOMAIN s : s[i].what \in Codes =>
       /\ i + 1 \in DOMAIN s /\ s[i + 1] = Etx
       /\ i > 1 => s[i - 1] = Etx
  /\ s # <<>> => s[Len(s)] = Etx

AlarmCodes == Alarms \cup {End}

\* What alarmActive is going to be once loop() has dealt with what it holds.
Expected ==
  IF pc \in {"readInfo", "parse"} /\ receivedInfo # <<>>
     /\ receivedInfo[1].what \in AlarmCodes
  THEN receivedInfo[1].what \in Alarms ELSE alarmActive

\* The last alarm or end of alarm among some tokens, if there is one.
LastAlarm(s, i) ==
  /\ i \in DOMAIN s /\ s[i].what \in AlarmCodes
  /\ \A j \in DOMAIN s : s[j].what \in AlarmCodes => j <= i
NoAlarm(s) == \A i \in DOMAIN s : s[i].what \notin AlarmCodes

\* The last alarm or end of alarm on its way, or else what loop() holds,
\* tells the state of the head.
Agrees ==
  /\ \A i \in DOMAIN Flow :
       LastAlarm(Flow, i) => (Flow[i].what \in Alarms <=> headAlarm # "none")
  /\ NoAlarm(Flow) => (Expected <=> headAlarm # "none")

\* A frame being read is read alone, and its end is still to come.
Reading ==
  /\ pc = "readInfo" /\ receivedInfo # <<>> =>
       /\ Flow # <<>> /\ Flow[1].what \notin Codes
       /\ receivedInfo[1].what \in Codes => Flow[1] = Etx
  /\ pc \in {"readInfo", "parse"} =>
       \A i \in DOMAIN receivedInfo :
         receivedInfo[i].what \in Codes => Len(receivedInfo) = 1

FlagInv == ~lost => WellFormed(Flow) /\ Agrees /\ Reading

-----------------------------------------------------------------------------
(* Sequences of tokens.                                                    *)

\* Taking the first token.
LEMMA TakeToken ==
  ASSUME NEW s \in Seq(Tokens), s # <<>>
  PROVE  /\ Head(s) \in Tokens /\ Tail(s) \in Seq(Tokens)
         /\ Numbers(Tail(s)) \subseteq Numbers(s)
         /\ Head(s).n \in Numbers(s) \cup {0}
         /\ Increasing(s) => /\ Increasing(Tail(s))
                             /\ Before({Head(s).n}, Numbers(Tail(s)))
         /\ Numbered(s) => /\ Numbered(Tail(s))
                           /\ Head(s).n = 0 => Head(s).what \in Marks
<1>1. /\ Head(s) = s[1] /\ 1 \in DOMAIN s
      /\ \A i \in DOMAIN Tail(s) : /\ i \in Nat /\ i > 0
                                   /\ i + 1 \in DOMAIN s
                                   /\ Tail(s)[i] = s[i + 1]
  OBVIOUS
<1>2. Head(s) \in Tokens /\ Tail(s) \in Seq(Tokens)
  OBVIOUS
<1>3. Numbers(Tail(s)) \subseteq Numbers(s) /\ Head(s).n \in Numbers(s) \cup {0}
  BY <1>1 DEF Numbers
<1>4. ASSUME Increasing(s)
      PROVE  Increasing(Tail(s)) /\ Before({Head(s).n}, Numbers(Tail(s)))
  <2>1. Increasing(Tail(s))
    BY <1>1, <1>4 DEF Increasing
  <2>2. ASSUME NEW i \in DOMAIN Tail(s), Tail(s)[i].n # 0
        PROVE  Head(s).n < Tail(s)[i].n
    BY <1>1, <1>4, <2>2 DEF Increasing
  <2> QED
    BY <2>1, <2>2 DEF Before, Numbers
<1>5. Numbered(s) => /\ Numbered(Tail(s))
                     /\ Head(s).n = 0 => Head(s).what \in Marks
  BY <1>1 DEF Numbered
<1> QED
  BY <1>2, <1>3, <1>4, <1>5

\* Adding one at the end.
LEMMA AddToken ==
  ASSUME NEW s \in Seq(Tokens), NEW e \in Tokens
  PROVE  /\ Append(s, e) \in Seq(Tokens)
         /\ Numbers(Append(s, e)) = Numbers(s) \cup ({e.n} \ {0})
         /\ Increasing(s) /\ Before(Numbers(s), {e.n} \ {0})
              => Increasing(Append(s, e))
         /\ Numbered(s) /\ (e.n = 0 => e.what \in Marks)
              => Numbered(Append(s, e))
<1> DEFINE t == Append(s, e)
           m == Len(s)
<1>1. /\ m \in Nat /\ DOMAIN s = 1..m /\ DOMAIN t = 1..m+1
      /\ t \in Seq(Tokens) /\ t[m + 1] = e
      /\ \A i \in 1..m : t[i] = s[i] /\ s[i] \in Tokens
  OBVIOUS
<1> HIDE DEF t, m
<1>2. 1..m+1 = 1..m \cup {m + 1}
  BY <1>1
<1>3. \A k \in Tokens : k.n \in Nat
  BY DEF Tokens
<1>4. Numbers(t) = Numbers(s) \cup ({e.n} \ {0})
  BY <1>1, <1>2 DEF Numbers
<1>5. ASSUME Increasing(s), Before(Numbers(s), {e.n} \ {0}) PROVE Increasing(t)
  <2>1. SUFFICES ASSUME NEW i \in 1..m+1, NEW j \in 1..m+1, i < j, t[j].n # 0
                 PROVE  t[i].n < t[j].n
    BY <1>1 DEF Increasing
  <2>2. i \in 1..m
    BY <1>1, <2>1
  <2>3. CASE j \in 1..m
    BY <1>1, <1>5, <2>1, <2>2, <2>3 DEF Increasing
  <2>4. CASE j = m + 1
    <3>1. s[i].n \in Nat /\ e.n \in Nat /\ e.n # 0
      BY <1>1, <1>3, <2>1, <2>2, <2>4
    <3>2. s[i].n # 0 => s[i].n \in Numbers(s)
      BY <1>1, <2>2 DEF Numbers
    <3>3. s[i].n # 0 => s[i].n < e.n
      BY <1>5, <3>1, <3>2 DEF Before
    <3> QED
      BY <1>1, <2>2, <2>4, <3>1, <3>3
  <2> QED
    BY <1>2, <2>3, <2>4
<1>6. Numbered(s) /\ (e.n = 0 => e.what \in Marks) => Numbered(t)
  BY <1>1, <1>2 DEF Numbered
<1> QED
  BY <1>1, <1>4, <1>5, <1>6 DEF t

-----------------------------------------------------------------------------
(* The order is kept.                                                      *)

\* Numbers are natural numbers, those of tokens above zero.
LEMMA NumberTypes ==
  ASSUME TypeOK
  PROVE  /\ frames \in Nat
         /\ \A s \in Seq(Tokens) : Numbers(s) \subseteq Nat \ {0}
         /\ Gone \subseteq Nat /\ Stored \subseteq Nat /\ Hand \subseteq Nat
<1>1. \A k \in Tokens : k.n \in Nat
  BY DEF Tokens
<1>2. \A s \in Seq(Tokens) : Numbers(s) \subseteq Nat \ {0}
  BY <1>1 DEF Numbers
<1>3. Done \subseteq DOMAIN Commands
  BY CodesAssumption DEF TypeOK, SketchTypeOK, Done
<1>4. Stored \subseteq Nat
  BY <1>1, <1>3 DEF Stored, TypeOK, SketchTypeOK
<1>5. Hand \subseteq Nat
  BY <1>1, <1>2 DEF Hand, TypeOK, SketchTypeOK
<1>6. Gone \subseteq Nat
  <2>1. \A m \in Messages : Used(m) \subseteq Nat
    BY <1>1 DEF Messages, Used
  <2>2. \A i \in DOMAIN sent : sent[i] \in Messages
    BY DEF TypeOK, HistoryTypeOK
  <2> QED
    BY <2>1, <2>2 DEF Gone
<1> QED
  BY <1>2, <1>4, <1>5, <1>6 DEF TypeOK, LineTypeOK

\* A message more.
LEMMA MessageMore ==
  ASSUME TypeOK, FramesInOrder, NEW m, sent' = Append(sent, m),
         Before(Gone, Used(m)),
         m.kind = "data" =>
           \A f, g \in DOMAIN m.source :
             f < g /\ m.source[g].n # 0 => m.source[f].n < m.source[g].n
  PROVE  Gone' = Gone \cup Used(m) /\ FramesInOrder'
<1> DEFINE k == Len(sent)
<1>1. /\ k \in Nat /\ DOMAIN sent = 1..k /\ DOMAIN sent' = 1..k+1
      /\ sent'[k + 1] = m
      /\ \A i \in 1..k : sent'[i] = sent[i]
  <2>1. sent \in Seq(Messages)
    BY DEF TypeOK, HistoryTypeOK
  <2> QED
    BY <2>1
<1> HIDE DEF k
<1>2. 1..k+1 = 1..k \cup {k + 1}
  BY <1>1
<1>3. Gone' = Gone \cup Used(m)
  <2>1. Gone' = UNION {Used(sent'[i]) : i \in DOMAIN sent'}
    BY DEF Gone, Used
  <2> QED
    BY <1>1, <1>2, <2>1 DEF Gone
<1>4. ASSUME NEW i \in 1..k+1, NEW j \in 1..k+1, i < j,
             NEW a \in Used(sent'[i]), NEW b \in Used(sent'[j])
      PROVE  a < b
  <2>1. i \in 1..k
    BY <1>1, <1>4
  <2>2. CASE j \in 1..k
    BY <1>1, <1>4, <2>1, <2>2 DEF FramesInOrder
  <2>3. CASE j = k + 1
    BY <1>1, <1>4, <2>1, <2>3 DEF Gone, Before
  <2> QED
    BY <1>2, <2>2, <2>3
<1>5. ASSUME NEW i \in 1..k+1, sent'[i].kind = "data",
             NEW f \in DOMAIN sent'[i].source, NEW g \in DOMAIN sent'[i].source,
             f < g, sent'[i].source[g].n # 0
      PROVE  sent'[i].source[f].n < sent'[i].source[g].n
  BY <1>1, <1>2, <1>5 DEF FramesInOrder
<1>6. FramesInOrder'
  <2>1. FramesInOrder' <=>
          /\ \A i, j \in DOMAIN sent' :
               i < j => \A a \in Used(sent'[i]), b \in Used(sent'[j]) : a < b
          /\ \A i \in DOMAIN sent' : sent'[i].kind = "data" =>
               \A f, g \in DOMAIN sent'[i].source :
                 f < g /\ sent'[i].source[g].n # 0
                   => sent'[i].source[f].n < sent'[i].source[g].n
    BY Zenon DEF FramesInOrder, Used
  <2> QED
    BY <1>1, <1>4, <1>5, <2>1
<1> QED
  BY <1>3, <1>6

\* While nothing is sent, the frames gone out, and their order, stay.
LEMMA SameMessages ==
  UNCHANGED sent => Gone' = Gone /\ (FramesInOrder => FramesInOrder')
BY DEF Gone, Used, FramesInOrder

\* What does not change where frames stand.
LEMMA StoredFrame ==
  Done' = Done /\ UNCHANGED fields
    => Stored' = Stored /\ (StoredInOrder => StoredInOrder')
BY DEF Stored, StoredInOrder

\* A board that has stored nothing holds no frame.
LEMMA NothingStored ==
  Done' = {} => Stored' = {} /\ StoredInOrder'
BY DEF Stored, StoredInOrder

\* The head sends: a frame of its own or an answer.
LEMMA HeadSendsInOrder ==
  ASSUME TypeOK, OrderInv, frames' = frames + 1,
         NEW x \in Tokens, x.n = frames + 1,
         \/ wire' = wire \o <<x, Etx>>
         \/ wire' = wire \o <<Ack, x, Etx>>,
         UNCHANGED <<line, pc, sketch, sent>>
  PROVE  OrderInv'
<1>1. Etx.n = 0 /\ Etx.what \in Marks /\ Ack.n = 0 /\ Ack.what \in Marks
  BY DEF Etx, Ack, Marks
<1>2. frames \in Nat /\ wire \in Seq(Tokens)
  BY DEF TypeOK, LineTypeOK
<1>3. Etx \in Tokens /\ Ack \in Tokens
  BY TokenTypes
<1>4. Increasing(wire) /\ Numbered(wire)
  BY DEF OrderInv
<1>5. \A n \in Numbers(wire) : n <= frames
  BY DEF OrderInv, Flowing
<1>6. ASSUME NEW w \in Seq(Tokens), Increasing(w), Numbered(w),
             Numbers(w) = Numbers(wire)
      PROVE  LET v == Append(Append(w, x), Etx) IN
             /\ Increasing(v) /\ Numbered(v)
             /\ Numbers(v) = Numbers(wire) \cup {frames + 1}
  <2> DEFINE u == Append(w, x)
             v == Append(u, Etx)
  <2>1. Before(Numbers(w), {x.n} \ {0})
    BY <1>2, <1>5, <1>6, NumberTypes DEF Before
  <2>2. /\ u \in Seq(Tokens) /\ Increasing(u) /\ Numbered(u)
        /\ Numbers(u) = Numbers(wire) \cup {frames + 1}
    <3>1. x.n # 0
      BY <1>2
    <3> QED
      BY <1>6, <2>1, <3>1, AddToken
  <2> HIDE DEF u
  <2>3. Before(Numbers(u), {Etx.n} \ {0})
    BY <1>1 DEF Before
  <2>4. /\ Increasing(v) /\ Numbered(v)
        /\ Numbers(v) = Numbers(wire) \cup {frames + 1}
    BY <1>1, <1>3, <2>2, <2>3, AddToken
  <2> QED
    BY <2>4 DEF u
<1>7. /\ Append(wire, Ack) \in Seq(Tokens)
      /\ Increasing(Append(wire, Ack)) /\ Numbered(Append(wire, Ack))
      /\ Numbers(Append(wire, Ack)) = Numbers(wire)
  <2>1. Before(Numbers(wire), {Ack.n} \ {0})
    BY <1>1 DEF Before
  <2> QED
    BY <1>1, <1>2, <1>3, <1>4, <2>1, AddToken
<1>8. /\ Increasing(wire') /\ Numbered(wire')
      /\ Numbers(wire') = Numbers(wire) \cup {frames + 1}
  <2>1. CASE wire' = wire \o <<x, Etx>>
    <3>1. wire' = Append(Append(wire, x), Etx)
      BY <1>2, <1>3, <2>1
    <3> QED
      BY <1>2, <1>4, <1>6, <3>1
  <2>2. CASE wire' = wire \o <<Ack, x, Etx>>
    <3>1. wire' = Append(Append(Append(wire, Ack), x), Etx)
      BY <1>2, <1>3, <2>2
    <3> QED
      BY <1>6, <1>7, <3>1
  <2> QED
    BY <2>1, <2>2
<1>9. Numbers(wire)' = Numbers(wire') /\ Numbers(line)' = Numbers(line)
  BY DEF Numbers
<1>10. /\ Done' = Done /\ Hand' = Hand
       /\ Gone' = Gone /\ FramesInOrder'
       /\ Stored' = Stored /\ StoredInOrder'
  <2>1. Done' = Done /\ Hand' = Hand
    BY DEF sketch, Done, Hand, Numbers
  <2> QED
    BY <2>1, SameMessages, StoredFrame DEF OrderInv, sketch
<1>11. Flowing'
  <2>1. /\ Row(Gone, Stored, Hand, Numbers(line), Numbers(wire) \cup {frames+1})
        /\ \A n \in Gone \cup Stored \cup Hand \cup Numbers(line)
                      \cup (Numbers(wire) \cup {frames+1}) : n <= frames + 1
    <3>1. /\ Gone \subseteq Nat /\ Stored \subseteq Nat /\ Hand \subseteq Nat
          /\ Numbers(line) \subseteq Nat /\ Numbers(wire) \subseteq Nat
      BY <1>2, NumberTypes DEF TypeOK, LineTypeOK
    <3> QED
      BY <1>2, <3>1 DEF OrderInv, Flowing, Row, Before
  <2> QED
    BY <1>8, <1>9, <1>10, <2>1 DEF Flowing, Row, Before
<1> QED
  BY <1>8, <1>10, <1>11
     DEF OrderInv, Increasing, Numbered, sketch

\* Steps that move no token along the line and store nothing.
LEMMA NoTokenMoves ==
  ASSUME OrderInv, UNCHANGED <<frames, wire, line, fields, sent>>,
         Done' = Done \/ Done' = {}, Hand' \subseteq Hand,
         Numbered(receivedInfo)',
         pc' \notin {"readInfo", "parse", "sendState", "parked"}
           => receivedInfo' = <<>>
  PROVE  OrderInv'
<1>1. /\ FramesInOrder' /\ Gone' = Gone
      /\ Stored' \subseteq Stored /\ StoredInOrder'
  BY SameMessages, StoredFrame, NothingStored DEF OrderInv
<1>2. /\ Numbers(line)' = Numbers(line) /\ Numbers(wire)' = Numbers(wire)
      /\ Increasing(line)' /\ Increasing(wire)'
      /\ Numbered(line)' /\ Numbered(wire)'
  BY DEF OrderInv, Numbers, Increasing, Numbered
<1>3. Flowing'
  BY <1>1, <1>2 DEF OrderInv, Flowing, Row, Before
<1> QED
  BY <1>1, <1>2, <1>3 DEF OrderInv

\* loop() or GetData takes a token from the buffer.
LEMMA ReaderTakes ==
  ASSUME TypeOK, OrderInv, line # <<>>, line' = Tail(line),
         UNCHANGED <<frames, wire, fields, sent>>, Done' = Done,
         Hand' \subseteq Hand \cup ({Head(line).n} \ {0}),
         Numbered(receivedInfo)',
         pc' \notin {"readInfo", "parse", "sendState", "parked"}
           => receivedInfo' = <<>>
  PROVE  OrderInv'
<1>1. /\ FramesInOrder' /\ Gone' = Gone
      /\ Stored' = Stored /\ StoredInOrder'
  BY SameMessages, StoredFrame DEF OrderInv
<1>2. line \in Seq(Tokens)
  BY DEF TypeOK, LineTypeOK
<1>3. /\ Numbers(line') \subseteq Numbers(line)
      /\ Head(line).n \in Numbers(line) \cup {0}
      /\ Increasing(line') /\ Numbered(line')
      /\ Before({Head(line).n}, Numbers(line'))
  BY <1>2, TakeToken DEF OrderInv
<1>4. /\ Numbers(line)' = Numbers(line') /\ Numbers(wire)' = Numbers(wire)
      /\ Increasing(line)' /\ Increasing(wire)'
      /\ Numbered(line)' /\ Numbered(wire)'
  BY <1>3 DEF OrderInv, Numbers, Increasing, Numbered
<1>5. Flowing'
  BY <1>1, <1>3, <1>4 DEF OrderInv, Flowing, Row, Before
<1> QED
  BY <1>1, <1>4, <1>5 DEF OrderInv

\* A token reaches the UART, or is dropped.
LEMMA ArrivesInOrder ==
  ASSUME TypeOK, OrderInv, Arrive
  PROVE  OrderInv'
<1>1. /\ wire # <<>> /\ wire' = Tail(wire)
      /\ line' = line \/ line' = Append(line, Head(wire))
      /\ UNCHANGED <<frames, pc, sketch, sent>>
  BY DEF Arrive
<1>2. /\ FramesInOrder' /\ Gone' = Gone /\ Hand' = Hand
      /\ Stored' = Stored /\ StoredInOrder'
  <2>1. Done' = Done /\ Hand' = Hand
    BY <1>1 DEF sketch, Done, Hand, Numbers
  <2> QED
    BY <1>1, <2>1, SameMessages, StoredFrame DEF OrderInv, sketch
<1>3. wire \in Seq(Tokens) /\ line \in Seq(Tokens)
  BY DEF TypeOK, LineTypeOK
<1> DEFINE x == Head(wire)
<1>4. /\ x \in Tokens
      /\ Numbers(wire') \subseteq Numbers(wire)
      /\ x.n \in Numbers(wire) \cup {0}
      /\ Increasing(wire') /\ Numbered(wire')
      /\ Before({x.n}, Numbers(wire'))
      /\ x.n = 0 => x.what \in Marks
  BY <1>1, <1>3, TakeToken DEF OrderInv
<1> HIDE DEF x
<1>5. Before(Numbers(line), {x.n} \ {0})
  BY <1>4 DEF OrderInv, Flowing, Row, Before
<1>6. /\ Numbers(line') \subseteq Numbers(line) \cup ({x.n} \ {0})
      /\ Increasing(line') /\ Numbered(line')
  <2>1. CASE line' = line
    BY <2>1 DEF OrderInv
  <2>2. CASE line' = Append(line, x)
    BY <1>3, <1>4, <1>5, <2>2, AddToken DEF OrderInv
  <2> QED
    BY <1>1, <2>1, <2>2 DEF x
<1>7. /\ Numbers(line)' = Numbers(line') /\ Numbers(wire)' = Numbers(wire')
      /\ Increasing(line)' /\ Increasing(wire)'
      /\ Numbered(line)' /\ Numbered(wire)'
  BY <1>4, <1>6 DEF OrderInv, Numbers, Increasing, Numbered
<1>8. Flowing'
  BY <1>1, <1>2, <1>4, <1>6, <1>7 DEF OrderInv, Flowing, Row, Before
<1> QED
  BY <1>1, <1>2, <1>7, <1>8 DEF OrderInv, Numbered, sketch

\* loop() up to the data cycle.
LEMMA LoopInOrder ==
  /\ TypeOK /\ OrderInv
  /\ Top \/ ReadInfo \/ InfoTimeout \/ Parse \/ SendState
  => OrderInv'
<1>1. SUFFICES ASSUME TypeOK, OrderInv,
                      Top \/ ReadInfo \/ InfoTimeout \/ Parse \/ SendState
               PROVE  OrderInv'
  OBVIOUS
<1>2. CASE Top
  <2>1. /\ pc = "top" /\ UNCHANGED <<head, line, sketch, sent>>
        /\ receivedInfo = <<>> /\ Done' = {}
        /\ pc' \in {"readInfo", "cycleTest"}
    BY <1>1, <1>2 DEF Top, OrderInv, Done
  <2>2. Hand' = {}
    BY <2>1 DEF Hand, Numbers, sketch
  <2>3. Numbered(receivedInfo)'
    BY <2>1 DEF Numbered, sketch
  <2> QED
    BY <1>1, <2>1, <2>2, <2>3, NoTokenMoves DEF head, sketch
<1>3. CASE ReadInfo
  <2> DEFINE x == Head(line)
  <2>1. /\ pc = "readInfo" /\ line # <<>> /\ line' = Tail(line)
        /\ UNCHANGED <<frames, wire, fields, field, sent>>
        /\ pc' \in {"readInfo", "parse"}
        /\ receivedInfo' = receivedInfo \/ receivedInfo' = Append(receivedInfo, x)
    BY <1>3 DEF ReadInfo, head
  <2>2. line \in Seq(Tokens) /\ receivedInfo \in Seq(Tokens)
    BY <1>1 DEF TypeOK, LineTypeOK, SketchTypeOK
  <2>3. x \in Tokens /\ (x.n = 0 => x.what \in Marks)
    BY <1>1, <2>1, <2>2, TakeToken DEF OrderInv
  <2> HIDE DEF x
  <2>4. /\ Numbers(receivedInfo') \subseteq Numbers(receivedInfo) \cup ({x.n} \ {0})
        /\ Numbered(receivedInfo')
    BY <1>1, <2>1, <2>2, <2>3, AddToken DEF OrderInv
  <2>5. Hand' \subseteq Hand \cup ({x.n} \ {0})
    BY <2>1, <2>4 DEF Hand, Numbers
  <2>6. Done' = Done
    BY <2>1 DEF Done
  <2>7. Numbered(receivedInfo)'
    BY <2>4 DEF Numbered
  <2> QED
    BY <1>1, <2>1, <2>5, <2>6, <2>7, ReaderTakes DEF x
<1>4. CASE InfoTimeout
  <2>1. /\ UNCHANGED <<head, line, fields, sent>>
        /\ pc' = "parse" /\ receivedInfo' = Timeout /\ Done' = {}
    BY <1>4 DEF InfoTimeout, Done
  <2>2. \A i \in DOMAIN Timeout :
          Timeout[i].n = 0 /\ Timeout[i].what \in Marks
    BY DEF Timeout, Text, Marks
  <2>3. Hand' = {} /\ Numbered(receivedInfo)'
    BY <2>1, <2>2 DEF Hand, Numbers, Numbered
  <2> QED
    BY <1>1, <2>1, <2>3, NoTokenMoves DEF head
<1>5. CASE Parse
  <2>1. /\ pc = "parse" /\ UNCHANGED <<head, line, fields, sent>>
        /\ Done' = {} /\ pc' \in {"sendState", "cycleTest"}
    BY <1>5 DEF Parse, Report, Done
  <2>2. CASE pc' = "cycleTest"
    <3>1. receivedInfo' = <<>>
      BY <1>5, <2>2 DEF Parse, Report
    <3>2. Hand' = {} /\ Numbered(receivedInfo)'
      BY <2>2, <3>1 DEF Hand, Numbered
    <3> QED
      BY <1>1, <2>1, <3>1, <3>2, NoTokenMoves DEF head
  <2>3. CASE pc' = "sendState"
    <3>1. /\ outgoing' = receivedInfo[1] /\ receivedInfo' = receivedInfo
          /\ Len(receivedInfo) = 1 /\ receivedInfo[1].what \in Codes
      BY <1>5, <2>3 DEF Parse, Report, Is, Codes
    <3>2. 1 \in DOMAIN receivedInfo
      BY <1>1, <3>1 DEF TypeOK, SketchTypeOK
    <3>3. receivedInfo[1].n \in Numbers(receivedInfo)
      BY <1>1, <3>1, <3>2, WordsAssumption DEF OrderInv, Numbered, Numbers
    <3>4. Hand' \subseteq Hand /\ Numbered(receivedInfo)'
      BY <1>1, <2>1, <2>3, <3>1, <3>3 DEF Hand, OrderInv, Numbered
    <3> QED
      BY <1>1, <2>1, <2>3, <3>4, NoTokenMoves DEF head
  <2> QED
    BY <2>1, <2>2, <2>3
<1>6. CASE SendState
  <2> DEFINE m == [kind |-> "state", source |-> outgoing]
  <2>1. /\ pc = "sendState" /\ UNCHANGED <<head, line, fields>>
        /\ sent' = Append(sent, m)
        /\ receivedInfo' = <<>> /\ pc' = "cycleTest"
    BY <1>6 DEF SendState
  <2>2. Used(m) = {outgoing.n} /\ m.kind # "data" /\ Hand = {outgoing.n}
    BY <2>1 DEF Used, Hand
  <2> HIDE DEF m
  <2>3. Before(Gone, Used(m))
    BY <1>1, <2>2 DEF OrderInv, Flowing, Row
  <2>4. Gone' = Gone \cup Hand /\ FramesInOrder'
    BY <1>1, <2>1, <2>2, <2>3, MessageMore DEF OrderInv
  <2>5. Hand' = {} /\ Stored' = {} /\ StoredInOrder'
    <3>1. Hand' = {} /\ Done' = {}
      BY <2>1 DEF Hand, Done
    <3> QED
      BY <3>1, NothingStored
  <2>6. /\ Numbers(line)' = Numbers(line) /\ Numbers(wire)' = Numbers(wire)
        /\ Increasing(line)' /\ Increasing(wire)'
        /\ Numbered(line)' /\ Numbered(wire)' /\ Numbered(receivedInfo)'
    BY <1>1, <2>1 DEF OrderInv, Numbers, Increasing, Numbered, head
  <2>7. Flowing'
    BY <1>1, <2>1, <2>4, <2>5, <2>6 DEF OrderInv, Flowing, Row, Before, head
  <2> QED
    BY <2>1, <2>4, <2>5, <2>6, <2>7 DEF OrderInv
<1> QED
  BY <1>1, <1>2, <1>3, <1>4, <1>5, <1>6

\* The data cycle.
LEMMA CycleInOrder ==
  /\ TypeOK /\ OrderInv
  /\ \/ \E due \in BOOLEAN : CycleTest(due)
     \/ Ask \/ ReadAnswer \/ AnswerTimeout \/ Store \/ SendReport
  => OrderInv'
<1>1. SUFFICES ASSUME TypeOK, OrderInv,
                      \/ \E due \in BOOLEAN : CycleTest(due)
                      \/ Ask \/ ReadAnswer \/ AnswerTimeout \/ Store
                      \/ SendReport
               PROVE  OrderInv'
  OBVIOUS
<1>2. /\ receivedInfo = <<>> /\ UNCHANGED receivedInfo
      /\ Numbered(receivedInfo)'
  <2>1. /\ pc \notin {"readInfo", "parse", "sendState", "parked"}
        /\ UNCHANGED receivedInfo
    BY <1>1 DEF CycleTest, Ask, ReadAnswer, AnswerTimeout, Store, SendReport
  <2> QED
    BY <1>1, <2>1 DEF OrderInv, Numbered
<1>3. field \in Nat /\ field \in DOMAIN Commands /\ DOMAIN Commands = 1..Len(Commands)
      /\ Len(Commands) \in Nat
  BY <1>1, CodesAssumption DEF TypeOK, SketchTypeOK
<1>4. CASE \E due \in BOOLEAN : CycleTest(due)
  <2>1. /\ UNCHANGED <<head, line, fields, sent>>
        /\ \/ pc' = "ask" /\ field' = 1
           \/ pc' = "top"
    BY <1>4 DEF CycleTest
  <2>2. Done' = {} /\ Hand' = {}
    BY <2>1 DEF Done, Hand
  <2> QED
    BY <1>1, <1>2, <2>1, <2>2, NoTokenMoves DEF head
<1>5. CASE Ask
  <2>1. /\ UNCHANGED <<frames, wire, line, field, fields, sent>>
        /\ response' = <<>> /\ pc = "ask" /\ pc' = "readAnswer"
    BY <1>5 DEF Ask
  <2>2. Done' = Done /\ Hand' = {}
    BY <2>1 DEF Done, Hand, Numbers
  <2> QED
    BY <1>1, <1>2, <2>1, <2>2, NoTokenMoves
<1>6. CASE AnswerTimeout
  <2>1. /\ UNCHANGED <<head, line, field, fields, sent>>
        /\ response' = <<>> /\ pc = "readAnswer" /\ pc' = "store"
    BY <1>6 DEF AnswerTimeout
  <2>2. Done' = Done /\ Hand' = {}
    BY <2>1 DEF Done, Hand, Numbers
  <2> QED
    BY <1>1, <1>2, <2>1, <2>2, NoTokenMoves DEF head
<1>7. CASE ReadAnswer
  <2> DEFINE x == Head(line)
  <2>1. /\ pc = "readAnswer" /\ line # <<>> /\ line' = Tail(line)
        /\ UNCHANGED <<frames, wire, fields, field, sent>>
        /\ pc' \in {"readAnswer", "store"}
        /\ response' = response \/ response' = Append(response, x)
    BY <1>7 DEF ReadAnswer, head
  <2>2. line \in Seq(Tokens) /\ response \in Seq(Tokens)
    BY <1>1 DEF TypeOK, LineTypeOK, SketchTypeOK
  <2>3. x \in Tokens
    BY <2>1, <2>2
  <2> HIDE DEF x
  <2>4. Numbers(response') \subseteq Numbers(response) \cup ({x.n} \ {0})
    BY <2>1, <2>2, <2>3, AddToken
  <2>5. Hand' \subseteq Hand \cup ({x.n} \ {0})
    BY <2>1, <2>4 DEF Hand, Numbers
  <2>6. Done' = Done
    BY <2>1 DEF Done
  <2> QED
    BY <1>1, <1>2, <2>1, <2>5, <2>6, ReaderTakes DEF x
<1>8. CASE Store
  <2> DEFINE y == IF response = <<>> THEN NoSource ELSE Head(response)
  <2>1. /\ pc = "store" /\ UNCHANGED <<head, line, response, sent>>
        /\ fields' = [fields EXCEPT ![field] = y]
        /\ \/ field < Len(Commands) /\ field' = field + 1 /\ pc' = "ask"
           \/ ~(field < Len(Commands)) /\ field' = field /\ pc' = "sendReport"
    BY <1>8 DEF Store
  <2>2. /\ fields \in [DOMAIN Commands -> Tokens]
        /\ response \in Seq(Tokens)
    BY <1>1 DEF TypeOK, SketchTypeOK
  <2>3. y \in Tokens /\ y.n \in Numbers(response) \cup {0}
    BY <2>2, TakeToken, TokenTypes DEF NoSource, Text
  <2> HIDE DEF y
  <2>4. Hand = Numbers(response) /\ Hand' = {}
    BY <2>1 DEF Hand
  <2>5. Done = 1..field-1 /\ Done' = 1..field /\ field \notin Done
    BY <1>3, <2>1 DEF Done
  <2>6. /\ Done' = Done \cup {field} /\ fields'[field] = y
        /\ \A f \in Done : fields'[f] = fields[f] /\ f < field
        /\ Done \subseteq Nat
    BY <1>3, <2>1, <2>2, <2>5
  <2> HIDE DEF Done
  <2>7. Stored' \subseteq Stored \cup Hand
    BY <2>3, <2>4, <2>6 DEF Stored
  <2>8. StoredInOrder'
    <3>1. SUFFICES ASSUME NEW f \in Done', NEW g \in Done', f < g,
                          fields'[g].n # 0
                   PROVE  fields'[f].n < fields'[g].n
      BY DEF StoredInOrder
    <3>2. f \in Done
      BY <1>3, <2>6, <3>1
    <3>3. CASE g \in Done
      BY <1>1, <2>6, <3>1, <3>2, <3>3 DEF OrderInv, StoredInOrder
    <3>4. CASE g = field
      <4>1. y.n \in Hand /\ y.n \in Nat /\ y.n # 0
        BY <1>1, <2>3, <2>4, <2>6, <3>1, <3>4, NumberTypes
      <4>2. fields[f].n # 0 => fields[f].n \in Stored
        BY <3>2 DEF Stored
      <4>3. fields[f].n # 0 => fields[f].n < y.n
        BY <1>1, <4>1, <4>2 DEF OrderInv, Flowing, Row, Before
      <4> QED
        BY <2>6, <3>2, <3>4, <4>1, <4>3
    <3> QED
      BY <2>6, <3>3, <3>4
  <2>9. /\ Numbers(line)' = Numbers(line) /\ Numbers(wire)' = Numbers(wire)
        /\ Increasing(line)' /\ Increasing(wire)'
        /\ Numbered(line)' /\ Numbered(wire)'
    BY <1>1, <2>1 DEF OrderInv, Numbers, Increasing, Numbered, head
  <2>10. Gone' = Gone /\ FramesInOrder'
    BY <1>1, <2>1, SameMessages DEF OrderInv
  <2>11. Flowing'
    BY <1>1, <2>1, <2>4, <2>7, <2>9, <2>10
       DEF OrderInv, Flowing, Row, Before, head
  <2> QED
    BY <1>2, <2>8, <2>9, <2>10, <2>11 DEF OrderInv
<1>9. CASE SendReport
  <2> DEFINE m == [kind |-> "data", source |-> fields, clean |-> clean]
  <2>1. /\ pc = "sendReport" /\ pc' = "top" /\ UNCHANGED <<head, line, fields>>
        /\ sent' = Append(sent, m)
    BY <1>9 DEF SendReport
  <2>2. fields \in [DOMAIN Commands -> Tokens]
    BY <1>1 DEF TypeOK, SketchTypeOK
  <2>3. /\ Done = DOMAIN Commands /\ DOMAIN fields = DOMAIN Commands
        /\ m.source = fields
        /\ Used(m) = {fields[f].n : f \in DOMAIN fields} \ {0}
    BY <2>1, <2>2 DEF Done, Used
  <2> HIDE DEF m
  <2>4. Used(m) = Stored
    BY <2>3 DEF Stored
  <2>5. Before(Gone, Used(m))
    BY <1>1, <2>4 DEF OrderInv, Flowing, Row
  <2>6. \A f, g \in DOMAIN m.source :
          f < g /\ m.source[g].n # 0 => m.source[f].n < m.source[g].n
    BY <1>1, <2>3 DEF OrderInv, StoredInOrder
  <2>7. Gone' = Gone \cup Stored /\ FramesInOrder'
    BY <1>1, <2>1, <2>4, <2>5, <2>6, MessageMore DEF OrderInv
  <2>8. Hand' = {} /\ Stored' = {} /\ StoredInOrder'
    <3>1. Hand' = {} /\ Done' = {}
      BY <2>1 DEF Hand, Done
    <3> QED
      BY <3>1, NothingStored
  <2>9. /\ Numbers(line)' = Numbers(line) /\ Numbers(wire)' = Numbers(wire)
        /\ Increasing(line)' /\ Increasing(wire)'
        /\ Numbered(line)' /\ Numbered(wire)'
    BY <1>1, <2>1 DEF OrderInv, Numbers, Increasing, Numbered, head
  <2>10. Flowing'
    BY <1>1, <2>1, <2>7, <2>8, <2>9 DEF OrderInv, Flowing, Row, Before, head
  <2> QED
    BY <1>2, <2>7, <2>8, <2>9, <2>10 DEF OrderInv
<1> QED
  BY <1>1, <1>4, <1>5, <1>6, <1>7, <1>8, <1>9

\* Power on: no frame has been printed, none is stored.
LEMMA InitOrder == Init => OrderInv
<1>1. SUFFICES ASSUME Init PROVE OrderInv
  OBVIOUS
<1>2. sent = <<>> /\ line = <<>> /\ wire = <<>> /\ receivedInfo = <<>>
  BY <1>1 DEF Init
<1>3. Done = {} /\ Hand = {} /\ Stored = {} /\ Gone = {}
  BY <1>1, <1>2 DEF Init, Done, Hand, Stored, Gone
<1>4. /\ \A s : s = <<>> => Numbers(s) = {} /\ Increasing(s) /\ Numbered(s)
      /\ FramesInOrder /\ StoredInOrder
  BY <1>2, <1>3
     DEF Numbers, Increasing, Numbered, FramesInOrder, StoredInOrder
<1>5. Flowing
  BY <1>2, <1>3, <1>4 DEF Flowing, Row, Before
<1> QED
  BY <1>2, <1>4, <1>5 DEF OrderInv

\* Every step of the sketch, the detector head and the line keeps the order.
LEMMA OrderStep == TypeOK /\ OrderInv /\ [Next]_vars => OrderInv'
<1>1. SUFFICES ASSUME TypeOK, OrderInv, [Next]_vars PROVE OrderInv'
  OBVIOUS
<1>2. ASSUME NEW what \in Words, Send(what) PROVE OrderInv'
  <2>1. Text(frames + 1, what) \in Tokens /\ Text(frames + 1, what).n = frames + 1
    BY <1>1, <1>2, TokenTypes DEF TypeOK, LineTypeOK, Text
  <2> QED
    BY <1>1, <1>2, <2>1, HeadSendsInOrder DEF Send
<1>3. CASE \/ \E a \in Alarms : Raise(a)
           \/ Clear
           \/ \E n \in Notices : Notify(n)
  BY <1>2, <1>3, TokenTypes DEF Raise, Clear, Notify
<1>4. CASE Answer
  <2>1. Head(requests) \in Words
    BY <1>1, <1>4, TokenTypes DEF Answer, TypeOK, LineTypeOK
  <2>2. /\ Text(frames + 1, Head(requests)) \in Tokens
        /\ Text(frames + 1, Head(requests)).n = frames + 1
    BY <1>1, <2>1, TokenTypes DEF TypeOK, LineTypeOK, Text
  <2> QED
    BY <1>1, <1>4, <2>2, HeadSendsInOrder DEF Answer
<1>5. CASE Miss \/ UNCHANGED vars
  <2>1. UNCHANGED <<frames, wire, line, pc, sketch, sent>>
    BY <1>5 DEF Miss, vars, head
  <2>2. /\ Done' = Done /\ Hand' = Hand /\ Numbered(receivedInfo)'
        /\ pc' \notin {"readInfo", "parse", "sendState", "parked"}
             => receivedInfo' = <<>>
    BY <1>1, <2>1 DEF sketch, Done, Hand, Numbers, Numbered, OrderInv
  <2> QED
    BY <1>1, <2>1, <2>2, NoTokenMoves DEF sketch
<1>6. CASE Park
  <2>1. /\ UNCHANGED <<head, line, sketch, sent>> /\ pc' = "parked"
    BY <1>6 DEF Park
  <2>2. /\ Done' = {} /\ Hand' = {} /\ Numbered(receivedInfo)'
    BY <1>1, <2>1 DEF sketch, Done, Hand, Numbered, OrderInv
  <2> QED
    BY <1>1, <2>1, <2>2, NoTokenMoves DEF head, sketch
<1> QED
  BY <1>1, <1>3, <1>4, <1>5, <1>6, ArrivesInOrder, LoopInOrder, CycleInOrder
     DEF Next, Loop, HeadUnit

\* The frames of the head are used once and in order, for any number of them
\* and any size of the buffer, although GetData and loop() read the same line:
\* a reader empties what it has collected before it collects again.
THEOREM FramesKeepOrder == Spec => []FramesInOrder
<1>1. Spec => [](TypeOK /\ OrderInv)
  BY InitTypeOK, InitOrder, TypeStep, OrderStep, PTL DEF Spec
<1>2. OrderInv => FramesInOrder
  BY DEF OrderInv
<1> QED
  BY <1>1, <1>2, PTL

-----------------------------------------------------------------------------
(* Undisturbed cycles yield what was asked for.                            *)

\* The tokens of an answer differ, and the field asked for has a name.
LEMMA AnswerTokens ==
  ASSUME TypeOK
  PROVE  /\ Commands[field] \in Asked
         /\ Etx # Ack
         /\ \A n \in Nat, c \in Asked :
              /\ Text(n, c) # Etx /\ Text(n, c) # Ack
              /\ Text(n, c).what = c
<1>1. Commands[field] \in Asked
  BY DEF TypeOK, SketchTypeOK, Asked
<1>2. Etx.what \in Marks /\ Ack.what \in Marks /\ Etx.what # Ack.what
  BY DEF Etx, Ack, Marks
<1>3. \A n \in Nat, c \in Asked : Text(n, c).what = c /\ c \notin Marks
  BY WordsAssumption DEF Text
<1> QED
  BY <1>1, <1>2, <1>3

\* Short sequences, one longer.
LEMMA AppendTuple ==
  ASSUME NEW T, NEW a \in T, NEW b \in T, NEW c \in T
  PROVE  /\ Append(<<>>, a) = <<a>>
         /\ Append(<<a>>, b) = <<a, b>>
         /\ Append(<<a, b>>, c) = <<a, b, c>>
<1>1. Append(<<>>, a) = <<a>>
  OBVIOUS
<1>2. Append(<<a>>, b) = <<a, b>>
  <2> DEFINE x == Append(<<a>>, b)
             y == <<a, b>>
  <2>1. x \in Seq(T) /\ Len(x) = 2 /\ x[1] = a /\ x[2] = b
    <3>1. <<a>> \in Seq(T)
      OBVIOUS
    <3> QED
      BY <3>1
  <2>2. y \in Seq(T) /\ Len(y) = 2 /\ y[1] = a /\ y[2] = b
    OBVIOUS
  <2> HIDE DEF x, y
  <2>3. x = y
    BY <2>1, <2>2, SeqEqual
  <2> QED
    BY <2>3 DEF x, y
<1>3. Append(<<a, b>>, c) = <<a, b, c>>
  <2> DEFINE x == Append(<<a, b>>, c)
             y == <<a, b, c>>
  <2>1. x \in Seq(T) /\ Len(x) = 3 /\ x[1] = a /\ x[2] = b /\ x[3] = c
    <3>1. <<a, b>> \in Seq(T)
      OBVIOUS
    <3> QED
      BY <3>1
  <2>2. y \in Seq(T) /\ Len(y) = 3 /\ y[1] = a /\ y[2] = b /\ y[3] = c
    OBVIOUS
  <2> HIDE DEF x, y
  <2>3. x = y
    BY <2>1, <2>2, SeqEqual
  <2> QED
    BY <2>3 DEF x, y
<1> QED
  BY <1>1, <1>2, <1>3

\* A token of the answer reaches the UART: only the end of it may find the
\* buffer full.
LEMMA AnswerArrives ==
  ASSUME NEW t \in Tokens, Coming(t), Arrive
  PROVE  Coming(t)' /\ UNCHANGED <<requests, pc, sketch, clean, sent, frames>>
<1>0. (Coming(t))' <=>
        \/ wire' = <<Ack, t, Etx>> /\ line' = <<>> /\ response' = <<>>
        \/ wire' = <<t, Etx>> /\ line' \in {<<>>, <<Ack>>} /\ response' = <<>>
        \/ wire' = <<Etx>>
           /\ \/ line' \in {<<Ack, t>>, <<t>>} /\ response' = <<>>
              \/ line' = <<>> /\ response' = <<t>>
        \/ wire' = <<>>
           /\ \/ line' \in {<<Ack, t>>, <<t>>} /\ response' = <<>>
              \/ line' = <<>> /\ response' = <<t>>
              \/ line' \in {<<Ack, t, Etx>>, <<t, Etx>>} /\ response' = <<>>
              \/ line' = <<Etx>> /\ response' = <<t>>
  BY DEF Coming, Unended, Ended
<1>1. /\ wire # <<>> /\ wire' = Tail(wire)
      /\ IF Len(line) < LineCap THEN line' = Append(line, Head(wire))
         ELSE line' = line
      /\ UNCHANGED <<requests, pc, sketch, clean, sent, frames, response>>
  BY DEF Arrive, sketch
<1>2. LineCap \in Nat /\ LineCap >= 2
  BY SizeAssumption
<1>3. Etx \in Tokens /\ Ack \in Tokens
  BY TokenTypes
<1>4. CASE wire = <<Ack, t, Etx>> /\ line = <<>> /\ response = <<>>
  <2>1. Len(line) = 0 /\ Head(wire) = Ack /\ wire' = <<t, Etx>>
    BY <1>1, <1>3, <1>4
  <2>2. line' = <<Ack>> /\ response' = <<>>
    BY <1>1, <1>2, <1>4, <2>1
  <2> QED
    BY <1>0, <1>1, <2>1, <2>2
<1>5. CASE wire = <<t, Etx>> /\ line \in {<<>>, <<Ack>>} /\ response = <<>>
  <2>1. Len(line) < 2 /\ Head(wire) = t /\ wire' = <<Etx>>
    BY <1>1, <1>3, <1>5
  <2>2. line' = Append(line, t) /\ response' = <<>>
    BY <1>1, <1>2, <1>5, <2>1
  <2>3. line' \in {<<Ack, t>>, <<t>>}
    <3>1. Append(<<>>, t) = <<t>> /\ Append(<<Ack>>, t) = <<Ack, t>>
      BY <1>3, AppendTuple
    <3> QED
      BY <1>5, <2>2, <3>1
  <2> QED
    BY <1>0, <1>1, <2>1, <2>2, <2>3
<1>6. CASE wire = <<Etx>> /\ Unended(t)
  <2>1. Head(wire) = Etx /\ wire' = <<>>
    BY <1>1, <1>3, <1>6
  <2>2. line' = line \/ line' = Append(line, Etx)
    BY <1>1, <2>1
  <2>3. CASE line' = line
    BY <1>0, <1>1, <1>6, <2>1, <2>3 DEF Unended
  <2>4. CASE line' = Append(line, Etx)
    <3>1. /\ line = <<Ack, t>> => line' = <<Ack, t, Etx>>
          /\ line = <<t>> => line' = <<t, Etx>>
          /\ line = <<>> => line' = <<Etx>>
      <4>1. /\ Append(<<Ack, t>>, Etx) = <<Ack, t, Etx>>
            /\ Append(<<t>>, Etx) = <<t, Etx>>
            /\ Append(<<>>, Etx) = <<Etx>>
        BY <1>3, AppendTuple
      <4> QED
        BY <2>4, <4>1
    <3> QED
      BY <1>0, <1>1, <1>6, <2>1, <2>4, <3>1 DEF Unended
  <2> QED
    BY <2>2, <2>3, <2>4
<1> QED
  BY <1>1, <1>4, <1>5, <1>6 DEF Coming

\* GetData takes a token of the answer; its end finds the response complete.
LEMMA AnswerRead ==
  ASSUME TypeOK, NEW n \in Nat, Coming(Text(n, Commands[field])), ReadAnswer
  PROVE  LET t == Text(n, Commands[field]) IN
         \/ pc' = "readAnswer" /\ Coming(t)'
         \/ pc' = "store" /\ line' = <<>> /\ wire' = <<>> /\ response' = <<t>>
<1> DEFINE t == Text(n, Commands[field])
<1>1. /\ pc = "readAnswer" /\ line # <<>> /\ line' = Tail(line)
      /\ Head(line) = Etx => pc' = "store" /\ response' = response
      /\ Head(line) = Ack => pc' = "readAnswer" /\ response' = response
      /\ Head(line) \notin {Ack, Etx} =>
           pc' = "readAnswer" /\ response' = Append(response, Head(line))
      /\ wire' = wire /\ field' = field
  BY AnswerTokens DEF ReadAnswer, head
<1>2. t # Etx /\ t # Ack /\ Etx # Ack
  BY AnswerTokens
<1>3. t \in Tokens /\ Etx \in Tokens /\ Ack \in Tokens
  <2>1. Commands[field] \in Words
    BY AnswerTokens, TokenTypes
  <2> QED
    BY <2>1, TokenTypes
<1>4. Coming(t)
  OBVIOUS
<1>5. (Coming(t))' <=>
        \/ wire' = <<Ack, t, Etx>> /\ line' = <<>> /\ response' = <<>>
        \/ wire' = <<t, Etx>> /\ line' \in {<<>>, <<Ack>>} /\ response' = <<>>
        \/ wire' = <<Etx>>
           /\ \/ line' \in {<<Ack, t>>, <<t>>} /\ response' = <<>>
              \/ line' = <<>> /\ response' = <<t>>
        \/ wire' = <<>>
           /\ \/ line' \in {<<Ack, t>>, <<t>>} /\ response' = <<>>
              \/ line' = <<>> /\ response' = <<t>>
              \/ line' \in {<<Ack, t, Etx>>, <<t, Etx>>} /\ response' = <<>>
              \/ line' = <<Etx>> /\ response' = <<t>>
  BY <1>1 DEF Coming, Unended, Ended
<1> HIDE DEF t
<1>6. CASE line = <<Ack>> /\ wire = <<t, Etx>> /\ response = <<>>
  <2>1. Head(line) = Ack /\ line' = <<>>
    BY <1>1, <1>3, <1>6
  <2> QED
    BY <1>1, <1>5, <1>6, <2>1 DEF t
<1>7. CASE Unended(t) /\ wire \in {<<>>, <<Etx>>}
  <2>1. CASE line = <<Ack, t>> /\ response = <<>>
    <3>1. Head(line) = Ack /\ line' = <<t>>
      BY <1>1, <1>3, <2>1
    <3> QED
      BY <1>1, <1>5, <1>7, <2>1, <3>1 DEF t
  <2>2. CASE line = <<t>> /\ response = <<>>
    <3>1. Head(line) = t /\ line' = <<>> /\ Append(response, t) = <<t>>
      BY <1>1, <1>3, <2>2
    <3> QED
      BY <1>1, <1>2, <1>5, <1>7, <2>2, <3>1 DEF t
  <2> QED
    BY <1>1, <1>7, <2>1, <2>2 DEF Unended
<1>8. CASE Ended(t) /\ wire = <<>>
  <2>1. CASE line = <<Ack, t, Etx>> /\ response = <<>>
    <3>1. Head(line) = Ack /\ line' = <<t, Etx>>
      BY <1>1, <1>3, <2>1
    <3> QED
      BY <1>1, <1>5, <1>8, <2>1, <3>1 DEF t
  <2>2. CASE line = <<t, Etx>> /\ response = <<>>
    <3>1. Head(line) = t /\ line' = <<Etx>> /\ Append(response, t) = <<t>>
      BY <1>1, <1>3, <2>2
    <3> QED
      BY <1>1, <1>2, <1>5, <1>8, <2>2, <3>1 DEF t
  <2>3. CASE line = <<Etx>> /\ response = <<t>>
    <3>1. Head(line) = Etx /\ line' = <<>>
      BY <1>1, <1>3, <2>3
    <3> QED
      BY <1>1, <1>8, <2>3, <3>1 DEF t
  <2> QED
    BY <1>8, <2>1, <2>2, <2>3 DEF Ended
<1> QED
  BY <1>1, <1>4, <1>6, <1>7, <1>8 DEF Coming, t

\* Power on: no cycle of the loop has begun.
LEMMA InitClean == Init => CleanInv
BY DEF Init, CleanInv, CleanCycle, Undisturbed

\* Without a message, and outside a cycle or disturbed, nothing is claimed.
LEMMA NoClaim ==
  ASSUME CleanInv, UNCHANGED sent, ~clean' \/ pc' \notin CycleSteps
  PROVE  CleanInv'
BY DEF CleanInv, CleanCycle, Undisturbed

\* The head and the line.
LEMMA LineClean ==
  TypeOK /\ CleanInv /\ (HeadUnit \/ Arrive) => CleanInv'
<1>1. SUFFICES ASSUME TypeOK, CleanInv, HeadUnit \/ Arrive PROVE CleanInv'
  OBVIOUS
<1>2. ASSUME NEW what, Send(what) PROVE CleanInv'
  BY <1>1, <1>2, NoClaim DEF Send
<1>3. CASE \/ \E a \in Alarms : Raise(a)
           \/ Clear
           \/ \E n \in Notices : Notify(n)
  BY <1>2, <1>3 DEF Raise, Clear, Notify
<1>4. UNCHANGED <<pc, sketch, sent>> /\ (clean' = clean \/ clean' = FALSE)
  BY <1>1 DEF HeadUnit, Raise, Clear, Notify, Send, Answer, Miss, Arrive
<1>5. Done' = Done /\ CleanCycle'
  BY <1>1, <1>4 DEF Done, sketch, CleanInv, CleanCycle
<1> DEFINE c == Commands[field]
<1>6. SUFFICES ASSUME Answer \/ Miss \/ Arrive, clean, pc = "readAnswer",
                      Answering
               PROVE  Answering'
  <2>1. CASE ~(clean /\ pc \in CycleSteps)
    <3>1. pc' = pc /\ sent' = sent /\ (~clean => ~clean')
      <4>1. CASE clean' = clean
        BY <1>4, <4>1
      <4>2. CASE clean' = FALSE
        BY <1>4, <4>2
      <4> QED
        BY <1>4, <4>1, <4>2
    <3>2. ~clean' \/ pc' \notin CycleSteps
      BY <2>1, <3>1
    <3> QED
      BY <1>1, <3>1, <3>2, NoClaim
  <2>2. Answer \/ Miss \/ Arrive => requests # <<>> \/ wire # <<>>
    BY DEF Answer, Miss, Arrive
  <2>3. clean /\ pc \in CycleSteps /\ (Answer \/ Miss \/ Arrive)
          => pc = "readAnswer" /\ Answering
    BY <1>1, <2>2 DEF CleanInv, Undisturbed, Quiet
  <2>4. ASSUME clean, pc = "readAnswer", Answering'
        PROVE  CleanInv'
    BY <1>1, <1>4, <1>5, <2>4 DEF CleanInv, Undisturbed, CycleSteps, sketch
  <2> QED
    BY <1>1, <1>3, <1>6, <2>1, <2>3, <2>4 DEF HeadUnit
<1>7. CASE Answer
  <2>1. requests = <<c>> /\ line = <<>> /\ wire = <<>> /\ response = <<>>
    BY <1>6, <1>7 DEF Answering, Answer
  <2>2. c \in Asked
    BY <1>1, AnswerTokens
  <2>3. Head(requests) = c /\ Tail(requests) = <<>>
    BY <2>1, <2>2
  <2>4. PICK n \in Nat : n = frames + 1
    BY <1>1 DEF TypeOK, LineTypeOK
  <2>5. /\ requests' = <<>> /\ frames' = n /\ wire' = <<Ack, Text(n, c), Etx>>
        /\ UNCHANGED <<line, response, field>>
    <3>1. Text(n, c) \in Tokens /\ Ack \in Tokens /\ Etx \in Tokens
      BY <2>2, TokenTypes
    <3>2. <<Ack, Text(n, c), Etx>> \in Seq(Tokens)
      BY <3>1
    <3>3. wire' = <<Ack, Text(n, c), Etx>>
      BY <1>7, <2>1, <2>3, <2>4, <3>2, ConcatEmptySeq DEF Answer
    <3> QED
      BY <1>7, <2>3, <2>4, <3>3 DEF Answer, sketch
  <2>6. Coming(Text(n, c))'
    BY <2>1, <2>5 DEF Coming, Text
  <2>7. n \in 1..frames'
    BY <1>1, <2>4, <2>5 DEF TypeOK, LineTypeOK
  <2> QED
    BY <2>1, <2>5, <2>6, <2>7 DEF Answering
<1>8. CASE Miss
  <2>1. requests = <<c>> /\ line = <<>> /\ wire = <<>> /\ response = <<>>
    BY <1>6, <1>8 DEF Answering, Miss
  <2>2. Tail(requests) = <<>>
    BY <2>1
  <2> QED
    BY <1>8, <2>1, <2>2 DEF Answering, Miss, sketch
<1>9. CASE Arrive
  <2>1. requests = <<>> /\ wire # <<>>
    BY <1>6, <1>9 DEF Answering, Arrive
  <2>2. PICK n \in 1..frames : Coming(Text(n, c))
    BY <1>6, <2>1 DEF Answering
  <2>3. Text(n, c) \in Tokens
    BY <1>1, AnswerTokens, TokenTypes DEF TypeOK, LineTypeOK
  <2> DEFINE t == Text(n, c)
  <2>4. Coming(t)
    BY <2>2
  <2>5. t' = t
    BY <1>4 DEF sketch, Text
  <2> HIDE DEF t
  <2>6. Coming(t)' /\ UNCHANGED <<requests, field, frames>>
    BY <1>9, <2>3, <2>4, <2>5, AnswerArrives DEF t, sketch
  <2> QED
    BY <2>1, <2>6 DEF Answering, t
<1> QED
  BY <1>6, <1>7, <1>8, <1>9

\* The sketch.
LEMMA LoopClean ==
  TypeOK /\ CleanInv /\ (Loop \/ UNCHANGED vars) => CleanInv'
<1>1. SUFFICES ASSUME TypeOK, CleanInv, Loop \/ UNCHANGED vars PROVE CleanInv'
  OBVIOUS
<1>2. field \in Nat /\ field \in DOMAIN Commands /\ DOMAIN Commands = 1..Len(Commands)
      /\ Len(Commands) \in Nat
  BY <1>1, CodesAssumption DEF TypeOK, SketchTypeOK
<1>3. CASE Top \/ ReadInfo \/ InfoTimeout \/ Parse \/ Park
  <2>1. UNCHANGED sent /\ pc' \notin CycleSteps
    BY <1>3 DEF Top, ReadInfo, InfoTimeout, Parse, Park, Report, CycleSteps
  <2> QED
    BY <1>1, <2>1, NoClaim
<1>4. CASE SendState \/ SendReport
  <2>1. PICK m : sent' = Append(sent, m) /\ (m.kind = "data" /\ m.clean =>
                   \A f \in DOMAIN Commands : m.source[f].what = Commands[f])
    <3>1. CASE SendState
      BY <3>1 DEF SendState
    <3>2. CASE SendReport
      <4> DEFINE m == [kind |-> "data", source |-> fields, clean |-> clean]
      <4>1. Done = DOMAIN Commands /\ sent' = Append(sent, m)
            /\ pc \in CycleSteps
        BY <3>2 DEF Done, SendReport, CycleSteps
      <4>2. m.clean => \A f \in DOMAIN Commands : m.source[f].what = Commands[f]
        BY <1>1, <4>1 DEF CleanInv, Undisturbed
      <4> QED
        BY <4>1, <4>2
    <3> QED
      BY <1>4, <3>1, <3>2
  <2>2. pc' \notin CycleSteps
    BY <1>4 DEF SendState, SendReport, CycleSteps
  <2>3. sent \in Seq(Messages)
    BY <1>1 DEF TypeOK, HistoryTypeOK
  <2>4. CleanCycle'
    <3>1. SUFFICES ASSUME NEW i \in DOMAIN sent', sent'[i].kind = "data",
                          sent'[i].clean, NEW f \in DOMAIN Commands
                   PROVE  sent'[i].source[f].what = Commands[f]
      BY DEF CleanCycle
    <3>2. \/ i \in DOMAIN sent /\ sent'[i] = sent[i]
          \/ sent'[i] = m
      BY <2>1, <2>3, <3>1
    <3> QED
      BY <1>1, <2>1, <3>1, <3>2 DEF CleanInv, CleanCycle
  <2> QED
    BY <2>2, <2>4 DEF CleanInv, Undisturbed
<1>5. CASE \E due \in BOOLEAN : CycleTest(due)
  <2>1. /\ UNCHANGED <<sent, line, wire, requests>>
        /\ \/ pc' = "top"
           \/ /\ pc' = "ask" /\ field' = 1
              /\ clean' = (line = <<>> /\ wire = <<>> /\ requests = <<>>)
    BY <1>5 DEF CycleTest, head
  <2>2. CASE pc' = "top"
    BY <1>1, <2>1, <2>2, NoClaim DEF CycleSteps
  <2>3. CASE pc' = "ask"
    <3>1. Done' = {}
      BY <2>1, <2>3 DEF Done
    <3>2. CleanCycle'
      BY <1>1, <2>1 DEF CleanInv, CleanCycle
    <3>3. CASE Quiet
      <4>1. Quiet'
        BY <2>1, <3>3 DEF Quiet
      <4> QED
        BY <2>3, <3>1, <3>2, <4>1 DEF CleanInv, Undisturbed
    <3>4. CASE ~Quiet
      <4>1. ~clean'
        BY <2>1, <2>3, <3>4 DEF Quiet
      <4> QED
        BY <1>1, <2>1, <4>1, NoClaim
    <3> QED
      BY <3>3, <3>4
  <2> QED
    BY <2>1, <2>2, <2>3
<1>6. CASE AnswerTimeout
  BY <1>1, <1>6, NoClaim DEF AnswerTimeout
<1>7. CASE Ask \/ ReadAnswer \/ Store \/ UNCHANGED vars
  <2>1. UNCHANGED <<sent, clean>>
    BY <1>7 DEF Ask, ReadAnswer, Store, vars
  <2>2. CleanCycle'
    BY <1>1, <2>1 DEF CleanInv, CleanCycle
  <2>3. SUFFICES ASSUME clean, pc \in CycleSteps PROVE Undisturbed'
    <3>1. CASE ~clean
      <4>1. ~clean'
        BY <2>1, <3>1
      <4> QED
        BY <1>1, <2>1, <4>1, NoClaim
    <3>2. CASE pc \notin CycleSteps
      <4>1. pc' \notin CycleSteps
        BY <1>7, <3>2 DEF Ask, ReadAnswer, Store, vars, CycleSteps
      <4> QED
        BY <1>1, <2>1, <4>1, NoClaim
    <3> QED
      BY <2>2, <2>3, <3>1, <3>2 DEF CleanInv
  <2>4. /\ \A f \in Done : fields[f].what = Commands[f]
        /\ IF pc = "readAnswer" THEN Answering ELSE Quiet
        /\ pc = "store" => /\ response # <<>>
                           /\ Head(response).what = Commands[field]
    BY <1>1, <2>3 DEF CleanInv, Undisturbed
  <2>5. CASE Ask
    <3>1. /\ pc = "ask" /\ pc' = "readAnswer" /\ response' = <<>>
          /\ requests' = Append(requests, Commands[field])
          /\ UNCHANGED <<line, wire, field, fields>>
      BY <2>5 DEF Ask
    <3>2. line' = <<>> /\ wire' = <<>> /\ requests' = <<Commands[field]>>
      BY <2>4, <3>1 DEF Quiet
    <3>3. Answering' /\ Done' = Done
      BY <3>1, <3>2 DEF Answering, Done
    <3> QED
      BY <2>4, <3>1, <3>3 DEF Undisturbed
  <2>6. CASE ReadAnswer
    <3>1. /\ pc = "readAnswer" /\ line # <<>>
          /\ UNCHANGED <<frames, requests, field, fields>>
          /\ pc' \in {"readAnswer", "store"}
      BY <2>6 DEF ReadAnswer, head
    <3>2. Done' = Done
      BY <3>1 DEF Done
    <3>3. requests = <<>> /\ \E n \in 1..frames : Coming(Text(n, Commands[field]))
      BY <2>4, <3>1 DEF Answering
    <3>4. PICK n \in 1..frames : Coming(Text(n, Commands[field]))
      BY <3>3
    <3>5. n \in Nat
      BY <1>1 DEF TypeOK, LineTypeOK
    <3> DEFINE t == Text(n, Commands[field])
    <3>6. t.what = Commands[field]
      BY <1>1, <3>5, AnswerTokens
    <3>7. t' = t
      BY <3>1 DEF Text
    <3>8. \/ pc' = "readAnswer" /\ Coming(t)'
          \/ pc' = "store" /\ line' = <<>> /\ wire' = <<>> /\ response' = <<t>>
      BY <1>1, <2>6, <3>4, <3>5, AnswerRead
    <3> HIDE DEF t
    <3>9. CASE pc' = "readAnswer" /\ Coming(t)'
      <4>1. Answering'
        BY <3>1, <3>3, <3>9 DEF Answering, t
      <4> QED
        BY <2>4, <3>1, <3>2, <3>9, <4>1 DEF Undisturbed
    <3>10. CASE pc' = "store" /\ line' = <<>> /\ wire' = <<>> /\ response' = <<t>>
      <4>1. response' # <<>> /\ Head(response').what = Commands[field]
        BY <3>6, <3>10
      <4>2. Quiet'
        BY <3>1, <3>3, <3>10 DEF Quiet
      <4> QED
        BY <2>4, <3>1, <3>2, <3>10, <4>1, <4>2 DEF Undisturbed
    <3> QED
      BY <3>8, <3>9, <3>10
  <2>7. CASE Store
    <3>1. /\ pc = "store" /\ UNCHANGED <<line, wire, requests>>
          /\ fields' = [fields EXCEPT ![field] =
                         IF response = <<>> THEN NoSource ELSE Head(response)]
          /\ \/ field < Len(Commands) /\ field' = field + 1 /\ pc' = "ask"
             \/ ~(field < Len(Commands)) /\ field' = field /\ pc' = "sendReport"
      BY <2>7 DEF Store, head
    <3>2. Quiet'
      BY <2>4, <3>1 DEF Quiet
    <3>3. fields \in [DOMAIN Commands -> Tokens]
      BY <1>1 DEF TypeOK, SketchTypeOK
    <3>4. Done = 1..field-1 /\ Done' = 1..field
      BY <1>2, <3>1 DEF Done
    <3>5. /\ fields'[field] = Head(response)
          /\ \A f \in Done : fields'[f] = fields[f]
          /\ Done' = Done \cup {field}
      BY <1>2, <2>4, <3>1, <3>3, <3>4
    <3>6. \A f \in Done' : fields'[f].what = Commands[f]
      BY <2>4, <3>1, <3>5
    <3> QED
      BY <3>1, <3>2, <3>6 DEF Undisturbed
  <2>8. CASE UNCHANGED vars
    BY <2>4, <2>8
       DEF Undisturbed, Answering, Coming, Unended, Ended, Quiet, Done, vars,
           head, sketch, Text
  <2> QED
    BY <1>7, <2>5, <2>6, <2>7, <2>8
<1> QED
  BY <1>1, <1>3, <1>4, <1>5, <1>6, <1>7 DEF Loop

\* A cycle that meets nothing else puts every answer in its place, for any
\* commands and any buffer that holds an acknowledgement and an answer.
THEOREM CleanCyclesAreRight == Spec => []CleanCycle
<1>1. TypeOK /\ CleanInv /\ [Next]_vars => CleanInv'
  BY LineClean, LoopClean DEF Next
<1>2. Spec => [](TypeOK /\ CleanInv)
  BY <1>1, InitTypeOK, InitClean, TypeStep, PTL DEF Spec
<1>3. CleanInv => CleanCycle
  BY DEF CleanInv
<1> QED
  BY <1>2, <1>3, PTL

-----------------------------------------------------------------------------
(* The flag follows the head.                                              *)

\* What the words of the model tell apart.
LEMMA WordFacts ==
  /\ Etx.what \notin Codes /\ Ack.what \notin Codes /\ Etx # Ack
  /\ AlarmCodes \subseteq Codes /\ Alarms \subseteq AlarmCodes
  /\ End \in AlarmCodes /\ End \notin Alarms
  /\ Notices \cap AlarmCodes = {} /\ Notices \subseteq Codes
  /\ "none" \notin Alarms
  /\ Asked \cap Codes = {}
BY CodesAssumption, WordsAssumption
   DEF Etx, Ack, Codes, AlarmCodes, Marks

\* What is left of a stream whose first token is taken.
LEMMA TailStream ==
  ASSUME NEW s \in Seq(Tokens), s # <<>>, WellFormed(s)
  PROVE  /\ WellFormed(Tail(s))
         /\ s[1] # Etx => /\ Tail(s) # <<>> /\ Tail(s)[1].what \notin Codes
                          /\ s[1].what \in Codes => Tail(s)[1] = Etx
         /\ \A i \in DOMAIN Tail(s) : LastAlarm(Tail(s), i) =>
              /\ i + 1 \in DOMAIN s /\ LastAlarm(s, i + 1)
              /\ Tail(s)[i] = s[i + 1]
         /\ NoAlarm(Tail(s)) => IF s[1].what \in AlarmCodes
                                THEN 1 \in DOMAIN s /\ LastAlarm(s, 1)
                                ELSE NoAlarm(s)
<1> DEFINE t == Tail(s)
           n == Len(s)
<1>1. /\ n \in Nat /\ n > 0 /\ DOMAIN s = 1..n /\ DOMAIN t = 1..n-1
      /\ Len(t) = n - 1 /\ t \in Seq(Tokens)
      /\ \A i \in 1..n-1 : t[i] = s[i + 1]
      /\ n > 1 => t # <<>>
  <2>1. n \in Nat /\ n > 0 /\ DOMAIN s = 1..n
    OBVIOUS
  <2>2. /\ t \in Seq(Tokens) /\ Len(t) = n - 1
        /\ \A i \in 1..Len(t) : t[i] = s[i + 1]
    BY HeadTailProperties
  <2> HIDE DEF t, n
  <2>3. DOMAIN t = 1..Len(t)
    BY <2>2
  <2>4. t = <<>> => Len(t) = 0
    OBVIOUS
  <2> QED
    BY <2>1, <2>2, <2>3, <2>4
<1> HIDE DEF t, n
<1>2. s[n] = Etx
  BY <1>1 DEF WellFormed, n
<1>3. ASSUME NEW i \in 1..n-1, t[i].what \in Codes
      PROVE  i + 1 \in 1..n-1 /\ t[i + 1] = Etx /\ (i > 1 => t[i - 1] = Etx)
  <2>1. PICK k \in 1..n : k = i + 1 /\ k - 1 = i
    BY <1>1
  <2>2. s[k].what \in Codes
    BY <1>1, <1>3, <2>1
  <2>3. k + 1 \in 1..n /\ s[k + 1] = Etx /\ (k > 1 => s[k - 1] = Etx)
    BY <1>1, <2>2 DEF WellFormed
  <2>4. i + 1 \in 1..n-1 /\ t[i + 1] = Etx
    BY <1>1, <2>1, <2>3
  <2>5. i > 1 => i - 1 \in 1..n-1 /\ t[i - 1] = s[i]
    BY <1>1
  <2> QED
    BY <1>1, <2>1, <2>3, <2>4, <2>5
<1>4. WellFormed(t)
  <2>1. t # <<>> => t[Len(t)] = Etx
    BY <1>1, <1>2
  <2> QED
    BY <1>1, <1>3, <2>1 DEF WellFormed
<1>5. ASSUME s[1] # Etx
      PROVE  /\ t # <<>> /\ t[1].what \notin Codes
             /\ s[1].what \in Codes => t[1] = Etx
  <2>1. n > 1 /\ 2 \in 1..n /\ t[1] = s[2] /\ t # <<>>
    BY <1>1, <1>2, <1>5
  <2>2. s[2].what \in Codes => s[1] = Etx
    BY <1>1, <2>1 DEF WellFormed
  <2>3. s[1].what \in Codes => s[2] = Etx
    BY <1>1 DEF WellFormed
  <2> QED
    BY <1>5, <2>1, <2>2, <2>3
<1>6. ASSUME NEW i \in DOMAIN t, LastAlarm(t, i)
      PROVE  i + 1 \in DOMAIN s /\ LastAlarm(s, i + 1) /\ t[i] = s[i + 1]
  <2>1. i + 1 \in 1..n /\ t[i] = s[i + 1] /\ s[i + 1].what \in AlarmCodes
    BY <1>1, <1>6 DEF LastAlarm
  <2>2. ASSUME NEW j \in 1..n, s[j].what \in AlarmCodes PROVE j <= i + 1
    <3>1. CASE j > 1
      <4>1. PICK k \in 1..n-1 : j = k + 1
        <5>1. j - 1 \in 1..n-1 /\ j = (j - 1) + 1
          BY <1>1, <3>1
        <5> QED
          BY <5>1
      <4>2. t[k].what \in AlarmCodes /\ k \in DOMAIN t
        BY <1>1, <2>2, <4>1
      <4>3. k <= i
        BY <1>6, <4>2 DEF LastAlarm
      <4> QED
        BY <1>1, <4>1, <4>3
    <3> QED
      BY <1>1, <3>1
  <2> QED
    BY <1>1, <2>1, <2>2 DEF LastAlarm
<1>7. ASSUME NoAlarm(t)
      PROVE  IF s[1].what \in AlarmCodes
             THEN 1 \in DOMAIN s /\ LastAlarm(s, 1) ELSE NoAlarm(s)
  <2>1. ASSUME NEW j \in 1..n, j # 1 PROVE s[j].what \notin AlarmCodes
    <3>1. PICK k \in 1..n-1 : j = k + 1
      <4>1. j - 1 \in 1..n-1 /\ j = (j - 1) + 1
        BY <1>1, <2>1
      <4> QED
        BY <4>1
    <3> QED
      BY <1>1, <1>7, <3>1 DEF NoAlarm
  <2> QED
    BY <1>1, <2>1 DEF LastAlarm, NoAlarm
<1> QED
  BY <1>4, <1>5, <1>6, <1>7 DEF t

\* A token more in a stream.
LEMMA LongerStream ==
  ASSUME NEW s \in Seq(Tokens), NEW x \in Tokens
  PROVE  LET t == Append(s, x) IN
         /\ t \in Seq(Tokens) /\ t # <<>>
         /\ s # <<>> => t[1] = s[1]
         /\ x.what \in AlarmCodes =>
              /\ ~NoAlarm(t)
              /\ \A i \in DOMAIN t : LastAlarm(t, i) => t[i] = x
         /\ x.what \notin AlarmCodes =>
              /\ NoAlarm(t) => NoAlarm(s)
              /\ \A i \in DOMAIN t : LastAlarm(t, i) =>
                   i \in DOMAIN s /\ LastAlarm(s, i) /\ t[i] = s[i]
<1> DEFINE t == Append(s, x)
           n == Len(s)
<1>1. /\ n \in Nat /\ DOMAIN s = 1..n /\ DOMAIN t = 1..n+1
      /\ t \in Seq(Tokens) /\ t # <<>>
      /\ t[n + 1] = x /\ \A i \in 1..n : t[i] = s[i]
      /\ s # <<>> => t[1] = s[1]
  OBVIOUS
<1> HIDE DEF t, n
<1>2. n + 1 \in DOMAIN t /\ \A i \in DOMAIN t : i \in 1..n \/ i = n + 1
  BY <1>1
<1>3. ASSUME x.what \in AlarmCodes
      PROVE  /\ ~NoAlarm(t)
             /\ \A i \in DOMAIN t : LastAlarm(t, i) => t[i] = x
  BY <1>1, <1>2, <1>3 DEF NoAlarm, LastAlarm
<1>4. ASSUME x.what \notin AlarmCodes
      PROVE  /\ NoAlarm(t) => NoAlarm(s)
             /\ \A i \in DOMAIN t : LastAlarm(t, i) =>
                  i \in DOMAIN s /\ LastAlarm(s, i) /\ t[i] = s[i]
  BY <1>1, <1>2, <1>4 DEF NoAlarm, LastAlarm
<1> QED
  BY <1>1, <1>3, <1>4 DEF t

\* A frame, or an answer, at the end of a stream.
LEMMA WholeFrame ==
  ASSUME NEW s \in Seq(Tokens), WellFormed(s), NEW x \in Tokens
  PROVE  /\ WellFormed(Append(Append(s, x), Etx))
         /\ x.what \notin Codes
              => WellFormed(Append(Append(Append(s, Ack), x), Etx))
<1> DEFINE n == Len(s)
<1>1. n \in Nat /\ DOMAIN s = 1..n
  OBVIOUS
<1>2. Etx \in Tokens /\ Ack \in Tokens
  BY TokenTypes
<1>3. WellFormed(Append(Append(s, x), Etx))
  <2> DEFINE t == Append(Append(s, x), Etx)
  <2>1. /\ Len(t) = n + 2 /\ DOMAIN t = 1..n+2
        /\ t[n + 1] = x /\ t[n + 2] = Etx
        /\ \A i \in 1..n : t[i] = s[i]
    BY <1>2
  <2>2. n > 0 => s[n] = Etx
    BY <1>1 DEF WellFormed
  <2> HIDE DEF t, n
  <2>3. \A i \in 1..n+2 : i \in 1..n \/ i = n + 1 \/ i = n + 2
    BY <1>1
  <2>4. ASSUME NEW i \in 1..n+2, t[i].what \in Codes
        PROVE  i + 1 \in 1..n+2 /\ t[i + 1] = Etx /\ (i > 1 => t[i - 1] = Etx)
    <3>1. CASE i \in 1..n
      <4>1. /\ i + 1 \in 1..n /\ s[i + 1] = Etx
            /\ i > 1 => s[i - 1] = Etx
        BY <1>1, <2>1, <2>4, <3>1 DEF WellFormed
      <4> QED
        BY <1>1, <2>1, <3>1, <4>1
    <3>2. CASE i = n + 1
      BY <1>1, <2>1, <2>2, <3>2
    <3> QED
      BY <2>1, <2>3, <2>4, <3>1, <3>2, WordFacts
  <2> QED
    BY <1>1, <2>1, <2>4 DEF WellFormed, t
<1>4. ASSUME x.what \notin Codes
      PROVE  WellFormed(Append(Append(Append(s, Ack), x), Etx))
  <2> DEFINE t == Append(Append(Append(s, Ack), x), Etx)
  <2>1. /\ Len(t) = n + 3 /\ DOMAIN t = 1..n+3
        /\ t[n + 1] = Ack /\ t[n + 2] = x /\ t[n + 3] = Etx
        /\ \A i \in 1..n : t[i] = s[i]
    BY <1>2
  <2> HIDE DEF t, n
  <2>2. \A i \in 1..n+3 : i \in 1..n \/ i = n + 1 \/ i = n + 2 \/ i = n + 3
    BY <1>1
  <2>3. ASSUME NEW i \in 1..n+3, t[i].what \in Codes
        PROVE  i + 1 \in 1..n+3 /\ t[i + 1] = Etx /\ (i > 1 => t[i - 1] = Etx)
    <3>1. i \in 1..n
      BY <1>4, <2>1, <2>2, <2>3, WordFacts
    <3>2. /\ i + 1 \in 1..n /\ s[i + 1] = Etx
          /\ i > 1 => s[i - 1] = Etx
      BY <1>1, <2>1, <2>3, <3>1 DEF WellFormed
    <3> QED
      BY <1>1, <2>1, <3>1, <3>2
  <2> QED
    BY <1>1, <2>1, <2>3 DEF WellFormed, t
<1> QED
  BY <1>3, <1>4

\* The stream of tokens on the line: what the steps do to it.
LEMMA FlowMoves ==
  ASSUME TypeOK
  PROVE  /\ Flow \in Seq(Tokens)
         /\ UNCHANGED <<line, wire>> => Flow' = Flow
         /\ line # <<>> /\ line' = Tail(line) /\ UNCHANGED wire
              => Flow # <<>> /\ Flow[1] = Head(line) /\ Flow' = Tail(Flow)
         /\ wire # <<>> /\ wire' = Tail(wire) /\ line' = Append(line, Head(wire))
              => Flow' = Flow
         /\ \A x \in Tokens :
              /\ UNCHANGED line /\ wire' = wire \o <<x, Etx>>
                   => Flow' = Append(Append(Flow, x), Etx)
              /\ UNCHANGED line /\ wire' = wire \o <<Ack, x, Etx>>
                   => Flow' = Append(Append(Append(Flow, Ack), x), Etx)
<1>1. line \in Seq(Tokens) /\ wire \in Seq(Tokens)
  BY DEF TypeOK, LineTypeOK
<1>2. Flow \in Seq(Tokens) /\ Len(Flow) = Len(line) + Len(wire)
      /\ \A i \in 1..Len(line)+Len(wire) :
           Flow[i] = IF i <= Len(line) THEN line[i] ELSE wire[i - Len(line)]
  BY <1>1, ConcatProperties DEF Flow
<1>3. UNCHANGED <<line, wire>> => Flow' = Flow
  BY DEF Flow
<1>4. ASSUME line # <<>>, line' = Tail(line), UNCHANGED wire
      PROVE  Flow # <<>> /\ Flow[1] = Head(line) /\ Flow' = Tail(Flow)
  <2>1. Len(line) \in Nat /\ Len(wire) \in Nat /\ Len(line) > 0
    BY <1>1, <1>4
  <2>2. /\ Tail(line) \in Seq(Tokens) /\ Len(Tail(line)) = Len(line) - 1
        /\ \A i \in 1..Len(line)-1 : Tail(line)[i] = line[i + 1]
    BY <1>1, <1>4, HeadTailProperties
  <2>3. Flow # <<>> /\ Flow[1] = Head(line)
    <3>1. 1 \in 1..Len(line)+Len(wire) /\ Len(Flow) > 0 /\ 1 <= Len(line)
      BY <1>2, <2>1
    <3>2. Flow[1] = line[1]
      BY <1>2, <3>1
    <3> QED
      BY <1>1, <1>4, <3>1, <3>2
  <2> DEFINE m == Len(line) - 1 + Len(wire)
             a == Tail(line) \o wire
             b == Tail(Flow)
  <2>4. /\ a \in Seq(Tokens) /\ Len(a) = m
        /\ \A i \in 1..m : a[i] = IF i <= Len(line) - 1 THEN Tail(line)[i]
                                  ELSE wire[i - (Len(line) - 1)]
    BY <1>1, <2>1, <2>2, ConcatProperties
  <2>5. /\ b \in Seq(Tokens) /\ Len(b) = m
        /\ \A i \in 1..m : b[i] = Flow[i + 1]
    <3>1. /\ b \in Seq(Tokens) /\ Len(b) = Len(Flow) - 1
          /\ \A i \in 1..Len(b) : b[i] = Flow[i + 1]
      BY <1>2, <2>3, HeadTailProperties
    <3> QED
      BY <1>2, <2>1, <3>1
  <2> HIDE DEF a, b, m
  <2>6. ASSUME NEW i \in 1..m PROVE a[i] = b[i]
    <3>1. i + 1 \in 1..Len(line)+Len(wire) /\ m \in Nat
      BY <2>1 DEF m
    <3>2. CASE i <= Len(line) - 1
      <4>1. i \in 1..Len(line)-1 /\ i + 1 <= Len(line)
        BY <2>1, <3>1, <3>2
      <4>2. a[i] = line[i + 1]
        BY <2>2, <2>4, <3>2, <4>1
      <4>3. b[i] = line[i + 1]
        BY <1>2, <2>5, <3>1, <4>1
      <4> QED
        BY <4>2, <4>3
    <3>3. CASE ~(i <= Len(line) - 1)
      <4>1. a[i] = wire[i - (Len(line) - 1)]
        BY <2>4, <3>3
      <4>2. b[i] = wire[(i + 1) - Len(line)]
        BY <1>2, <2>1, <2>5, <3>1, <3>3
      <4>3. i - (Len(line) - 1) = (i + 1) - Len(line)
        BY <2>1, <3>1
      <4> QED
        BY <4>1, <4>2, <4>3
    <3> QED
      BY <3>2, <3>3
  <2>7. a = b
    BY <2>4, <2>5, <2>6, SeqEqual
  <2> QED
    BY <1>4, <2>3, <2>7 DEF Flow, a, b
<1>5. ASSUME wire # <<>>, wire' = Tail(wire), line' = Append(line, Head(wire))
      PROVE  Flow' = Flow
  <2>1. /\ Head(wire) \in Tokens /\ Tail(wire) \in Seq(Tokens)
        /\ wire = <<Head(wire)>> \o Tail(wire)
    <3>1. Head(wire) \in Tokens /\ Tail(wire) \in Seq(Tokens)
      BY <1>1, <1>5
    <3>2. /\ wire = SubSeq(wire, 1, Len(wire)) /\ Len(wire) \in Nat
          /\ Len(wire) > 0
      BY <1>1, <1>5, SubSeqFull
    <3>3. SubSeq(wire, 1, Len(wire)) = <<wire[1]>> \o SubSeq(wire, 1 + 1, Len(wire))
      BY <1>1, <3>2, SubSeqRecursiveFirst
    <3>4. Tail(wire) = SubSeq(wire, 2, Len(wire))
      BY <1>1, <1>5, TailIsSubSeq
    <3> QED
      BY <3>1, <3>2, <3>3, <3>4
  <2>2. <<Head(wire)>> \in Seq(Tokens)
    BY <2>1
  <2>3. (line \o <<Head(wire)>>) \o Tail(wire) = line \o (<<Head(wire)>> \o Tail(wire))
    BY <1>1, <2>1, <2>2, ConcatAssociative
  <2>4. Append(line, Head(wire)) = line \o <<Head(wire)>>
    BY <1>1, <2>1
  <2> QED
    BY <1>5, <2>1, <2>3, <2>4 DEF Flow
<1>6. ASSUME NEW w \in Seq(Tokens), NEW y \in Tokens
      PROVE  line \o Append(w, y) = Append(line \o w, y)
  <2>1. /\ Append(w, y) = w \o <<y>> /\ <<y>> \in Seq(Tokens)
        /\ line \o w \in Seq(Tokens)
    BY <1>1
  <2>2. line \o (w \o <<y>>) = (line \o w) \o <<y>>
    BY <1>1, <2>1, ConcatAssociative
  <2>3. Append(line \o w, y) = (line \o w) \o <<y>>
    BY <2>1
  <2> QED
    BY <2>1, <2>2, <2>3
<1>7. Etx \in Tokens /\ Ack \in Tokens
  BY TokenTypes
<1>8. ASSUME NEW x \in Tokens, UNCHANGED line, wire' = wire \o <<x, Etx>>
      PROVE  Flow' = Append(Append(Flow, x), Etx)
  <2>1. /\ wire' = Append(Append(wire, x), Etx)
        /\ Append(wire, x) \in Seq(Tokens)
    BY <1>1, <1>7, <1>8
  <2> QED
    BY <1>1, <1>6, <1>7, <1>8, <2>1 DEF Flow
<1>9. ASSUME NEW x \in Tokens, UNCHANGED line, wire' = wire \o <<Ack, x, Etx>>
      PROVE  Flow' = Append(Append(Append(Flow, Ack), x), Etx)
  <2>1. /\ wire' = Append(Append(Append(wire, Ack), x), Etx)
        /\ Append(wire, Ack) \in Seq(Tokens)
        /\ Append(Append(wire, Ack), x) \in Seq(Tokens)
    BY <1>1, <1>7, <1>9
  <2> QED
    BY <1>1, <1>6, <1>7, <1>9, <2>1 DEF Flow
<1>10. Flow \in Seq(Tokens)
  BY <1>2
<1>11. \A x \in Tokens :
         /\ UNCHANGED line /\ wire' = wire \o <<x, Etx>>
              => Flow' = Append(Append(Flow, x), Etx)
         /\ UNCHANGED line /\ wire' = wire \o <<Ack, x, Etx>>
              => Flow' = Append(Append(Append(Flow, Ack), x), Etx)
  <2>1. TAKE x \in Tokens
  <2>2. UNCHANGED line /\ wire' = wire \o <<x, Etx>>
          => Flow' = Append(Append(Flow, x), Etx)
    BY <1>8
  <2>3. UNCHANGED line /\ wire' = wire \o <<Ack, x, Etx>>
          => Flow' = Append(Append(Append(Flow, Ack), x), Etx)
    BY <1>9
  <2> QED
    BY <2>2, <2>3
<1> QED
  BY <1>3, <1>4, <1>5, <1>10, <1>11

\* Power on: the head is silent, the flag is down and the line empty.
LEMMA InitFlag == Init => FlagInv
<1>1. SUFFICES ASSUME Init PROVE FlagInv
  OBVIOUS
<1>2. Flow = <<>> /\ pc = "top" /\ alarmActive = FALSE /\ headAlarm = "none"
  BY <1>1 DEF Init, Flow
<1>3. ~Expected
  BY <1>2 DEF Expected
<1> QED
  BY <1>2, <1>3 DEF FlagInv, WellFormed, Agrees, Reading, NoAlarm

\* Steps that leave the stream alone.
LEMMA StreamStays ==
  ASSUME FlagInv, ~lost, Flow' = Flow, headAlarm' = headAlarm,
         Expected' <=> Expected, Reading'
  PROVE  FlagInv'
BY DEF FlagInv, Agrees, WellFormed, LastAlarm, NoAlarm

\* What comes in behind does not touch what is being read.
LEMMA ReadingStays ==
  ASSUME Reading, UNCHANGED <<pc, receivedInfo>>,
         Flow # <<>> => Flow' # <<>> /\ Flow'[1] = Flow[1]
  PROVE  Reading'
BY DEF Reading

\* The head sends a frame of its own.
LEMMA HeadSendsAlarm ==
  ASSUME TypeOK, FlagInv, ~lost, NEW what \in Codes, Send(what),
         IF what \in AlarmCodes THEN what \in Alarms <=> headAlarm' # "none"
         ELSE headAlarm' = headAlarm
  PROVE  FlagInv'
<1> DEFINE x == Text(frames + 1, what)
<1>1. x \in Tokens /\ x.what = what /\ Etx \in Tokens /\ Etx.what \notin AlarmCodes
  BY TokenTypes, WordFacts DEF TypeOK, LineTypeOK, Text, Words
<1>2. Flow' = Append(Append(Flow, x), Etx) /\ UNCHANGED <<pc, sketch>>
  BY <1>1, FlowMoves DEF Send
<1>3. Flow \in Seq(Tokens) /\ WellFormed(Flow)
  BY FlowMoves DEF FlagInv
<1>4. Expected' <=> Expected
  BY <1>2 DEF Expected, sketch
<1> HIDE DEF x
<1> DEFINE u == Append(Flow, x)
           v == Append(u, Etx)
<1>5. WellFormed(v)
  BY <1>1, <1>3, WholeFrame
<1>6. u \in Seq(Tokens)
  BY <1>1, <1>3, LongerStream
<1>7. Flow # <<>> => v # <<>> /\ v[1] = Flow[1]
  <2>1. u # <<>> /\ (Flow # <<>> => u[1] = Flow[1])
    BY <1>1, <1>3, LongerStream
  <2> HIDE DEF u
  <2> QED
    BY <1>1, <1>6, <2>1, LongerStream
<1>8. Reading'
  <2>1. Reading /\ UNCHANGED <<pc, receivedInfo>> /\ Flow' = v
    BY <1>2 DEF FlagInv, sketch
  <2> HIDE DEF v
  <2> QED
    BY <1>7, <2>1, ReadingStays
<1>9. Agrees'
  <2>1. CASE what \in AlarmCodes
    <3>1. ~NoAlarm(u) /\ \A i \in DOMAIN u : LastAlarm(u, i) => u[i] = x
      BY <1>1, <1>3, <2>1, LongerStream
    <3>2. /\ ~NoAlarm(v)
          /\ \A i \in DOMAIN v : LastAlarm(v, i) => v[i] = x
      <4> HIDE DEF u
      <4> QED
        BY <1>1, <1>6, <3>1, LongerStream
    <3> HIDE DEF v
    <3> QED
      BY <1>1, <1>2, <2>1, <3>2 DEF Agrees, v
  <2>2. CASE what \notin AlarmCodes
    <3>1. /\ NoAlarm(u) => NoAlarm(Flow)
          /\ \A i \in DOMAIN u : LastAlarm(u, i) =>
               i \in DOMAIN Flow /\ LastAlarm(Flow, i) /\ u[i] = Flow[i]
      BY <1>1, <1>3, <2>2, LongerStream
    <3>2. /\ NoAlarm(v) => NoAlarm(u)
          /\ \A i \in DOMAIN v : LastAlarm(v, i) =>
               i \in DOMAIN u /\ LastAlarm(u, i) /\ v[i] = u[i]
      <4> HIDE DEF u
      <4> QED
        BY <1>1, <1>6, LongerStream
    <3>3. Flow' = v /\ headAlarm' = headAlarm
      BY <1>2, <2>2
    <3>4. Agrees
      BY DEF FlagInv
    <3> HIDE DEF u, v
    <3> QED
      BY <1>4, <3>1, <3>2, <3>3, <3>4 DEF Agrees
  <2> QED
    BY <2>1, <2>2
<1> QED
  BY <1>2, <1>5, <1>8, <1>9 DEF FlagInv

\* The head answers.
LEMMA HeadAnswers ==
  ASSUME TypeOK, FlagInv, ~lost, Answer
  PROVE  FlagInv'
<1> DEFINE x == Text(frames + 1, Head(requests))
<1>1. /\ x \in Tokens /\ x.what \notin Codes /\ Etx \in Tokens /\ Ack \in Tokens
      /\ x.what \notin AlarmCodes /\ Etx.what \notin AlarmCodes
      /\ Ack.what \notin AlarmCodes
  <2>1. Head(requests) \in Asked
    BY DEF TypeOK, LineTypeOK, Answer
  <2>2. x \in Tokens /\ Etx \in Tokens /\ Ack \in Tokens
    BY <2>1, TokenTypes DEF TypeOK, LineTypeOK
  <2>3. x.what \in Asked
    BY <2>1 DEF Text
  <2> QED
    BY <2>2, <2>3, WordFacts
<1>2. /\ Flow' = Append(Append(Append(Flow, Ack), x), Etx)
      /\ UNCHANGED <<pc, sketch, headAlarm>>
  BY <1>1, FlowMoves DEF Answer
<1>3. Flow \in Seq(Tokens) /\ WellFormed(Flow) /\ Agrees /\ Reading
  BY FlowMoves DEF FlagInv
<1>4. Expected' <=> Expected
  BY <1>2 DEF Expected, sketch
<1> HIDE DEF x
<1> DEFINE u == Append(Flow, Ack)
           v == Append(u, x)
           w == Append(v, Etx)
<1>5. WellFormed(w)
  BY <1>1, <1>3, WholeFrame
<1>6. /\ u \in Seq(Tokens) /\ u # <<>> /\ (Flow # <<>> => u[1] = Flow[1])
      /\ NoAlarm(u) => NoAlarm(Flow)
      /\ \A i \in DOMAIN u : LastAlarm(u, i) =>
           i \in DOMAIN Flow /\ LastAlarm(Flow, i) /\ u[i] = Flow[i]
  BY <1>1, <1>3, LongerStream
<1>7. /\ v \in Seq(Tokens) /\ v # <<>> /\ v[1] = u[1]
      /\ NoAlarm(v) => NoAlarm(u)
      /\ \A i \in DOMAIN v : LastAlarm(v, i) =>
           i \in DOMAIN u /\ LastAlarm(u, i) /\ v[i] = u[i]
  <2> HIDE DEF u
  <2> QED
    BY <1>1, <1>6, LongerStream
<1>8. /\ w # <<>> /\ w[1] = v[1]
      /\ NoAlarm(w) => NoAlarm(v)
      /\ \A i \in DOMAIN w : LastAlarm(w, i) =>
           i \in DOMAIN v /\ LastAlarm(v, i) /\ w[i] = v[i]
  <2> HIDE DEF v
  <2> QED
    BY <1>1, <1>7, LongerStream
<1>9. Flow' = w
  BY <1>2
<1> HIDE DEF u, v, w
<1>10. Agrees'
  BY <1>2, <1>3, <1>4, <1>6, <1>7, <1>8, <1>9 DEF Agrees
<1>11. Reading'
  <2>1. UNCHANGED <<pc, receivedInfo>>
    BY <1>2 DEF sketch
  <2> QED
    BY <1>3, <1>6, <1>7, <1>8, <1>9, <2>1, ReadingStays
<1> QED
  BY <1>5, <1>9, <1>10, <1>11 DEF FlagInv

\* loop() or GetData takes a token, which is no alarm unless loop() takes it as
\* the first of a frame.
LEMMA StreamTaken ==
  ASSUME TypeOK, FlagInv, ~lost, headAlarm' = headAlarm,
         line # <<>>, line' = Tail(line), UNCHANGED wire,
         IF Flow[1].what \in AlarmCodes
         THEN Expected' <=> Flow[1].what \in Alarms
         ELSE Expected' <=> Expected,
         Reading'
  PROVE  FlagInv'
<1>1. /\ Flow \in Seq(Tokens) /\ Flow # <<>> /\ Flow' = Tail(Flow)
      /\ WellFormed(Flow) /\ Agrees
  BY FlowMoves DEF FlagInv
<1> DEFINE t == Tail(Flow)
<1>2. /\ WellFormed(t)
      /\ \A i \in DOMAIN t : LastAlarm(t, i) =>
           i + 1 \in DOMAIN Flow /\ LastAlarm(Flow, i + 1) /\ t[i] = Flow[i + 1]
      /\ NoAlarm(t) => IF Flow[1].what \in AlarmCodes
                       THEN 1 \in DOMAIN Flow /\ LastAlarm(Flow, 1)
                       ELSE NoAlarm(Flow)
  BY <1>1, TailStream
<1>3. Flow' = t
  BY <1>1
<1> HIDE DEF t
<1>4. Agrees'
  BY <1>1, <1>2, <1>3 DEF Agrees
<1> QED
  BY <1>2, <1>3, <1>4 DEF FlagInv

\* readInfoFrame takes the line's next token: the flag still follows the head.
LEMMA ReadInfoFlag ==
  ASSUME TypeOK, FlagInv, ~lost, ReadInfo
  PROVE  FlagInv'
<1> DEFINE x == Head(line)
<1>1. /\ pc = "readInfo" /\ line # <<>> /\ line' = Tail(line)
      /\ UNCHANGED <<wire, headAlarm, alarmActive>>
      /\ \/ x = Etx /\ pc' = "parse" /\ receivedInfo' = receivedInfo
         \/ x # Etx /\ pc' = pc /\ receivedInfo' = Append(receivedInfo, x)
  BY DEF ReadInfo, head
<1>2. /\ Flow \in Seq(Tokens) /\ Flow # <<>> /\ Flow' = Tail(Flow)
      /\ Flow[1] = x /\ WellFormed(Flow) /\ Reading
  BY <1>1, FlowMoves DEF FlagInv
<1>3. receivedInfo \in Seq(Tokens) /\ x \in Tokens
  BY <1>1 DEF TypeOK, LineTypeOK, SketchTypeOK
<1> HIDE DEF x
<1>4. CASE x = Etx
  <2>1. pc' = "parse" /\ receivedInfo' = receivedInfo
    BY <1>1, <1>4
  <2>2. Expected' <=> Expected
    BY <1>1, <2>1 DEF Expected
  <2>3. Reading'
    BY <1>1, <1>2, <2>1 DEF Reading
  <2>4. Flow[1].what \notin AlarmCodes
    BY <1>2, <1>4, WordFacts
  <2> QED
    BY <1>1, <2>2, <2>3, <2>4, StreamTaken
<1>5. CASE x # Etx
  <2>1. pc' = "readInfo" /\ receivedInfo' = Append(receivedInfo, x)
    BY <1>1, <1>5
  <2>2. /\ Flow' # <<>> /\ Flow'[1].what \notin Codes
        /\ x.what \in Codes => Flow'[1] = Etx
    BY <1>2, <1>5, TailStream
  <2>3. CASE receivedInfo = <<>>
    <3>1. receivedInfo' = <<x>>
      BY <1>3, <2>1, <2>3
    <3>2. Reading'
      BY <2>1, <2>2, <3>1 DEF Reading
    <3>3. IF x.what \in AlarmCodes THEN Expected' <=> x.what \in Alarms
          ELSE Expected' <=> Expected
      BY <1>1, <2>1, <2>3, <3>1 DEF Expected
    <3> QED
      BY <1>1, <1>2, <3>2, <3>3, StreamTaken
  <2>4. CASE receivedInfo # <<>>
    <3>1. /\ x.what \notin Codes /\ Len(receivedInfo) \in Nat \ {0}
          /\ receivedInfo[1].what \notin Codes
      BY <1>1, <1>2, <1>3, <1>5, <2>4 DEF Reading
    <3>2. \A i \in DOMAIN receivedInfo : receivedInfo[i].what \notin Codes
      BY <1>1, <1>2, <1>3, <3>1 DEF Reading
    <3>3. /\ receivedInfo' # <<>> /\ receivedInfo'[1] = receivedInfo[1]
          /\ \A i \in DOMAIN receivedInfo' : receivedInfo'[i].what \notin Codes
      <4>1. \A i \in DOMAIN receivedInfo' :
              \/ i \in DOMAIN receivedInfo /\ receivedInfo'[i] = receivedInfo[i]
              \/ receivedInfo'[i] = x
        BY <1>3, <2>1
      <4>2. receivedInfo' # <<>> /\ receivedInfo'[1] = receivedInfo[1]
        BY <1>3, <2>1, <3>1
      <4> QED
        BY <3>1, <3>2, <4>1, <4>2
    <3>4. receivedInfo'[1].what \notin Codes
      BY <3>1, <3>3
    <3>5. Reading'
      BY <2>1, <2>2, <3>3, <3>4 DEF Reading
    <3>6. Expected' <=> Expected
      BY <1>1, <3>1, <3>4, WordFacts DEF Expected
    <3>7. Flow[1].what \notin AlarmCodes
      BY <1>2, <3>1, WordFacts
    <3> QED
      BY <1>1, <3>5, <3>6, <3>7, StreamTaken
  <2> QED
    BY <2>3, <2>4
<1> QED
  BY <1>4, <1>5

\* The answer reader takes a token: the flag still follows the head.
LEMMA ReadAnswerFlag ==
  ASSUME TypeOK, FlagInv, ~lost, ReadAnswer, ~lost'
  PROVE  FlagInv'
<1>1. /\ pc = "readAnswer" /\ line # <<>> /\ line' = Tail(line)
      /\ UNCHANGED <<wire, headAlarm, alarmActive, receivedInfo>>
      /\ pc' \in {"readAnswer", "store"}
      /\ Head(line).what \notin Codes
  BY DEF ReadAnswer, head
<1>2. Flow[1].what \notin AlarmCodes
  BY <1>1, FlowMoves, WordFacts
<1>3. (Expected' <=> Expected) /\ Reading'
  BY <1>1 DEF Expected, Reading
<1> QED
  BY <1>1, <1>2, <1>3, StreamTaken

\* ParseReceivedInfo does to the flag what the frame tells.
LEMMA ParseFlag ==
  ASSUME TypeOK, FlagInv, ~lost, Parse
  PROVE  FlagInv'
<1>1. /\ pc = "parse" /\ UNCHANGED <<head, line>>
      /\ pc' \in {"sendState", "cycleTest"}
  BY DEF Parse, Report
<1>2. Flow' = Flow /\ headAlarm' = headAlarm /\ Reading'
  BY <1>1, FlowMoves DEF head, Reading
<1>3. receivedInfo \in Seq(Tokens)
  BY DEF TypeOK, SketchTypeOK
<1>4. \A what : Is(what) => receivedInfo # <<>> /\ receivedInfo[1].what = what
  <2>1. receivedInfo = <<>> => Len(receivedInfo) = 0
    OBVIOUS
  <2> QED
    BY <2>1 DEF Is
<1>5. CASE ~alarmActive /\ (\E a \in Alarms : Is(a)) /\ Report(TRUE)
  <2>1. receivedInfo # <<>> /\ receivedInfo[1].what \in Alarms
    BY <1>4, <1>5
  <2>2. Expected /\ Expected'
    BY <1>1, <1>5, <2>1, WordFacts DEF Expected, Report
  <2> QED
    BY <1>2, <2>2, StreamStays
<1>6. CASE alarmActive /\ Is(End) /\ Report(FALSE)
  <2>1. receivedInfo # <<>> /\ receivedInfo[1].what = End
    BY <1>4, <1>6
  <2>2. ~Expected /\ ~Expected'
    BY <1>1, <1>6, <2>1, WordFacts DEF Expected, Report
  <2> QED
    BY <1>2, <2>2, StreamStays
<1>7. CASE (\E n \in Notices : Is(n)) /\ Report(alarmActive)
  <2>1. receivedInfo # <<>> /\ receivedInfo[1].what \notin AlarmCodes
    BY <1>4, <1>7, WordFacts
  <2>2. alarmActive' = alarmActive /\ pc' = "sendState"
    BY <1>7 DEF Report
  <2>3. Expected' <=> Expected
    BY <1>1, <2>1, <2>2 DEF Expected
  <2> QED
    BY <1>2, <2>3, StreamStays
<1>8. CASE ~Recognised /\ pc' = "cycleTest" /\ UNCHANGED alarmActive
  <2>1. ASSUME receivedInfo # <<>>, receivedInfo[1].what \in AlarmCodes
        PROVE  receivedInfo[1].what \in Alarms <=> alarmActive
    <3>1. Len(receivedInfo) = 1
      <4>1. 1 \in DOMAIN receivedInfo
        BY <1>3, <2>1
      <4> QED
        BY <1>1, <2>1, <4>1, WordFacts DEF FlagInv, Reading
    <3>2. Is(receivedInfo[1].what)
      BY <3>1 DEF Is
    <3>3. CASE receivedInfo[1].what \in Alarms
      BY <1>8, <3>2, <3>3 DEF Recognised
    <3>4. CASE receivedInfo[1].what = End
      BY <1>8, <3>2, <3>4, WordFacts DEF Recognised
    <3> QED
      BY <2>1, <3>3, <3>4 DEF AlarmCodes
  <2>2. Expected' <=> Expected
    BY <1>1, <1>8, <2>1 DEF Expected
  <2> QED
    BY <1>2, <2>2, StreamStays
<1>9. ~Recognised /\ UNCHANGED <<alarmActive, outgoing>> /\ pc' = "cycleTest"
        => FlagInv'
  BY <1>8
<1> QED
  BY <1>5, <1>6, <1>7, <1>9, Zenon DEF Parse

\* What is lost stays lost.
LEMMA LostStays == TypeOK /\ [Next]_vars /\ ~lost' => ~lost
<1>1. ASSUME TypeOK, Arrive, lost PROVE lost'
  BY <1>1 DEF Arrive
<1>2. ASSUME ReadAnswer, lost PROVE lost'
  BY <1>2 DEF ReadAnswer
<1>3. ASSUME InfoTimeout \/ AnswerTimeout PROVE lost'
  BY <1>3 DEF InfoTimeout, AnswerTimeout
<1>4. ASSUME \/ HeadUnit \/ Top \/ ReadInfo \/ Parse \/ SendState
             \/ \E due \in BOOLEAN : CycleTest(due)
             \/ Ask \/ Store \/ SendReport \/ Park \/ UNCHANGED vars
      PROVE  lost' = lost
  BY <1>4 DEF HeadUnit, Raise, Clear, Notify, Send, Answer, Miss, Top, ReadInfo,
              Parse, SendState, CycleTest, Ask, Store, SendReport, Park, vars
<1> QED
  BY <1>1, <1>2, <1>3, <1>4 DEF Next, Loop

\* Every step of the board, the head and the line keeps the flag honest.
LEMMA FlagStep == TypeOK /\ OrderInv /\ FlagInv /\ [Next]_vars => FlagInv'
<1>1. SUFFICES ASSUME TypeOK, OrderInv, FlagInv, [Next]_vars, ~lost'
               PROVE  FlagInv'
  BY DEF FlagInv
<1>2. ~lost
  BY <1>1, LostStays
<1>3. CASE \E a \in Alarms : Raise(a)
  <2>1. PICK a \in Alarms : Raise(a)
    BY <1>3
  <2>2. a \in Codes /\ a \in AlarmCodes /\ headAlarm' = a /\ a # "none"
    BY <2>1, WordFacts DEF Raise
  <2> QED
    BY <1>1, <1>2, <2>1, <2>2, HeadSendsAlarm DEF Raise
<1>4. CASE Clear
  <2>1. End \in Codes /\ headAlarm' = "none" /\ Send(End)
    BY <1>4 DEF Clear, Codes
  <2> QED
    BY <1>1, <1>2, <2>1, WordFacts, HeadSendsAlarm
<1>5. CASE \E n \in Notices : Notify(n)
  <2>1. PICK n \in Notices : Notify(n)
    BY <1>5
  <2>2. n \in Codes /\ n \notin AlarmCodes
    BY WordFacts
  <2> QED
    BY <1>1, <1>2, <2>1, <2>2, HeadSendsAlarm DEF Notify
<1>6. CASE Arrive
  <2>1. /\ UNCHANGED <<headAlarm, pc, sketch>>
        /\ wire # <<>> /\ wire' = Tail(wire)
        /\ line' = Append(line, Head(wire))
    BY <1>1, <1>6 DEF Arrive
  <2>2. Flow' = Flow
    BY <1>1, <2>1, FlowMoves
  <2>3. (Expected' <=> Expected) /\ Reading'
    BY <1>1, <1>2, <2>1, <2>2 DEF Expected, FlagInv, Reading, sketch
  <2> QED
    BY <1>1, <1>2, <2>1, <2>2, <2>3, StreamStays
<1>7. CASE Miss \/ UNCHANGED vars
  <2>1. UNCHANGED <<headAlarm, pc, sketch, line, wire>>
    BY <1>7 DEF Miss, vars, head
  <2>2. Flow' = Flow
    BY <1>1, <2>1, FlowMoves
  <2>3. (Expected' <=> Expected) /\ Reading'
    BY <1>1, <1>2, <2>1, <2>2 DEF Expected, FlagInv, Reading, sketch
  <2> QED
    BY <1>1, <1>2, <2>1, <2>2, <2>3, StreamStays
<1>8. CASE Top \/ SendState
  <2>1. /\ UNCHANGED <<head, line, alarmActive>>
        /\ pc \notin {"readInfo", "parse"} /\ receivedInfo' = <<>>
    BY <1>1, <1>8 DEF Top, SendState, sketch, OrderInv
  <2>2. Flow' = Flow
    BY <1>1, <2>1, FlowMoves DEF head
  <2>3. (Expected' <=> Expected) /\ Reading'
    BY <2>1 DEF Expected, Reading
  <2> QED
    BY <1>1, <1>2, <2>1, <2>2, <2>3, StreamStays DEF head
<1>9. CASE \/ \E due \in BOOLEAN : CycleTest(due)
           \/ Ask \/ Store \/ SendReport \/ Park
  <2>1. /\ UNCHANGED <<headAlarm, wire, line, alarmActive>>
        /\ pc \notin {"readInfo", "parse"} /\ pc' \notin {"readInfo", "parse"}
    BY <1>9 DEF CycleTest, Ask, Store, SendReport, Park, head, sketch
  <2>2. Flow' = Flow
    BY <1>1, <2>1, FlowMoves
  <2>3. (Expected' <=> Expected) /\ Reading'
    BY <2>1 DEF Expected, Reading
  <2> QED
    BY <1>1, <1>2, <2>1, <2>2, <2>3, StreamStays
<1>10. CASE InfoTimeout \/ AnswerTimeout
  BY <1>1, <1>10 DEF InfoTimeout, AnswerTimeout
<1>11. CASE Answer \/ ReadInfo \/ Parse \/ ReadAnswer
  BY <1>1, <1>2, <1>11, HeadAnswers, ReadInfoFlag, ParseFlag, ReadAnswerFlag
<1> QED
  BY <1>1, <1>3, <1>4, <1>5, <1>6, <1>7, <1>8, <1>9, <1>10, <1>11
     DEF Next, Loop, HeadUnit

\* With nothing under way the sketch knows about the head's alarm, unless a
\* frame was dropped, cut or swallowed: for any number of frames, any mixture
\* of them with answers, and any size of the buffer.
THEOREM FlagIsTrue == Spec => []FlagFollowsHead
<1>1. Spec => [](TypeOK /\ OrderInv /\ FlagInv)
  BY InitTypeOK, InitOrder, InitFlag, TypeStep, OrderStep, FlagStep, PTL
     DEF Spec
<1>2. FlagInv => FlagFollowsHead
  <2>1. SUFFICES ASSUME FlagInv, pc = "top", wire = <<>>, line = <<>>, ~lost
                 PROVE  alarmActive <=> headAlarm # "none"
    BY DEF FlagFollowsHead
  <2>2. Flow = <<>> /\ (Expected <=> alarmActive)
    BY <2>1 DEF Flow, Expected
  <2> QED
    BY <2>1, <2>2 DEF FlagInv, Agrees, NoAlarm
<1> QED
  BY <1>1, <1>2, PTL
=============================================================================
