------------------------------- MODULE Detector -------------------------------
(***************************************************************************)
(* The sketch of a detector board (SmokeDetector/SmokeDetector.ino): it    *)
(* sits between the serial line of the smoke detector's head unit and the  *)
(* radio.  Frames the head sends on its own (an alarm, the end of it, a    *)
(* notice) are turned into state messages; every SEND_CYCLE the sketch     *)
(* asks the head for its four measured values and sends them as one data   *)
(* message.  Frames and answers share the line, and nothing in a frame     *)
(* says which of the two a reader is waiting for.                          *)
(*                                                                         *)
(* A frame is two tokens, its text and ETX: a timeout may strike between   *)
(* them, and the UART drops what does not fit its buffer.  The head unit   *)
(* and the UART are external.                                              *)
(***************************************************************************)
EXTENDS Naturals, Sequences, FiniteSets

CONSTANTS
  Alarms,     \* frames reported only while no alarm is active (modes 7 5 6 4 8)
  Notices,    \* frames always reported (modes 3 2 1)
  End,        \* the frame that ends an alarm (mode 0)
  Commands,   \* values asked for per cycle: <<"0969", "0B72", "0C73", "0D74">>
  LineCap,    \* tokens the receive buffer of the UART holds
  MaxEvents,  \* bound: frames the head sends on its own
  MaxCycles   \* bound: data cycles the timer starts after the first

ASSUME CodesAssumption == /\ Alarms \cap Notices = {}
                          /\ End \notin Alarms \cup Notices
                          /\ Commands \in Seq(STRING) /\ Commands # <<>>

\* The frames the sketch knows, and what the head is asked for.
Codes == Alarms \cup Notices \cup {End}
Asked == {Commands[f] : f \in DOMAIN Commands}
\* What a token says that is neither.
Marks == {"etx", "ack", "none", "TIMEOUT"}

\* A frame has twelve digits and a command four.
ASSUME WordsAssumption == /\ Codes \cap Asked = {}
                          /\ (Codes \cup Asked) \cap Marks = {}
\* The UART's buffer holds 64 characters: an acknowledgement and an answer of
\* at most fourteen at the least.
ASSUME SizeAssumption  == /\ LineCap \in Nat \ {0, 1}
                          /\ MaxEvents \in Nat /\ MaxCycles \in Nat

VARIABLES
  \* head unit and serial line
  headAlarm,    \* the alarm the head is in, or "none"
  frames,       \* frames and answers sent so far; numbers them
  events,       \* frames it sent on its own
  wire,         \* tokens on their way to the UART
  line,         \* tokens in the receive buffer
  requests,     \* commands the head has not answered yet
  \* the sketch
  pc,           \* next step of loop()
  receivedInfo, \* tokens collected by loop()
  response,     \* tokens collected by GetData
  field,        \* the value being asked for
  fields,       \* where the bytes of each value of the packet come from
  alarmActive,
  sendData,     \* a data message is due
  outgoing,     \* the state message under way
  cycles,       \* cycles the timer has started
  \* history, read by properties only
  clean,        \* this data cycle was undisturbed so far
  lost,         \* a frame of the head has been dropped, cut or swallowed
  sent          \* messages handed to the radio, whatever became of them

head   == <<headAlarm, frames, events, wire, requests>>
sketch == <<receivedInfo, response, field, fields, alarmActive, sendData,
            outgoing, cycles>>
vars   == <<head, line, pc, sketch, clean, lost, sent>>

Etx     == [n |-> 0, what |-> "etx"]
Ack     == [n |-> 0, what |-> "ack"]
Text(n, what) == [n |-> n, what |-> what]
Timeout == <<Text(0, "TIMEOUT")>>
NoSource == Text(0, "none")

-----------------------------------------------------------------------------
(* The head unit and the line.                                             *)

\* A frame the head sends on its own.
Send(what) ==
  /\ events < MaxEvents
  /\ events' = events + 1
  /\ frames' = frames + 1
  /\ wire' = wire \o <<Text(frames + 1, what), Etx>>
  /\ clean' = FALSE
  /\ UNCHANGED <<line, requests, pc, sketch, lost, sent>>

\* An alarm may follow another one, of another kind, directly.
Raise(a) == headAlarm # a /\ headAlarm' = a /\ Send(a)
Clear    == headAlarm # "none" /\ headAlarm' = "none" /\ Send(End)
Notify(n) == Send(n) /\ UNCHANGED headAlarm

\* The head acknowledges a command and answers it.
Answer ==
  /\ requests # <<>>
  /\ frames' = frames + 1
  /\ wire' = wire \o <<Ack, Text(frames + 1, Head(requests)), Etx>>
  /\ requests' = Tail(requests)
  /\ UNCHANGED <<headAlarm, events, line, pc, sketch, clean, lost, sent>>

\* It may miss a command.
Miss ==
  /\ requests # <<>>
  /\ requests' = Tail(requests)
  /\ UNCHANGED <<headAlarm, frames, events, wire, line, pc, sketch, clean,
                 lost, sent>>

\* The next token reaches the UART, which drops it when the buffer is full.
Arrive ==
  /\ wire # <<>>
  /\ wire' = Tail(wire)
  /\ IF Len(line) < LineCap
     THEN line' = Append(line, Head(wire)) /\ UNCHANGED lost
     ELSE lost' = TRUE /\ UNCHANGED line
  /\ UNCHANGED <<headAlarm, frames, events, requests, pc, sketch, clean, sent>>

HeadUnit == \/ \E a \in Alarms : Raise(a)
            \/ Clear
            \/ \E n \in Notices : Notify(n)
            \/ Answer \/ Miss

-----------------------------------------------------------------------------
(* loop(), first half: a frame has come in.                                *)

Top ==
  /\ pc = "top"
  /\ pc' = IF line # <<>> THEN "readInfo" ELSE "cycleTest"
  /\ UNCHANGED <<head, line, sketch, clean, lost, sent>>

\* One character more; ETX ends the frame.  STX is dropped, ACK is not.
ReadInfo ==
  /\ pc = "readInfo" /\ line # <<>>
  /\ line' = Tail(line)
  /\ IF Head(line) = Etx
     THEN pc' = "parse" /\ UNCHANGED receivedInfo
     ELSE receivedInfo' = Append(receivedInfo, Head(line)) /\ UNCHANGED pc
  /\ UNCHANGED <<head, response, field, fields, alarmActive, sendData,
                 outgoing, cycles, clean, lost, sent>>

\* RESPONSE_TIMEOUT after the first character, whatever has come in since.
InfoTimeout ==
  /\ pc = "readInfo"
  /\ receivedInfo' = Timeout
  /\ pc' = "parse"
  /\ lost' = TRUE
  /\ UNCHANGED <<head, line, response, field, fields, alarmActive, sendData,
                 outgoing, cycles, clean, sent>>

\* ParseReceivedInfo up to the choice of mode: the whole text must be a known
\* code, and alarms and their end are filtered by alarmActive.
Is(what) == Len(receivedInfo) = 1 /\ receivedInfo[1].what = what

Report(active) ==
  /\ alarmActive' = active
  /\ outgoing' = receivedInfo[1]
  /\ pc' = "sendState"
  /\ UNCHANGED receivedInfo

Recognised == \/ \E a \in Alarms : Is(a) /\ ~alarmActive
              \/ Is(End) /\ alarmActive
              \/ \E n \in Notices : Is(n)

\* Mutant: an alarm is reported whether or not one is active already.
ParseRepeats ==
  /\ pc = "parse"
  /\ \/ (\E a \in Alarms : Is(a)) /\ Report(TRUE)
     \/ alarmActive /\ Is(End) /\ Report(FALSE)
     \/ (\E n \in Notices : Is(n)) /\ Report(alarmActive)
     \/ /\ ~Recognised
        /\ receivedInfo' = <<>>
        /\ pc' = "cycleTest"
        /\ UNCHANGED <<alarmActive, outgoing>>
  /\ UNCHANGED <<head, line, response, field, fields, sendData, cycles,
                 clean, lost, sent>>

Parse ==
  /\ pc = "parse"
  /\ \/ ~alarmActive /\ (\E a \in Alarms : Is(a)) /\ Report(TRUE)
     \/ alarmActive /\ Is(End) /\ Report(FALSE)
     \/ (\E n \in Notices : Is(n)) /\ Report(alarmActive)
     \/ /\ ~Recognised
        /\ receivedInfo' = <<>>
        /\ pc' = "cycleTest"
        /\ UNCHANGED <<alarmActive, outgoing>>
  /\ UNCHANGED <<head, line, response, field, fields, sendData, cycles,
                 clean, lost, sent>>

\* Mutant: receivedInfo is not reset after a report.
SendStateKeepsInfo ==
  /\ pc = "sendState"
  /\ sent' = Append(sent, [kind |-> "state", source |-> outgoing])
  /\ pc' = "cycleTest"
  /\ UNCHANGED <<head, line, receivedInfo, response, field, fields,
                 alarmActive, sendData, outgoing, cycles, clean, lost>>

\* The state message; sendData returned, and its result is dropped.
SendState ==
  /\ pc = "sendState"
  /\ sent' = Append(sent, [kind |-> "state", source |-> outgoing])
  /\ receivedInfo' = <<>>
  /\ pc' = "cycleTest"
  /\ UNCHANGED <<head, line, response, field, fields, alarmActive, sendData,
                 outgoing, cycles, clean, lost>>

\* cc1101.sendData, from either place, may wait for RX for ever: when the chip
\* rests in IDLE its first loop never ends (RadioNode, run DetectorHang).
Park ==
  /\ pc \in {"sendState", "sendReport", "parked"}
  /\ pc' = "parked"
  /\ UNCHANGED <<head, line, sketch, clean, lost, sent>>

-----------------------------------------------------------------------------
(* loop(), second half: the data cycle.                                    *)

\* SEND_CYCLE has passed, or not.
CycleTest(due) ==
  /\ pc = "cycleTest"
  /\ due => cycles < MaxCycles
  /\ cycles' = IF due THEN cycles + 1 ELSE cycles
  /\ sendData' = (sendData \/ due)
  /\ IF sendData'
     THEN /\ pc' = "ask" /\ field' = 1
          /\ clean' = (line = <<>> /\ wire = <<>> /\ requests = <<>>)
     ELSE pc' = "top" /\ UNCHANGED <<field, clean>>
  /\ UNCHANGED <<head, line, receivedInfo, response, fields, alarmActive,
                 outgoing, lost, sent>>

\* Mutant: GetData appends to the response of the call before.
AskKeepsResponse ==
  /\ pc = "ask"
  /\ requests' = Append(requests, Commands[field])
  /\ pc' = "readAnswer"
  /\ UNCHANGED <<headAlarm, frames, events, wire, line, receivedInfo, response,
                 field, fields, alarmActive, sendData, outgoing, cycles, clean,
                 lost, sent>>

\* GetData: the command, 500 ms, and the characters that follow.
Ask ==
  /\ pc = "ask"
  /\ requests' = Append(requests, Commands[field])
  /\ response' = <<>>
  /\ pc' = "readAnswer"
  /\ UNCHANGED <<headAlarm, frames, events, wire, line, receivedInfo, field,
                 fields, alarmActive, sendData, outgoing, cycles, clean, lost,
                 sent>>

\* Mutant: GetData keeps the acknowledgement, as loop() does.
ReadAnswerKeepsAck ==
  /\ pc = "readAnswer" /\ line # <<>>
  /\ line' = Tail(line)
  /\ IF Head(line) = Etx
     THEN pc' = "store" /\ UNCHANGED response
     ELSE response' = Append(response, Head(line)) /\ UNCHANGED pc
  /\ lost' = (lost \/ Head(line).what \in Codes)
  /\ UNCHANGED <<head, receivedInfo, field, fields, alarmActive, sendData,
                 outgoing, cycles, clean, sent>>

ReadAnswer ==
  /\ pc = "readAnswer" /\ line # <<>>
  /\ line' = Tail(line)
  /\ IF Head(line) = Etx
     THEN pc' = "store" /\ UNCHANGED response
     ELSE /\ response' = IF Head(line) = Ack THEN response
                         ELSE Append(response, Head(line))
          /\ UNCHANGED pc
  /\ lost' = (lost \/ Head(line).what \in Codes)
  /\ UNCHANGED <<head, receivedInfo, field, fields, alarmActive, sendData,
                 outgoing, cycles, clean, sent>>

\* Mutant: the timeout empties the response, but does not leave the loop.
AnswerTimeoutStays ==
  /\ pc = "readAnswer"
  /\ response' = <<>>
  /\ clean' = FALSE /\ lost' = TRUE
  /\ UNCHANGED <<head, line, pc, receivedInfo, field, fields, alarmActive,
                 sendData, outgoing, cycles, sent>>

AnswerTimeout ==
  /\ pc = "readAnswer"
  /\ response' = <<>>
  /\ pc' = "store"
  /\ clean' = FALSE /\ lost' = TRUE
  /\ UNCHANGED <<head, line, receivedInfo, field, fields, alarmActive,
                 sendData, outgoing, cycles, sent>>

\* Mutant: one value too many.
StoreOneMore ==
  /\ pc = "store"
  /\ fields' = [fields EXCEPT ![field] =
                  IF response = <<>> THEN NoSource ELSE Head(response)]
  /\ IF field <= Len(Commands)
     THEN field' = field + 1 /\ pc' = "ask"
     ELSE pc' = "sendReport" /\ UNCHANGED field
  /\ UNCHANGED <<head, line, receivedInfo, response, alarmActive, sendData,
                 outgoing, cycles, clean, lost, sent>>

\* The first eight digits of the response go into the packet; without a
\* response they are the garbage HexStringToInt makes of "".
Store ==
  /\ pc = "store"
  /\ fields' = [fields EXCEPT ![field] =
                  IF response = <<>> THEN NoSource ELSE Head(response)]
  /\ IF field < Len(Commands)
     THEN field' = field + 1 /\ pc' = "ask"
     ELSE pc' = "sendReport" /\ UNCHANGED field
  /\ UNCHANGED <<head, line, receivedInfo, response, alarmActive, sendData,
                 outgoing, cycles, clean, lost, sent>>

\* The data message; sendData returned, whatever it returned.
SendReport ==
  /\ pc = "sendReport"
  /\ sent' = Append(sent, [kind |-> "data", source |-> fields,
                           clean |-> clean])
  /\ sendData' = FALSE
  /\ pc' = "top"
  /\ UNCHANGED <<head, line, receivedInfo, response, field, fields,
                 alarmActive, outgoing, cycles, clean, lost>>

Loop == \/ Top \/ ReadInfo \/ InfoTimeout \/ Parse
        \/ SendState
        \/ \E due \in BOOLEAN : CycleTest(due)
        \/ Ask \/ ReadAnswer \/ AnswerTimeout \/ Store \/ SendReport
        \/ Park

-----------------------------------------------------------------------------
\* setup() ends with sendData = true.
Init ==
  /\ headAlarm = "none" /\ frames = 0 /\ events = 0 /\ wire = <<>>
  /\ line = <<>>
  /\ requests = <<>>
  /\ pc = "top"
  /\ receivedInfo = <<>> /\ response = <<>> /\ field = 1
  /\ fields = [f \in DOMAIN Commands |-> NoSource]
  /\ alarmActive = FALSE /\ sendData = TRUE /\ outgoing = NoSource
  /\ cycles = 0 /\ clean = FALSE /\ lost = FALSE /\ sent = <<>>

Next == Loop \/ HeadUnit \/ Arrive

Spec == Init /\ [][Next]_vars

\* The sketch keeps running, time passes, the UART delivers what is on the
\* wire.  The head owes us nothing.
Fairness == WF_vars(Loop) /\ WF_vars(Arrive)

FairSpec == Spec /\ Fairness

-----------------------------------------------------------------------------
(* Properties.                                                             *)

Tokens   == [n : Nat, what : Codes \cup Asked \cup Marks]
Messages == [kind : {"state"}, source : Tokens]
              \cup [kind : {"data"}, source : [DOMAIN Commands -> Tokens],
                    clean : BOOLEAN]

LineTypeOK ==
  /\ headAlarm \in Alarms \cup {"none"} /\ frames \in Nat /\ events \in Nat
  /\ wire \in Seq(Tokens) /\ line \in Seq(Tokens)
  /\ requests \in Seq(Asked)

SketchTypeOK ==
  /\ pc \in {"top", "readInfo", "parse", "sendState", "cycleTest", "ask",
             "readAnswer", "store", "sendReport", "parked"}
  /\ receivedInfo \in Seq(Tokens) /\ response \in Seq(Tokens)
  /\ field \in DOMAIN Commands
  /\ fields \in [DOMAIN Commands -> Tokens]
  /\ alarmActive \in BOOLEAN /\ sendData \in BOOLEAN
  /\ outgoing \in Tokens /\ cycles \in Nat

HistoryTypeOK ==
  /\ clean \in BOOLEAN /\ lost \in BOOLEAN
  /\ sent \in Seq(Messages)

\* Type invariant of the line, the sketch and the histories.
TypeOK == LineTypeOK /\ SketchTypeOK /\ HistoryTypeOK

IsAlarm(m) == m.kind = "state" /\ m.source.what \in Alarms
IsEnd(m)   == m.kind = "state" /\ m.source.what = End

\* A station that listens sees alarms and their ends take turns: between two
\* alarm messages there is an end, whatever the head repeats and whatever the
\* line loses.
AlarmsAlternate ==
  \A i, j \in DOMAIN sent :
    i < j /\ IsAlarm(sent[i]) /\ IsAlarm(sent[j])
      => \E k \in i+1..j-1 : IsEnd(sent[k])

\* The frames a message was made from.
Used(m) == IF m.kind = "state" THEN {m.source.n}
           ELSE {m.source[f].n : f \in DOMAIN m.source} \ {0}

\* No frame is used twice, as a value and as a state or in two messages, and
\* messages carry frames in the order the head sent them, although GetData
\* and loop() read the same line.
FramesInOrder ==
  /\ \A i, j \in DOMAIN sent :
       i < j => \A n \in Used(sent[i]), m \in Used(sent[j]) : n < m
  /\ \A i \in DOMAIN sent : sent[i].kind = "data" =>
       \A f, g \in DOMAIN sent[i].source :
         f < g /\ sent[i].source[g].n # 0
           => sent[i].source[f].n < sent[i].source[g].n

\* A data cycle that starts with an empty line and meets neither a frame of
\* the head nor a timeout puts the answer to each command into the bytes of
\* that value.
CleanCycle ==
  \A i \in DOMAIN sent : sent[i].kind = "data" /\ sent[i].clean =>
    \A f \in DOMAIN Commands : sent[i].source[f].what = Commands[f]

\* With nothing under way the sketch agrees with the head about the alarm,
\* unless a frame was lost: dropped by the UART, cut by a timeout, or
\* swallowed by GetData as the answer to a command.
FlagFollowsHead ==
  pc = "top" /\ wire = <<>> /\ line = <<>> /\ ~lost
    => (alarmActive <=> headAlarm # "none")

\* loop() always comes back, although the head may miss commands and frames
\* may lose their end, unless sendData waits for a chip in IDLE for ever: the
\* one place where SendReturnsUnlessParked lets it.
LoopComesBack == []<>(pc = "top") \/ <>[](pc = "parked")
=============================================================================
