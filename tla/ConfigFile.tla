------------------------------ MODULE ConfigFile ------------------------------
(***************************************************************************)
(* The configuration of the receiving station: SDCardLoadConfiguration of  *)
(* Receiver.ino over src/libraries/IniFile.  A file is a sequence of       *)
(* lines; of a line counts what it is and how many characters it has,      *)
(* because readLine() sees the file through a buffer of BufferLen.         *)
(* Every action is one call of readLine() and what is made of the line.    *)
(***************************************************************************)
EXTENDS Integers, Sequences, FiniteSets

CONSTANTS Keys,        \* of ssid, pass and sec those that are looked at, in order
          Lines,       \* the lines a file is made of: <<what it is, characters>>
          BufferLen,   \* len of every call
          MaxLines     \* bound: lines of the file

Sections == {"WIFI", "other"}
KeySet   == {Keys[i] : i \in DOMAIN Keys}

VARIABLES file, nl,    \* the lines; characters of a line end, 1 or 2
          open,        \* the last line has no end
          stage,       \* validate, the key that is looked for, or the outcome
          getValueState, readLinePosition,
          adrift,      \* a read has failed in this stage, and the position is unknown
          value,       \* key -> number of the line it was found in, 0 if unknown
          reads,       \* calls of readLine() since the stage began, until it is adrift
          misread      \* history: the stages in which the card has failed

vars == <<file, nl, open, stage, getValueState, readLinePosition, adrift, value, reads, misread>>

Files == UNION {[1..n -> Lines] : n \in 1..MaxLines}

Init == /\ file \in Files /\ nl \in {1, 2} /\ open \in BOOLEAN
        /\ stage = "validate" /\ getValueState = "funcUnset" /\ readLinePosition = 1
        /\ value = [k \in KeySet |-> 0]
        /\ reads = 0 /\ adrift = FALSE /\ misread = {}

-------------------------------------------------------------------------------
\* A call reads BufferLen characters from its position and looks for an end of
\* line in all of them but the last.  What has none is the end of the file if
\* nothing is left to read, and too long otherwise.
What(i)   == file[i][1]
Size(i)   == file[i][2]
Ended(i)  == i < Len(file) \/ ~open
Short(i)  == Ended(i) /\ Size(i) < BufferLen - 1
AtEnd(i)  == i = Len(file) /\ Size(i) + (IF Ended(i) THEN nl ELSE 0) <= BufferLen

Line(i) ==
  CASE i > Len(file) ->
         [err |-> "errorEndOfFile",      text |-> "",      next |-> i,     well |-> TRUE]
    [] i <= Len(file) /\ Short(i) ->
         [err |-> "errorNoError",        text |-> What(i), next |-> i + 1, well |-> TRUE]
    [] i <= Len(file) /\ ~Short(i) /\ AtEnd(i) ->
         [err |-> "errorEndOfFile",      text |-> What(i), next |-> i,     well |-> TRUE]
    [] i <= Len(file) /\ ~Short(i) /\ ~AtEnd(i) ->
         [err |-> "errorBufferTooSmall", text |-> "",      next |-> i,     well |-> TRUE]

\* A seek fails only away from the beginning of the file, a read only before its
\* end.  The -1 of a failed read is a size to readLine(), which looks for a line
\* end in what earlier calls have left in the buffer.  If there is one, the line
\* is what the buffer begins with and the position moves on by as much, so that
\* later calls begin anywhere in a line; this is not followed, and any line can
\* come.  (buffer[bytesRead] is not written then: File::available() counts from
\* where the read has failed, so that it is not 0.)
Texts == Sections \cup KeySet \cup {"comment", ""}
Failed == {"errorBufferTooSmall", "errorSeekError"}
Taken  == {"errorNoError", "errorEndOfFile"}
Bad(errs, texts, i) == [err : errs, text : texts, next : {i}, well : {FALSE}]

readLine(i) ==
  IF adrift THEN Bad(Failed, {""}, i) \cup Bad(Taken, Texts, i)
  ELSE {Line(i)} \cup (IF i > 1 THEN Bad({"errorSeekError"}, {""}, i) ELSE {})
       \cup IF i <= Len(file)
            THEN Bad({"errorBufferTooSmall"}, {""}, i) \cup Bad({"errorNoError"}, Texts, i)
            ELSE {}

Note(line) == misread' = IF line.well THEN misread ELSE misread \cup {stage}

Reading(line) ==
  /\ readLinePosition' = line.next
  /\ adrift' = ~line.well
  /\ reads' = IF ~line.well \/ reads > 2 * MaxLines THEN reads ELSE reads + 1
  /\ UNCHANGED <<file, nl, open>>

\* A new call of getValue() starts with a new state.
Begin(next) == /\ stage' = next /\ getValueState' = "funcUnset"
               /\ readLinePosition' = 1 /\ adrift' = FALSE /\ reads' = 0

-------------------------------------------------------------------------------
Validated(line) ==
  CASE line.err = "errorNoError"   -> Reading(line) /\ UNCHANGED <<stage, getValueState>>
    [] line.err = "errorEndOfFile" -> Begin(Keys[1]) /\ UNCHANGED <<file, nl, open>>
    [] line.err \in Failed         -> Begin("failed") /\ UNCHANGED <<file, nl, open>>

Validate ==
  /\ stage = "validate"
  /\ \E line \in readLine(readLinePosition) : Validated(line) /\ Note(line)
  /\ UNCHANGED value

Looking(state) == stage \in KeySet /\ getValueState = state

\* getValue() with the section "WIFI".
Unset == /\ Looking("funcUnset")
         /\ getValueState' = "funcFindSection" /\ readLinePosition' = 1
         /\ UNCHANGED <<file, nl, open, stage, adrift, value, reads, misread>>

\* A comment is skipped before the end of the file is looked at.
findSection(line) ==
  IF line.err \in Failed THEN "error"
  ELSE IF line.text = "comment" THEN "on"
  ELSE IF line.text = "WIFI" THEN "found"
  ELSE IF line.err = "errorEndOfFile" THEN "error" ELSE "on"

\* Mutant: the search does not stop at the next section.
findKeyAnywhere(line) ==
  IF line.err \in Failed THEN "error"
  ELSE IF line.text = stage THEN "found"
  ELSE IF line.err = "errorEndOfFile" THEN "error" ELSE "on"

findKey(line) ==
  IF line.err \in Failed \/ line.text \in Sections THEN "error"
  ELSE IF line.text = stage THEN "found"
  ELSE IF line.err = "errorEndOfFile" THEN "error" ELSE "on"

SectionSought(line) ==
  CASE findSection(line) = "error" -> Begin("failed") /\ UNCHANGED <<file, nl, open>>
    [] findSection(line) = "found" ->
         Reading(line) /\ getValueState' = "funcFindKey" /\ UNCHANGED stage
    [] findSection(line) = "on"    -> Reading(line) /\ UNCHANGED <<stage, getValueState>>

FindSection ==
  /\ Looking("funcFindSection")
  /\ \E line \in readLine(readLinePosition) : SectionSought(line) /\ Note(line)
  /\ UNCHANGED value

NextStage == IF stage = Keys[Len(Keys)] THEN "loaded"
             ELSE Keys[1 + CHOOSE i \in DOMAIN Keys : Keys[i] = stage]

KeySought(line) ==
  CASE findKey(line) = "error" -> Begin("failed") /\ UNCHANGED <<file, nl, open, value>>
    [] findKey(line) = "found" ->
         /\ Begin(NextStage) /\ UNCHANGED <<file, nl, open>>
         /\ value' = [value EXCEPT ![stage] = IF line.well THEN readLinePosition ELSE 0]
    [] findKey(line) = "on"    -> Reading(line) /\ UNCHANGED <<stage, getValueState, value>>

FindKey ==
  /\ Looking("funcFindKey")
  /\ \E line \in readLine(readLinePosition) : KeySought(line) /\ Note(line)

Finished == stage \in {"loaded", "failed"} /\ UNCHANGED vars

Next == Validate \/ Unset \/ FindSection \/ FindKey \/ Finished
Spec == Init /\ [][Next]_vars

-------------------------------------------------------------------------------
TypeOK == /\ readLinePosition \in 1 .. Len(file) + 1
          /\ getValueState \in {"funcUnset", "funcFindSection", "funcFindKey"}
          /\ stage \in KeySet \cup {"validate", "loaded", "failed"}
          /\ adrift \in BOOLEAN /\ misread \subseteq KeySet \cup {"validate"}

\* What a reader of the file would say: the first line of the key in the first
\* section of the name.
LineOf(key) ==
  {j \in DOMAIN file :
     /\ What(j) = key
     /\ \E s \in 1 .. j - 1 :
          /\ What(s) = "WIFI" /\ \A r \in 1 .. s - 1 : What(r) # "WIFI"
          /\ \A r \in s + 1 .. j - 1 : What(r) \notin Sections \cup {key}}
Fits(i) == Short(i) \/ AtEnd(i)

\* A value that the sketch takes over is the right one unless the card failed while
\* it was looked for, and the sketch reports a failure only if the card failed, or
\* for a file that lacks a value or has a line that is too long
\* (readLine, findSection, findKey, SDCardLoadConfiguration).
LoadsWhatIsThere ==
  /\ stage = "loaded" => \A k \in DOMAIN value : value[k] \in LineOf(k) \/ k \in misread
  /\ stage = "failed" => \/ misread # {}
                         \/ \E i \in DOMAIN file : ~Fits(i)
                         \/ \E k \in DOMAIN value : LineOf(k) = {}

\* Until it is adrift a search reads no line twice, except for ever the last one: a comment whose
\* line end readLine() does not see, in a file without the section (findSection
\* compares with errorSectionNotFound what readLine() never returns).
SearchEnds == reads > 2 * MaxLines =>
                /\ What(Len(file)) = "comment" /\ ~Short(Len(file))
                /\ \A i \in DOMAIN file : What(i) # "WIFI"
===============================================================================
