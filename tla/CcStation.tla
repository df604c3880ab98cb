------------------------------- MODULE CcStation -------------------------------
(***************************************************************************)
(* The Adafruit_CC3000 class (libraries/WiFi/Adafruit_CC3000.cpp): joining *)
(* and leaving a network, restarting the module, SmartConfig, and the bits *)
(* of cc3000Bitset that the chip's events set from the interrupt routine   *)
(* while a method runs.  A method is a script of driver calls, tests and   *)
(* waits; answers and events arrive in the order the chip sent them        *)
(* (module Cc3000).  The chip is external.                                 *)
(***************************************************************************)
EXTENDS Integers, Sequences

CONSTANTS MaxAttempts,   \* connectToAP's attempts; 0 of them means for ever
          MaxNews        \* bound: answers and events on their way

VARIABLES
  method, step,  \* the method that runs, and where in its script
  attempts,      \* what is left of connectToAP's argument, -1 for ever
  asking,        \* the driver call it waits for
  answer,        \* the answer of the last one
  bits,          \* cc3000Bitset
  initialised,   \* _initialised
  power,         \* the chip is powered
  policy,        \* it joins a stored network by itself
  joining,       \* it has been told to join
  joined,        \* it is associated
  addressed,     \* it has an address by DHCP
  news,          \* answers and events on their way to the host
  stale          \* history: bits that outlived what they say, or were cleared early

object == <<bits, initialised>>
chip   == <<power, policy, joining, joined, addressed>>
vars   == <<method, step, attempts, asking, answer, object, chip, news, stale>>

NoCall  == "none"
NotYet  == 1                                  \* answers are 0 or -1
Events  == {"CONNECT", "DISCONNECT", "DHCP", "DONE"}
BitsOf  == {"IsConnected", "HasDHCP", "IsSmartConfigFinished"}

-------------------------------------------------------------------------------
(* The steps a script is made of.                                          *)
Must(fn)   == [do |-> "must",  arg |-> fn]    \* CHECK_SUCCESS: return false unless 0
Try(fn)    == [do |-> "try",   arg |-> fn]    \* connectToAP: go on to the next attempt
Call(fn)   == [do |-> "call",  arg |-> fn]    \* the result is dropped or returned
Wait(bit)  == [do |-> "wait",  arg |-> bit]   \* poll for the bit; false on a timeout
Watch(bit) == [do |-> "watch", arg |-> bit]   \* the same, but a timeout is no failure
Need(bit)  == [do |-> "need",  arg |-> bit]   \* return unless the bit is set
Until(bit) == [do |-> "until", arg |-> bit]   \* back to the script's loop unless set
While(bit) == [do |-> "while", arg |-> bit]   \* the loop is left when it is not set
Do(what)   == [do |-> what,    arg |-> ""]
Ready      == Do("ready")                     \* return false unless _initialised
Restart    == <<Do("stop"), Do("start")>>     \* wlan_stop, a delay, wlan_start

\* While the bit is set: wlan_disconnect, and round again.
Leave == <<While("IsConnected"), Must("leave"), Do("loop")>>

\* With a DHCP address the name is announced, a second after joining.
Announce == <<Need("HasDHCP"), Call("mdns")>>
HasLink  == <<Ready, Need("IsConnected"), Need("HasDHCP")>>

begin(smart) ==
  <<Do("begun"), Do("start")>>
  \o (IF smart THEN <<Call("auto")>> ELSE <<Call("manual"), Call("del_profile")>>)
  \o <<Must("set_event_mask"), Do("initialised")>>
  \o (IF smart THEN <<Wait("IsConnected")>> \o Announce ELSE <<>>)

reboot        == <<Ready>> \o Restart
stop          == <<Ready, Do("stop")>>
disconnect    == <<Ready, Call("leave")>>
getStatus     == <<Ready, Call("statusget")>>
getMacAddress == <<Ready, Must("nvmem_read")>>
getFirmwareVersion == <<Ready, Must("nvmem_read_sp_version")>>
deleteProfiles     == <<Ready, Must("manual"), Must("del_profile")>>

\* An address that begins with 0 is refused before.
setMacAddress      == <<Ready, Must("config_mac")>> \o Restart

\* setDHCP() is this one with addresses of 0.  Neither asks for begin().
setStaticIPAddress == <<Must("netapp_dhcp")>> \o Restart

scanSSIDs     == <<Ready, Must("set_scan_params")>>
startSSIDscan == scanSSIDs \o <<Must("scan_results")>>
getNextSSID   == <<Must("scan_results")>>

\* connectSecure() does the same, once its arguments are found in range.
connectOpen   == <<Ready, Must("manual"), Must("join")>>

getIPAddress  == HasLink \o <<Call("ipconfig")>>
getIPConfig   == getIPAddress
getHostByName == HasLink \o <<Call("gethostbyname")>>
ping          == HasLink \o <<Call("ping_send")>>
checkDHCP     == <<Need("HasDHCP"), Call("gethostbyname")>>

startSmartConfig(aes) ==
  <<Do("clear"), Ready, Must("manual"), Must("del_profile")>> \o Leave \o Restart
  \o <<Must("create_entry")>> \o (IF aes THEN <<Must("write_key")>> ELSE <<>>)
  \o <<Must("set_prefix"), Must("smart_config"), Wait("IsSmartConfigFinished")>>
  \o (IF aes THEN <<Must("smart_config_process")>> ELSE <<>>)
  \o <<Must("auto")>> \o Restart
  \o <<Must("set_event_mask"), Wait("IsConnected")>> \o Announce

\* Each attempt scans, asks to join and watches for the event.
connectToAP ==
  <<Ready, Do("attempt"), Call("set_scan_params"), Call("set_scan_params"), Try("manual"),
    Try("join"), Watch("IsConnected"), Until("IsConnected")>>

\* Those that differ: a scan is stopped like it is started, without its results.
Script == [
  begin |-> begin(FALSE), beginSmart |-> begin(TRUE),
  startSmartConfig |-> startSmartConfig(FALSE), startSmartConfigAES |-> startSmartConfig(TRUE),
  connectToAP |-> connectToAP, connectOpen |-> connectOpen, disconnect |-> disconnect,
  reboot |-> reboot, stop |-> stop, deleteProfiles |-> deleteProfiles,
  setMacAddress |-> setMacAddress, setStaticIPAddress |-> setStaticIPAddress,
  getMacAddress |-> getMacAddress, getFirmwareVersion |-> getFirmwareVersion,
  getStatus |-> getStatus, startSSIDscan |-> startSSIDscan, stopSSIDscan |-> scanSSIDs,
  getNextSSID |-> getNextSSID, getIPConfig |-> getIPConfig, ping |-> ping,
  getHostByName |-> getHostByName, checkDHCP |-> checkDHCP]

-------------------------------------------------------------------------------
(* The main program: one step of the script after another.                 *)
Running    == method # "none"
Here       == Script[method][step]
Is(what)   == Running /\ asking = NoCall /\ step <= Len(Script[method]) /\ Here.do = what
Index(what) == CHOOSE i \in 1..Len(Script[method]) : Script[method][i].do = what
Proceed    == step' = step + 1 /\ UNCHANGED <<method, attempts>>
GoBack(what) == step' = Index(what) /\ UNCHANGED <<method, attempts>>
Return     == method' = "none" /\ step' = 1 /\ attempts' = 0

Begin ==
  /\ method = "none"
  /\ method' \in DOMAIN Script
  /\ attempts' \in IF method' = "connectToAP" THEN {-1} \cup 1..MaxAttempts ELSE {0}
  /\ UNCHANGED <<step, asking, answer, object, chip, news, stale>>

End ==
  /\ Running /\ step > Len(Script[method])
  /\ Return
  /\ UNCHANGED <<asking, answer, object, chip, news, stale>>

\* A call goes to the driver, which is lost when the module is off: its
\* packet pointer is 0 (wlan_stop).
Ask ==
  /\ \E what \in {"must", "try", "call"} : Is(what)
  /\ answer = NotYet /\ power
  /\ asking' = Here.arg
  /\ UNCHANGED <<method, step, attempts, answer, object, chip, news, stale>>

Answered ==
  /\ answer # NotYet /\ answer' = NotYet
  /\ \/ answer = 0 /\ Proceed
     \/ answer # 0 /\ Is("call") /\ Proceed
     \/ answer # 0 /\ Is("must") /\ Return
     \/ answer # 0 /\ Is("try") /\ GoBack("until")
  /\ asking = NoCall
  /\ UNCHANGED <<asking, object, chip, news, stale>>

Bit == Here.arg \in bits

\* A wait ends with the bit or with the timeout; it may also go on.
Waits ==
  /\ \/ Is("wait") /\ Bit /\ Proceed
     \/ Is("wait") /\ ~Bit /\ Return
     \/ Is("watch") /\ Proceed
  /\ UNCHANGED <<asking, answer, object, chip, news, stale>>

\* connectToAP: no attempt is left, or the next one begins.
Attempt ==
  /\ Is("attempt")
  /\ IF attempts = 0 THEN Return
     ELSE step' = step + 1 /\ attempts' = (IF attempts > 0 THEN attempts - 1 ELSE attempts)
          /\ UNCHANGED method
  /\ UNCHANGED <<asking, answer, object, chip, news, stale>>

Tests ==
  /\ \/ Is("ready") /\ initialised /\ Proceed
     \/ Is("ready") /\ ~initialised /\ Return
     \/ Is("begun") /\ ~initialised /\ Proceed
     \/ Is("begun") /\ initialised /\ Return
     \/ Is("need") /\ Bit /\ Proceed
     \/ Is("need") /\ ~Bit /\ Return
     \/ Is("until") /\ Bit /\ Return
     \/ Is("until") /\ ~Bit /\ GoBack("attempt")
     \/ Is("while") /\ Bit /\ Proceed
     \/ Is("while") /\ ~Bit /\ step' = step + Len(Leave) /\ UNCHANGED <<method, attempts>>
     \/ Is("loop") /\ GoBack("while")
  /\ UNCHANGED <<asking, answer, object, chip, news, stale>>

\* clear() before _initialised is looked at, and before the link is dropped.
Clear ==
  /\ Is("clear")
  /\ bits' = {}
  /\ stale' = TRUE
  /\ Proceed
  /\ UNCHANGED <<asking, answer, initialised, chip, news>>

SetInitialised ==
  /\ Is("initialised")
  /\ initialised' = TRUE
  /\ Proceed
  /\ UNCHANGED <<asking, answer, bits, chip, news, stale>>

\* What stop() and reboot() leave of the class: everything.
wlan_stop ==
  /\ Is("stop")
  /\ power' = FALSE /\ joining' = FALSE /\ joined' = FALSE /\ addressed' = FALSE
  /\ news' = <<>>
  /\ stale' = TRUE
  /\ Proceed
  /\ UNCHANGED <<asking, answer, object, policy>>

wlan_start ==
  /\ Is("start")
  /\ power' = TRUE /\ joining' = policy
  /\ Proceed
  /\ UNCHANGED <<asking, answer, object, policy, joined, addressed, news, stale>>

Main == Begin \/ End \/ Ask \/ Answered \/ Waits \/ Attempt \/ Tests \/ Clear
        \/ SetInitialised \/ wlan_stop \/ wlan_start

-------------------------------------------------------------------------------
(* CC3000_UsynchCallback, in the interrupt routine.                        *)

\* Mutant: the address is kept when the link is lost.
AfterKeepsAddress(b, event) ==
  CASE event = "CONNECT"    -> b \cup {"IsConnected"}
    [] event = "DISCONNECT" -> b \ {"IsConnected"}
    [] event = "DHCP"       -> b \cup {"HasDHCP"}
    [] event = "DONE"       -> b \cup {"IsSmartConfigFinished"}

After(b, event) ==
  CASE event = "CONNECT"    -> b \cup {"IsConnected"}
    [] event = "DISCONNECT" -> b \ {"IsConnected", "HasDHCP"}
    [] event = "DHCP"       -> b \cup {"HasDHCP"}
    [] event = "DONE"       -> b \cup {"IsSmartConfigFinished"}

CC3000_UsynchCallback ==
  /\ news # <<>> /\ Head(news) \in Events
  /\ news' = Tail(news)
  /\ bits' = After(bits, Head(news))
  /\ stale' = (stale /\ Head(news) # "DISCONNECT")
  /\ UNCHANGED <<method, step, attempts, asking, answer, initialised, chip>>

DeliverAnswer ==
  /\ news # <<>> /\ Head(news) \notin Events
  /\ news' = Tail(news)
  /\ answer' = IF Head(news) = "ok" THEN 0 ELSE -1
  /\ asking' = NoCall
  /\ UNCHANGED <<method, step, attempts, object, chip, stale>>

-------------------------------------------------------------------------------
(* The chip (external).                                                    *)
Sends(what) == Len(news) + Len(what) <= MaxNews /\ news' = news \o what
Unanswered  == \A i \in 1..Len(news) : news[i] \in Events

\* Dropping the link: the event may come before the answer or after it.
ChipAnswers ==
  /\ power /\ asking # NoCall /\ Unanswered
  /\ \/ /\ asking # "leave" \/ ~joined
        /\ Sends(<<"ok">>)
        /\ joining' = (asking = "join" \/ (joining /\ asking # "leave"))
        /\ UNCHANGED <<joined, addressed>>
     \/ /\ asking = "leave" /\ joined
        /\ Sends(<<"ok", "DISCONNECT">>) \/ Sends(<<"DISCONNECT", "ok">>)
        /\ joining' = FALSE /\ joined' = FALSE /\ addressed' = FALSE
     \/ Sends(<<"error">>) /\ UNCHANGED <<joining, joined, addressed>>
  /\ policy' = IF news'[Len(news')] = "error" THEN policy
               ELSE asking = "auto" \/ (policy /\ asking \notin {"manual", "del_profile"})
  /\ UNCHANGED <<method, step, attempts, asking, answer, object, power, stale>>

ChipJoins ==
  /\ power /\ joining /\ ~joined
  /\ joined' = TRUE /\ joining' = FALSE
  /\ Sends(<<"CONNECT">>)
  /\ UNCHANGED <<method, step, attempts, asking, answer, object, power, policy, addressed, stale>>

ChipGetsAddress ==
  /\ power /\ joined /\ ~addressed
  /\ addressed' = TRUE
  /\ Sends(<<"DHCP">>)
  /\ UNCHANGED <<method, step, attempts, asking, answer, object, power, policy, joining, joined, stale>>

ChipLosesLink ==
  /\ power /\ joined
  /\ joined' = FALSE /\ addressed' = FALSE /\ joining' = policy
  /\ Sends(<<"DISCONNECT">>)
  /\ UNCHANGED <<method, step, attempts, asking, answer, object, power, policy, stale>>

ChipIsConfigured ==
  /\ power /\ Running /\ Is("wait") /\ Here.arg = "IsSmartConfigFinished" /\ ~Bit
  /\ Sends(<<"DONE">>)
  /\ UNCHANGED <<method, step, attempts, asking, answer, object, chip, stale>>

Chip == ChipAnswers \/ ChipJoins \/ ChipGetsAddress \/ ChipLosesLink \/ ChipIsConfigured

-------------------------------------------------------------------------------
Init ==
  /\ method = "none" /\ step = 1 /\ attempts = 0
  /\ asking = NoCall /\ answer = NotYet
  /\ bits = {} /\ initialised = FALSE
  /\ power = FALSE /\ policy \in BOOLEAN /\ joining = FALSE /\ joined = FALSE /\ addressed = FALSE
  /\ news = <<>> /\ stale = FALSE

Next == Main \/ CC3000_UsynchCallback \/ DeliverAnswer \/ Chip

Spec == Init /\ [][Next]_vars

(* However often the link comes and goes, the chip finds time to answer.   *)
FairSpec == /\ Spec /\ WF_vars(Main) /\ WF_vars(CC3000_UsynchCallback)
            /\ WF_vars(DeliverAnswer) /\ SF_vars(ChipAnswers)

-------------------------------------------------------------------------------
StationTypeOK ==
  /\ method \in DOMAIN Script \cup {"none"}
  /\ step \in 1..(IF Running THEN Len(Script[method]) + 1 ELSE 1)
  /\ attempts \in -1..MaxAttempts /\ answer \in {-1, 0, NotYet}
  /\ bits \subseteq BitsOf
  /\ {initialised, power, policy, joining, joined, addressed, stale} \subseteq BOOLEAN
  /\ Len(news) <= MaxNews

\* Once the events on their way have been delivered, the bits say what is
\* true of the link: unless stop() or reboot() left them as they were, or
\* startSmartConfig() cleared them with the link still up, and no event has
\* put them right since.  What a bit will be: set now or by an event on its way,
\* with no loss of the link after.
Settled(event, bit) ==
  \/ bit \in bits /\ \A i \in 1..Len(news) : news[i] # "DISCONNECT"
  \/ \E i \in 1..Len(news) :
        news[i] = event /\ \A j \in i+1..Len(news) : news[j] # "DISCONNECT"
BitsFollowLink ==
  ~stale => /\ joined = Settled("CONNECT", "IsConnected")
            /\ addressed = Settled("DHCP", "HasDHCP")

\* Every method returns, except connectToAP told to try for ever, and a call
\* to a module that is off.
IsOff == \E what \in {"must", "try", "call"} : Is(what) /\ answer = NotYet /\ ~power
StationReturns == []<>(~Running \/ attempts = -1 \/ IsOff)
===============================================================================
