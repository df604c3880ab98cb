------------------------------- MODULE HciCalls -------------------------------
(***************************************************************************)
(* The host driver's application interface, one definition per function:   *)
(* what the function puts in the packet, what length it declares, which    *)
(* event it waits for and how large the variable is that receives the      *)
(* answer (libraries/WiFi/utility: socket, wlan, netapp, nvmem, security,  *)
(* framed by hci.cpp and taken apart again by evnt_handler.cpp).           *)
(*                                                                         *)
(* Lengths are in bytes.  "written" is what the argument macros add up to, *)
(* "declared" the length handed to hci_..._send: the packet buffer keeps   *)
(* its old content, so a packet that declares more than was written        *)
(* carries bytes of an earlier one.                                        *)
(***************************************************************************)
EXTENDS Integers

CHAR  == 1
SHORT == 2
LONG  == 4                          \* UINT32_TO_STREAM
ADDRESS  == 8                       \* ASIC_ADDR_LEN, and connect's addrlen
ETH_ALEN == 6                       \* a BSSID, a MAC address

-------------------------------------------------------------------------------
(* hci.cpp: the three framings; the command's own opcode is the event its  *)
(* caller waits for unless the caller names another.                       *)

\* A UINT8 holds the length of a command's arguments.
hci_command_send(op, declared, written, room) ==
  [type |-> "CMND", op |-> op, event |-> op, room |-> room,
   declared |-> declared % 256, written |-> written, data |-> FALSE]

hci_data_send(op, declared, written, event, room) ==
  [type |-> "DATA", op |-> op, event |-> event, room |-> room,
   declared |-> declared, written |-> written, data |-> FALSE]

hci_data_command_send(op, declared, written, event, room) ==
  hci_data_send(op, declared, written, event, room)

\* The host has no patch: every patch request is answered with length 0.
hci_patch_send(request) ==
  [type |-> "PATCH", op |-> request, event |-> 0, room |-> 0,
   declared |-> SHORT, written |-> SHORT, data |-> FALSE]

\* An answer that announces data: the data packet is awaited after it.
WithData(call) == [call EXCEPT !.data = TRUE]

\* SpiWrite's trap: the packet has grown over the magic number in the last
\* byte of wlan_tx_buffer, behind which nothing is checked any more.
CC3000_TX_BUFFER_SIZE == 512
HEADERS_SIZE(type)    == 5 + (CASE type = "CMND" -> 4 [] type = "DATA" -> 5 [] type = "PATCH" -> 6)
OverrunsBuffer(call)  == HEADERS_SIZE(call.type) + call.written >= CC3000_TX_BUFFER_SIZE

-------------------------------------------------------------------------------
(* socket.cpp *)

socket       == hci_command_send(\h1001, 12, 3 * LONG, LONG)
closesocket  == hci_command_send(\h100B, 4, LONG, LONG)
accept       == hci_command_send(\h1005, 4, LONG, 2 * LONG + 16)
bind         == hci_command_send(\h1002, 20, 3 * LONG + ADDRESS, LONG)
listen       == hci_command_send(\h1006, 8, 2 * LONG, LONG)
connect      == hci_command_send(\h1007, 20, 3 * LONG + ADDRESS, LONG)
getsockopt   == hci_command_send(\h100A, 12, 3 * LONG, LONG + CHAR)
getmssvalue  == hci_command_send(\h1012, 4, LONG, SHORT)
recv         == WithData(hci_command_send(\h1004, 12, 3 * LONG, 3 * LONG))
recvfrom     == WithData(hci_command_send(\h100D, 12, 3 * LONG, 3 * LONG))

HOSTNAME_MAX_LENGTH            == 230
MDNS_DEVICE_SERVICE_MAX_LENGTH == 32

\* Called only with len <= HOSTNAME_MAX_LENGTH.
gethostbyname(len) == hci_command_send(\h1010, 9 + len - 1, 2 * LONG + len, 2 * LONG)

\* The two fields of the timeout are written when there is one.
select(timed) == hci_command_send(\h1008, 44,
                   9 * LONG + IF timed THEN 2 * LONG ELSE 0, 4 * LONG)

setsockopt(optlen) == hci_command_send(\h1009, 20 + optlen, 5 * LONG + optlen, LONG)

send(len) == hci_data_send(\h81, 16 + len, 4 * LONG + len, \h1003, 3 * LONG)

sendto(len, tolen) ==
  hci_data_send(\h83, 24 + len + tolen, 6 * LONG + len + tolen, \h100F, 3 * LONG)

\* Called only with len <= MDNS_DEVICE_SERVICE_MAX_LENGTH.
mdnsAdvertiser(len) == hci_command_send(\h1011, 12 + len, 3 * LONG + len, CHAR)

-------------------------------------------------------------------------------
(* wlan.cpp *)

SimpleLink_Init_Start == hci_command_send(\h4000, 1, CHAR, 0)
read_buffer_size      == hci_command_send(\h400B, 0, 0, 0)
wlan_disconnect       == hci_command_send(\h0002, 0, 0, LONG)
set_connection_policy == hci_command_send(\h0004, 12, 3 * LONG, LONG)
del_profile           == hci_command_send(\h0006, 4, LONG, LONG)
get_scan_results      == hci_command_send(\h0007, 4, LONG, 2 * LONG + 2 * SHORT + 38)
set_scan_params       == hci_command_send(\h0003, 100, 9 * LONG + 16 * LONG, LONG)
statusget             == hci_command_send(\h0009, 0, 0, LONG)
smart_config_start    == hci_command_send(\h000A, 4, LONG, LONG)
smart_config_stop     == hci_command_send(\h000B, 0, 0, LONG)
set_prefix            == hci_command_send(\h000C, 3, 3 * CHAR, LONG)

\* Nothing is sent for a mask of HCI_EVNT_WLAN_TX_COMPLETE alone.
set_event_mask == hci_command_send(\h0008, 4, LONG, LONG)

\* A BSSID is written, of zeros when the caller has none; a key when there is one.
wlan_connect(ssid, key, hasKey) ==
  hci_command_send(\h0001, 29 + ssid + key - 1,
    5 * LONG + SHORT + ETH_ALEN + ssid + IF hasKey THEN key ELSE 0, LONG)

ProfileHead == 3 * LONG + SHORT + ETH_ALEN + LONG
add_profile(security, ssid, key) ==
  CASE security = "UNSEC" -> hci_command_send(\h0005, 24 + ssid, ProfileHead + ssid, LONG)
    [] security = "WEP"   -> hci_command_send(\h0005, 36 + ssid + 4 * key,
                               ProfileHead + 3 * LONG + ssid + 4 * key, LONG)
    [] security = "WPA"   -> hci_command_send(\h0005, 44 + ssid + key,
                               ProfileHead + 5 * LONG + ssid + key, LONG)

-------------------------------------------------------------------------------
(* netapp.cpp *)

netapp_dhcp            == hci_command_send(\h2001, 20, 5 * 4 * CHAR, CHAR)
netapp_timeout_values  == hci_command_send(\h2009, 20, 4 * LONG, CHAR)
netapp_ping_send       == hci_command_send(\h2002, 16, 4 * LONG, CHAR)
netapp_ping_report     == hci_command_send(\h2003, 0, 0, CHAR)
netapp_ping_stop       == hci_command_send(\h2004, 0, 0, CHAR)
netapp_ipconfig        == hci_command_send(\h2005, 0, 0, 5 * LONG + ETH_ALEN + 32)
netapp_arp_flush       == hci_command_send(\h2006, 0, 0, CHAR)
netapp_set_debug_level == hci_command_send(\h2008, 4, LONG, CHAR)

\* MIN_TIMER_SET: a timer that is not off is at least ten seconds.
MIN_TIMER_SET(t) == IF 0 < t /\ t < 10 THEN 10 ELSE t

-------------------------------------------------------------------------------
(* nvmem.cpp and the key store of security.cpp *)

nvmem_read            == WithData(hci_command_send(\h0201, 12, 3 * LONG, CHAR))
nvmem_read_sp_version == hci_command_send(\h0207, 0, 0, 5 * CHAR)
nvmem_create_entry    == hci_command_send(\h0203, 8, 2 * LONG, CHAR)
nvmem_write(len)      == hci_data_command_send(\h90, 16 + len, 4 * LONG + len, \h0202, LONG)
nvmem_set_mac_address == nvmem_write(ETH_ALEN)
nvmem_get_mac_address == nvmem_read
netapp_config_mac     == nvmem_set_mac_address
aes_read_key          == nvmem_read
aes_write_key         == nvmem_write(16)

-------------------------------------------------------------------------------
(* evnt_handler.cpp: events *)

FREE_BUFF   == \h4100
CLOSE_WAIT  == \h8800
PATCHES_REQ == \h1000
CONNECTED   == \h8001
DISCONNECTED == \h8002
DHCP        == \h8010
PING_REPORT == \h8040
SMART_CONFIG_DONE == \h8080
SEND_EVENTS == {\h1003, \h100E, \h100F}
RECV_EVENTS == {\h1004, \h100D}
NVMEM_READ  == \h0201

HasBit(op, bit) == (op \div bit) % 2 = 1

\* What the 0x8000 branch handles: the rest of that range is "not supported".
WlanEvents == {\h8200, CONNECTED, DISCONNECTED, \h8004, SMART_CONFIG_DONE, DHCP,
               PING_REPORT, CLOSE_WAIT, \h8400, \h8900}

\* hci_unsol_event_handler answers 1: the event is dealt with and its buffer
\* is released, also when nothing was done because nobody waits for it.
Unsolicited(op, status, awaited) ==
  \/ op = FREE_BUFF
  \/ HasBit(op, \h8000) /\ op \in WlanEvents
  \/ op \in SEND_EVENTS /\ status = -57
  \/ /\ ~HasBit(op, \h8000) /\ op \notin SEND_EVENTS
     /\ op # awaited /\ op # PATCHES_REQ

\* The bytes hci_event_handler stores at pRetParams for an event; an event
\* that is in no case of its switch leaves the variable as it was.
Stores(op) ==
  CASE op \in {\h000D, \h2001, \h2002, \h2004, \h2006, \h2008, \h2009, \h0201,
               \h0203, \h0204, \h2003, \h1011} -> CHAR
    [] op \in {\h1009, \h0001, \h0009, \h0005, \h0006, \h0004, \h0003, \h000A, \h000B,
               \h000C, \h0008, \h0002, \h1001, \h1002, \h1006, \h100B, \h1007, \h0202} -> LONG
    [] op = \h0207 -> CHAR + LONG
    [] op = \h1010 -> 2 * LONG
    [] op = \h1012 -> SHORT
    [] op = \h1005 -> 2 * LONG + 16
    [] op \in RECV_EVENTS -> 3 * LONG
    [] op \in {\h1003, \h100F} -> 2 * LONG
    [] op = \h1008 -> 4 * LONG
    [] op = \h100A -> LONG + CHAR
    [] op = \h0007 -> 2 * LONG + 2 * SHORT + 38
    [] op = \h2005 -> 5 * LONG + ETH_ALEN + 32
    [] OTHER -> 0

-------------------------------------------------------------------------------
(* The calls as one set, for every length up to the bounds, but for the two *)
(* that declare more than they write: select without a timeout, and         *)
(* netapp_timeout_values.                                                   *)
WepKeys == {5, 13}                    \* the lengths of a WEP key
CallsUpTo(ssid, key, block) ==
  {socket, closesocket, accept, bind, listen, connect, getsockopt, getmssvalue,
   recv, recvfrom, select(TRUE), SimpleLink_Init_Start, read_buffer_size,
   wlan_disconnect, set_connection_policy, del_profile, get_scan_results,
   set_scan_params, statusget, smart_config_start, smart_config_stop, set_prefix,
   set_event_mask, netapp_dhcp, netapp_ping_send, netapp_ping_report,
   netapp_ping_stop, netapp_ipconfig, netapp_arp_flush, netapp_set_debug_level,
   nvmem_read, nvmem_read_sp_version, nvmem_create_entry}
  \cup {gethostbyname(n) : n \in 0..HOSTNAME_MAX_LENGTH}
  \cup {mdnsAdvertiser(n) : n \in 0..MDNS_DEVICE_SERVICE_MAX_LENGTH}
  \cup {setsockopt(n) : n \in 0..key}
  \cup {wlan_connect(s, k, TRUE) : s \in 0..ssid, k \in 0..key}
  \cup {add_profile(sec, s, k) : sec \in {"UNSEC", "WPA"}, s \in 0..ssid, k \in 0..key}
  \cup {add_profile("WEP", s, k) : s \in 0..ssid, k \in WepKeys}
  \cup {send(n) : n \in 0..block} \cup {nvmem_write(n) : n \in 0..block}
  \cup {sendto(n, ADDRESS) : n \in 0..block}
===============================================================================
