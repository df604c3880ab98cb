------------------------------- MODULE SmartConfig -------------------------------
(***************************************************************************)
(* What startSmartConfig() of the CC3000 does with a key: it is written to *)
(* a file of the chip, a telephone sends the name of a network and its     *)
(* password, encrypted with it, which the chip puts into another file, and *)
(* wlan_smart_config_process() makes a profile of the two.                 *)
(*                                                                         *)
(* The telephone fills 32 bytes as the comment of the code says: the       *)
(* length of the password and the password, or the 32 bytes of one that    *)
(* leaves no room.  given is a history.                                   *)
(***************************************************************************)
EXTENDS Aes, Sequences

CONSTANTS NONE,
          Lengths, FirstBytes,     \* of the passwords
          SecurityTypes,           \* 0 to 3 are known
          AesKey

VARIABLES step, keyFile, profileFile, key, profileArray, given, profile, outcome

smartVars == <<step, keyFile, profileFile, key, profileArray, given, profile, outcome>>

WLAN_SEC_UNSEC == 0
WLAN_SEC_WEP   == 1
WLAN_SEC_WPA   == 2
WLAN_SEC_WPA2  == 3
EFAIL          == -1

-------------------------------------------------------------------------------
Password(n, first) == [i \in 1 .. n |-> IF i = 1 THEN first ELSE 96 + (i % 26)]
Padded(s)    == [i \in 0 .. 31 |-> IF i < Len(s) THEN s[i + 1] ELSE 0]
Half(d, h)   == [i \in Block |-> d[16 * h + i]]
Joined(a, b) == [i \in 0 .. 31 |-> IF i < 16 THEN a[i] ELSE b[i - 16]]

\* The data of a password, and what the telephone sends of it.
Filled(s)  == IF Len(s) = 32 THEN Padded(s) ELSE Padded(<<Len(s)>> \o s)
Hidden(d)  == Joined(aes_encrypt(Half(d, 0), AesKey), aes_encrypt(Half(d, 1), AesKey))

\* The password is decrypted in two halves.
Decrypted(file, k) ==
  LET d == file.data
  IN  Joined(aes_decrypt(Half(d, 0), k),
             IF file.keyLen > 16 THEN aes_decrypt(Half(d, 1), k) ELSE Half(d, 1))

\* Its length is the first byte, but of data that is full and does not begin with 31.
\* Mutant: data that is full is never taken for a password of 31.
LengthUnlessFull(d) == d[31] = 0

LengthFirst(d) == d[31] = 0 \/ d[0] = 31

KeyOf(d) == IF LengthFirst(d) THEN [i \in 1 .. d[0] |-> d[i]] ELSE [i \in 1 .. 32 |-> d[i - 1]]

-------------------------------------------------------------------------------
Init == /\ step = "idle" /\ keyFile = NONE /\ profileFile = NONE
        /\ key = NONE /\ profileArray = NONE
        /\ given = NONE /\ profile = NONE /\ outcome = NONE

\* The profiles are deleted and the key is written.
aes_write_key(ok) ==
  /\ step = "idle"
  /\ IF ok THEN keyFile' = AesKey /\ step' = "listening" ELSE step' = "failed" /\ UNCHANGED keyFile
  /\ UNCHANGED <<profileFile, key, profileArray, given, profile, outcome>>

TelephoneSends(n, first, security) ==
  LET s == Password(n, first) IN
  /\ step = "listening"
  /\ given' = [security |-> security, password |-> s]
  /\ profileFile' = [keyLen |-> 32, security |-> security, data |-> Hidden(Filled(s))]
  /\ step' = "key"
  /\ UNCHANGED <<keyFile, key, profileArray, profile, outcome>>

Returns(v) == step' = "done" /\ outcome' = v

aes_read_key(ok) ==
  /\ step = "key"
  /\ IF ok THEN key' = keyFile /\ step' = "profile" /\ UNCHANGED outcome
           ELSE Returns(EFAIL) /\ UNCHANGED key
  /\ UNCHANGED <<keyFile, profileFile, profileArray, given, profile>>

ReadProfile(ok) ==
  /\ step = "profile"
  /\ IF ok THEN profileArray' = profileFile /\ step' = "process" /\ UNCHANGED outcome
           ELSE Returns(EFAIL) /\ UNCHANGED profileArray
  /\ UNCHANGED <<keyFile, profileFile, key, given, profile>>

\* The chip answers with the number of the profile; of a security type that is not
\* known there is none, and the result stays that of the last read.
wlan_smart_config_process(ok) ==
  /\ step = "process"
  /\ LET p        == profileArray
         security == IF p.security = WLAN_SEC_WPA THEN WLAN_SEC_WPA2 ELSE p.security
         password == IF p.security = WLAN_SEC_UNSEC THEN <<>> ELSE KeyOf(Decrypted(p, key))
     IN  IF p.security \notin WLAN_SEC_UNSEC .. WLAN_SEC_WPA2 THEN Returns(0) /\ UNCHANGED profile
         ELSE IF ok THEN Returns(1) /\ profile' = [security |-> security, password |-> password]
         ELSE Returns(EFAIL) /\ UNCHANGED profile
  /\ UNCHANGED <<keyFile, profileFile, key, profileArray, given>>

Next == \/ \E ok \in BOOLEAN : \/ aes_write_key(ok) \/ aes_read_key(ok) \/ ReadProfile(ok)
                               \/ wlan_smart_config_process(ok)
        \/ \E n \in Lengths, first \in FirstBytes, security \in SecurityTypes :
             TelephoneSends(n, first, security)

Spec == Init /\ [][Next]_smartVars

-------------------------------------------------------------------------------
TypeOK ==
  /\ step \in {"idle", "listening", "key", "profile", "process", "done", "failed"}
  /\ keyFile \in {NONE, AesKey} /\ key \in {NONE, AesKey}
  /\ outcome \in {NONE, EFAIL, 0, 1}

\* The profile has the password that the telephone sent, but for one of 32 bytes
\* whose first is 31: it is taken for the length of one of 31.
ProfileIsWhatWasSent ==
  profile # NONE =>
    \/ profile.password = given.password
    \/ given.security = WLAN_SEC_UNSEC /\ profile.password = <<>>
    \/ Len(given.password) = 32 /\ given.password[1] = 31
===============================================================================
