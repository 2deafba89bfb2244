---------------------------- MODULE WpaResponses ----------------------------
(***************************************************************************)
(* How hostapd's replies of key=value lines are read.  A reply is a         *)
(* sequence of lines [key, index, parts]: the key without the number in     *)
(* brackets, the number (a sequence of at most one) and what is between the *)
(* equals signs after the key.  (hostapd's value has equals signs of its    *)
(* own where a name does.)                                                  *)
(***************************************************************************)
EXTENDS ProtocolHostapd

\* The number is not part of the key a value is kept under: of bss[0] and bss[1]
\* the last is kept.  Nothing checks that what a parser requires was found.
TryParseProperties(lines) ==
    LET Usable(i) == lines[i].key # "" /\ lines[i].parts # <<>>
        Keys == {lines[i].key : i \in {j \in DOMAIN lines : Usable(j)}}
        LastLine(key) == CHOOSE i \in DOMAIN lines :
            /\ Usable(i) /\ lines[i].key = key
            /\ \A j \in i + 1 .. Len(lines) : ~(Usable(j) /\ lines[j].key = key)
    IN  [key \in Keys |-> [value |-> lines[LastLine(key)].parts[1],
                           index |-> lines[LastLine(key)].index]]

\* A number that cannot be read leaves the field at its default.
StatusNumbers ==
    [ieee80211n |-> 0, disable_11n |-> 0, ieee80211ac |-> 0, disable_11ac |-> 0,
     ieee80211ax |-> 0, disable_11ax |-> 0]
BssKeys == {"bss", "bssid", "ssid", "num_sta"}

\* A key of a BSS without a number throws: no status.
StatusParsePayload(lines) ==
    LET properties == TryParseProperties(lines)
        Number(key) == IF key \in DOMAIN properties /\ properties[key].value \in Nat
                       THEN properties[key].value ELSE StatusNumbers[key]
        bss == BssKeys \cap DOMAIN properties
    IN  IF \E key \in bss : properties[key].index = <<>> THEN <<>>
        ELSE <<[State |-> IF "state" \notin DOMAIN properties THEN "Unknown"
                          ELSE HostapdInterfaceStateFromString(properties["state"].value),
                Phy |-> [key \in DOMAIN StatusNumbers |-> Number(key)],
                Bss |-> [key \in bss |-> properties[key]]]>>

\* hostapd's reply to STATUS (external), of a state and one BSS.
StatusReply(state) ==
    LET Line(key, index, value) == [key |-> key, index |-> index, parts |-> <<value>>]
    IN  <<Line("state", <<>>, state), Line("bss", <<0>>, "wlan"), Line("num_sta", <<0>>, 0)>>

\* (GetOperationalState) every state but ENABLED is taken for disabled.
OperationalState(lines) ==
    IF StatusParsePayload(lines)[1].State = "Enabled" THEN "Enabled" ELSE "Disabled"
=============================================================================
