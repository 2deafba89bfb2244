------------------------- MODULE MCNetRemoteService -------------------------
(***************************************************************************)
(* Requests for the model checker.  One thread is given the long ones: an    *)
(* Enable with a PHY type, passwords and a 6 GHz band, and one whose second  *)
(* cipher suite hostapd has no value for.  The other is given one request of *)
(* each of the other APIs, valid and not, and a short Enable.                *)
(***************************************************************************)
EXTENDS NetRemoteService

CONSTANTS t1, t2

MCThreads == {t1, t2}

PhyType(type, supported) ==
    [kind |-> "phyType", valid |-> TRUE, type |-> type, supported |-> supported]
Bands(six) == [kind |-> "bands", valid |-> TRUE, sixGHz |-> six, supported |-> TRUE]
Dot1x(servers) ==
    [kind |-> "dot1x", valid |-> TRUE, complete |-> TRUE, servers |-> servers]
Passwords(n) == [kind |-> "data", valid |-> TRUE, psk |-> n = 1, sae |-> n]
Ssid(valid) == [kind |-> "ssid", valid |-> valid]

Enable(items) == [api |-> "Enable", items |-> items]
SetItem(item) == [api |-> "Set", item |-> item]
Disable == [api |-> "Disable"]

Secured == Enable({PhyType("N", TRUE), Passwords(2), Bands(TRUE)})

Enterprise ==
    Enable({[kind |-> "algorithms", valid |-> TRUE, known |-> TRUE],
            [kind |-> "akmSuites", valid |-> TRUE, akms |-> {"ft", "8021x"}],
            [kind |-> "ciphers", valid |-> TRUE,
             suites |-> <<[prop |-> "rsn_pairwise", ciphers |-> TRUE],
                          [prop |-> "wpa_pairwise", ciphers |-> FALSE]>>]})

MCRequests ==
    t1 :> {Secured, Enterprise}
    @@ t2 :> {Enable({Passwords(1)}), Disable, SetItem(Ssid(TRUE)), SetItem(Ssid(FALSE)),
              SetItem(PhyType("AC", FALSE)), SetItem(Bands(TRUE)),
              SetItem(Dot1x(<<"auth_server", "unknown">>)),
              SetItem([kind |-> "bridge", valid |-> TRUE])}

MCSwitchRequests == [t \in MCThreads |-> {Enable({}), Disable}]
=============================================================================
