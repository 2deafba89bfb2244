---------------------------- MODULE Nl80211Wiphy ----------------------------
(***************************************************************************)
(* What the server learns of a radio: the kernel's nl80211 answers parsed   *)
(* and turned into the capabilities it offers to clients and checks their   *)
(* requests against.                                                        *)
(*                                                                         *)
(* A kernel message is the record of its attributes, each a sequence of at  *)
(* most one element; "readable" is false where nla_parse fails (the code's  *)
(* check of the header before it never does).  A suite is its selector, or  *)
(* "unnamed" where the code has no enumerator for it.                       *)
(***************************************************************************)
EXTENDS Dot11Adapters

Nl80211WpaVersionToIeee80211SecurityProtocol(version) ==
    CASE version = 1 -> "Wpa" [] version = 2 -> "Wpa2" [] version = 3 -> "Wpa3"
      [] OTHER -> "Unknown"

\* A cast: a selector is its enumerator where there is one.
Nl80211CipherSuiteToIeee80211CipherSuite(selector) ==
    IF \E c \in Ieee80211CipherSuite : CipherSelector(c) = selector
    THEN CHOOSE c \in Ieee80211CipherSuite : CipherSelector(c) = selector ELSE "unnamed"

Nl80211AkmSuiteToIeee80211AkmSuite(selector) ==
    IF \E a \in Ieee80211AkmSuite : AkmSelector(a) = selector
    THEN CHOOSE a \in Ieee80211AkmSuite : AkmSelector(a) = selector ELSE "unnamed"

\* The 60 GHz band is taken for the 6 GHz one, which is not known.
Nl80211BandToIeee80211FrequencyBand(band) ==
    CASE band = "2GHZ"  -> "TwoPointFourGHz"
      [] band = "5GHZ"  -> "FiveGHz"
      [] band = "60GHZ" -> "SixGHz"
      [] OTHER -> "Unknown"

Nl80211WiphyToIeee80211PhyTypes(wiphy) ==
    LET Some(field) == \E b \in DOMAIN wiphy.Bands : wiphy.Bands[b][field] # 0
    IN  {"B", "G"} \cup (IF Some("HtCapabilities") THEN {"N"} ELSE {})
                   \cup (IF Some("VhtCapabilities") THEN {"AC"} ELSE {})

-----------------------------------------------------------------------------
WiphyBandFrequencyParse(frequency) ==
    IF ~frequency.readable \/ frequency.freq = <<>> THEN <<>>
    ELSE <<[Frequency |-> frequency.freq[1], FrequencyOffset |-> frequency.offset,
            IsDisabled |-> frequency.disabled]>>

\* An unreadable frequency is skipped, an unreadable bit rate gives the band up.
Nl80211WiphyBandParse(band) ==
    IF ~band.readable \/ \E i \in DOMAIN band.rates : ~band.rates[i].readable THEN <<>>
    ELSE <<[HtCapabilities  |-> Optional(band.htCapa, 0),
            VhtCapabilities |-> Optional(band.vhtCapa, 0),
            VhtMcsSet       |-> IF band.vhtCapa = <<>> THEN <<>> ELSE band.vhtMcsSet,
            Frequencies     |-> FlattenSeq(Each(WiphyBandFrequencyParse, band.freqs)),
            BitRates        |-> FlattenSeq([i \in DOMAIN band.rates |-> band.rates[i].rate])]>>

\* Some suite of the radio is one of the protocol's, not necessarily of it alone.
IsWpaVersionSupportedByCipherSuites(version, cipherSuites) ==
    \E s \in cipherSuites : Nl80211CipherSuiteToIeee80211CipherSuite(s)
        \in WpaCipherSuites(Nl80211WpaVersionToIeee80211SecurityProtocol(version))

IsWpaVersionSupportedByAkmSuites(version, akmSuites) ==
    \E s \in akmSuites : Nl80211AkmSuiteToIeee80211AkmSuite(s)
        \in WpaAkmSuites(Nl80211WpaVersionToIeee80211SecurityProtocol(version))

IsWpaVersionSupported(version, cipherSuites, akmSuites) ==
    /\ IsWpaVersionSupportedByCipherSuites(version, cipherSuites)
    /\ IsWpaVersionSupportedByAkmSuites(version, akmSuites)

\* Nothing without an index and a name; no AKM suites reported is all of them.
Nl80211WiphyParse(message) ==
    LET akmSuites    == Optional(message.akmSuites, AllIeee80211Akms)
        cipherSuites == Optional(message.cipherSuites, {})
        Parsed(b)    == Nl80211WiphyBandParse(message.bands[b])
        bands == {b \in DOMAIN message.bands : b # "NUM_BANDS" /\ Parsed(b) # <<>>}
    IN  IF ~message.readable \/ message.wiphy = <<>> \/ message.wiphyName = <<>> THEN <<>>
        ELSE <<[Index |-> message.wiphy[1], Name |-> message.wiphyName[1],
                AkmSuites |-> akmSuites, CipherSuites |-> cipherSuites,
                Bands |-> [b \in bands |-> Parsed(b)[1]],
                SupportedInterfaceTypes |-> Optional(message.iftypes, {}),
                SupportsRoaming |-> message.roamSupport,
                WpaVersions |-> {v \in 1 .. 3 :
                                    IsWpaVersionSupported(v, cipherSuites, akmSuites)}]>>

\* The kernel's answer, if the exchange with it succeeds.
Nl80211WiphyFromId(exchange, wiphys, id) ==
    IF exchange = "ok" /\ id \in DOMAIN wiphys THEN Nl80211WiphyParse(wiphys[id]) ELSE <<>>

Nl80211WiphyFromIndex(exchange, wiphys, index) == Nl80211WiphyFromId(exchange, wiphys, index)

\* interfaces: from the names of the interfaces that exist to their wiphy.
Nl80211WiphyFromInterfaceName(exchange, wiphys, interfaces, name) ==
    IF name \notin DOMAIN interfaces THEN <<>>
    ELSE Nl80211WiphyFromId(exchange, wiphys, interfaces[name])

-----------------------------------------------------------------------------
Nl80211AccessPointInterfaceTypes == {"AP", "AP_VLAN"}

\* The attributes are read whether they are there or not: for a device without
\* a network interface, as a P2P device is, there is no name to read, and the
\* process ends reading it.
Nl80211InterfaceParse(message) ==
    IF ~message.readable THEN <<>>
    ELSE <<[Name |-> Optional(message.ifname, "undefined"), MacAddress |-> message.mac,
            Index |-> message.ifindex, Type |-> message.iftype,
            WiphyIndex |-> message.wiphy]>>

\* The interfaces of a dump.
Nl80211InterfaceEnumerate(exchange, messages) ==
    LET parsed == UNION {ToSet(Nl80211InterfaceParse(m)) : m \in messages}
    IN  IF exchange # "ok" THEN {} ELSE parsed

IsAccessPoint(interface) == interface.Type \in Nl80211AccessPointInterfaceTypes

SupportsAccessPointMode(exchange, wiphys, interface) ==
    LET wiphy == Nl80211WiphyFromIndex(exchange, wiphys, interface.WiphyIndex)
    IN  /\ wiphy # <<>>
        /\ wiphy[1].SupportedInterfaceTypes \cap Nl80211AccessPointInterfaceTypes # {}

-----------------------------------------------------------------------------
\* What the access point controller reports, or that there is no such radio.
GetCapabilities(wiphy) ==
    IF wiphy = <<>> THEN [status |-> "AccessPointInvalid", capabilities |-> <<>>]
    ELSE [status |-> "Succeeded",
          capabilities |->
            <<[PhyTypes |-> Nl80211WiphyToIeee80211PhyTypes(wiphy[1]),
               FrequencyBands |-> {Nl80211BandToIeee80211FrequencyBand(b) :
                                    b \in DOMAIN wiphy[1].Bands},
               AkmSuites |-> {Nl80211AkmSuiteToIeee80211AkmSuite(s) :
                                    s \in wiphy[1].AkmSuites},
               CipherSuites |-> {Nl80211CipherSuiteToIeee80211CipherSuite(s) :
                                    s \in wiphy[1].CipherSuites},
               SecurityProtocols |-> {Nl80211WpaVersionToIeee80211SecurityProtocol(v) :
                                    v \in wiphy[1].WpaVersions}]>>]

Ieee80211AccessPointCapabilities ==
    [SecurityProtocols : SUBSET Ieee80211SecurityProtocol,
     PhyTypes : SUBSET Ieee80211PhyType,
     FrequencyBands : SUBSET Ieee80211FrequencyBand,
     AkmSuites : SUBSET (Ieee80211AkmSuite \cup {"unnamed"}),
     CipherSuites : SUBSET (Ieee80211CipherSuite \cup {"unnamed"})]
=============================================================================
