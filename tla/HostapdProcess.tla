--------------------------- MODULE HostapdProcess ---------------------------
(***************************************************************************)
(* The hostapd process of one interface, as the Hostapd class uses it        *)
(* (external).  A SET changes the configuration hostapd holds; "Reload ...   *)
(* will cause any settings that have been changed to take effect"            *)
(* (IHostapd.hxx), and so does ENABLE.  A band change needs neither.  The    *)
(* process may stop and be started again, from its file.                     *)
(***************************************************************************)
EXTENDS Integers

CONSTANTS
    FileValue,      \* the value of a property in hostapd's file
    MaxRestarts     \* bound: how often hostapd is started again

ASSUME ProcessAssumption == MaxRestarts \in Nat

Properties ==
    {"hw_mode", "ieee80211ax", "disable_11ax", "ieee80211ac", "disable_11ac",
     "wmm_enabled", "ieee80211n", "disable_11n", "setband", "ieee80211w",
     "auth_algs", "psk", "sae_password", "nas_identifier", "ieee8021x",
     "wpa_key_mgmt", "wpa_pairwise", "rsn_pairwise", "ssid", "bridge",
     "auth_server", "acct_server", "eap_server", "own_ip_addr"}

\* Changes of these take effect at once.
Immediate == {"setband"}

VARIABLES
    up,          \* the process runs: its control socket can be connected to
    epoch,       \* how often it was started; a connection belongs to one start
    state,       \* STARTING: COUNTRY_UPDATE, ACS, HT_SCAN, DFS or NO_IR
    staged,      \* per property, the values it holds
    running      \* per property, the values in effect

hostapdVars == <<up, epoch, state, staged, running>>

FileConfiguration == [p \in Properties |-> {FileValue}]

HostapdInit ==
    /\ up = TRUE /\ epoch = 1 /\ state \in {"DISABLED", "ENABLED"}
    /\ staged = FileConfiguration /\ running = FileConfiguration

-----------------------------------------------------------------------------
(* What a command does when it is accepted.                                  *)

Put(p, values) ==
    /\ staged' = [staged EXCEPT ![p] = values]
    /\ running' = IF p \in Immediate THEN [running EXCEPT ![p] = values] ELSE running
    /\ UNCHANGED <<up, epoch, state>>

ReloadConfiguration == running' = staged /\ UNCHANGED <<up, epoch, state, staged>>

EnableInterface ==
    /\ state = "DISABLED" /\ state' \in {"STARTING", "ENABLED"}
    /\ running' = staged
    /\ UNCHANGED <<up, epoch, staged>>

DisableInterface ==
    state # "DISABLED" /\ state' = "DISABLED" /\ UNCHANGED <<up, epoch, staged, running>>

\* IsHostapdStateOperational of the state hostapd reports.
Operational == state \in {"STARTING", "ENABLED"}

-----------------------------------------------------------------------------
(* What it does by itself.                                                   *)

StartingEnds ==
    state = "STARTING" /\ state' \in {"ENABLED", "DISABLED"}
    /\ UNCHANGED <<up, epoch, staged, running>>

RadarDetected ==
    state = "ENABLED" /\ state' = "STARTING" /\ UNCHANGED <<up, epoch, staged, running>>

Stops == up /\ up' = FALSE /\ state' = "DISABLED" /\ UNCHANGED <<epoch, staged, running>>

Starts ==
    /\ ~up /\ epoch <= MaxRestarts /\ epoch' = epoch + 1 /\ up' = TRUE
    /\ state' \in {"DISABLED", "ENABLED"}
    /\ staged' = FileConfiguration /\ running' = FileConfiguration
=============================================================================
