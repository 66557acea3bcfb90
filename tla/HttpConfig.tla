----------------------------- MODULE HttpConfig -----------------------------
(***************************************************************************)
(* Home Assistant's http configuration: the slots in which it keeps it and *)
(* what the operator does about them at the end of each reconcile of a     *)
(* HomeAssistantConfiguration (http_config.go, http_config_fields.go and   *)
(* haclient/http_config.go).  ConfigReload has the rest of the reconcile.  *)
(*                                                                         *)
(* Since 2026.8 Home Assistant keeps its http configuration itself: a      *)
(* configuration it is sent is pending until it is promoted, becomes       *)
(* stable then, and is dropped after five minutes otherwise.  Before, it   *)
(* reads the http section of configuration.yaml.                           *)
(*                                                                         *)
(* A section of the file is one of a few: none; "bare", which spells a     *)
(* network as an address; "bad", which Home Assistant refuses; "include",  *)
(* which names another file; and "proxies", the operator's default for an  *)
(* exposed instance.                                                       *)
(***************************************************************************)
EXTENDS Integers

VARIABLES
    up,          \* Home Assistant answers, and the operator has its token
    supported,   \* it has the http configuration API
    stable,      \* the configuration it runs with
    pending      \* the one that waits for confirmation

slots == <<stable, pending>>
httpVars == <<up, supported, slots>>

Sections == {"none", "bare", "bad", "include", "proxies"}
\* The options the operator knows, and one it does not.
Settings == [known : {"none", "network", "bad", "proxies"}, extra : {0, 1}]
NoSettings == [known |-> "none", extra |-> -1]
NotPending == [data |-> NoSettings, error |-> FALSE]
Pending(data) == [data |-> data, error |-> data.known = "bad"]
Conditions == {"none", "waiting", "yaml", "unreadable", "rejected", "applied", "foreign"}

HttpTypeOK ==
    /\ {up, supported} \subseteq BOOLEAN /\ stable \in Settings
    /\ pending \in [data : Settings, error : BOOLEAN] \cup {NotPending}

-----------------------------------------------------------------------------
(* Reading the section.                                                     *)

\* injectTrustedProxies: an exposed instance gets defaults if it sets nothing itself.
Injected(section, exposed) == IF exposed /\ section = "none" THEN "proxies" ELSE section

\* readHTTPSection: anything but a mapping cannot be read.
Readable(section) == section # "include"

\* What decideHTTPConfigPath finds out.
Unknown == [path |-> "undetermined", stable |-> NoSettings, pending |-> NotPending]
Probed == IF ~up THEN Unknown
          ELSE IF ~supported THEN [Unknown EXCEPT !.path = "yaml"]
          ELSE [path |-> "api", stable |-> stable, pending |-> pending]

\* The section leaves the file when it is delivered through the API.
Delivers(probe, section) == probe.path = "api" /\ Readable(section)

\* stripHTTPSection.
Stripped(probe, section, inFile) == IF Delivers(probe, section) THEN "none" ELSE inFile

-----------------------------------------------------------------------------
(* Delivery.                                                                *)

\* Mutation of Canonical: networks stay as they were spelled.
Verbatim(section) == section

\* canonicalizeTrustedProxies, for the operator as for Home Assistant.
Canonical(section) == IF section = "bare" THEN "network" ELSE section

\* The section over the defaults, and what the operator does not know as it is.
Desired(section, current) == [known |-> Canonical(section), extra |-> current.extra]

\* Mutation of Verdict: any pending configuration is confirmed.
VerdictOfAny(probe, desired) ==
    IF probe.pending # NotPending THEN IF probe.pending.error THEN "clear" ELSE "promote"
    ELSE IF probe.stable = desired THEN "applied" ELSE "configure"

\* What reconcileHTTPConfig does about the slots as they were probed.
Verdict(probe, desired) ==
    IF probe.pending # NotPending
    THEN IF probe.pending.error THEN "clear"
         ELSE IF probe.pending.data = desired THEN "promote" ELSE "foreign"
    ELSE IF probe.stable = desired THEN "applied" ELSE "configure"

\* The three calls.  A new configuration may make Home Assistant restart itself.
Normal(known) == IF known = "bare" THEN "network" ELSE known
Configure(data) ==
    /\ up /\ pending' = Pending([data EXCEPT !.known = Normal(@)]) /\ up' \in BOOLEAN /\ UNCHANGED stable
ClearPending == up /\ pending' = NotPending /\ UNCHANGED <<up, stable>>
Promotes == up /\ pending # NotPending /\ ~pending.error
Promote == Promotes /\ stable' = pending.data /\ pending' = NotPending /\ UNCHANGED up

\* The calls' effects and the condition that follows; `lost` is for a call that fails.
Delivery(probe, section, condition, lost) ==
    LET verdict == Verdict(probe, Desired(section, probe.stable)) IN
    /\ UNCHANGED supported
    /\ \/ /\ ~Delivers(probe, section) /\ UNCHANGED httpVars
          /\ condition = CASE probe.path = "undetermined" -> "waiting"
                           [] probe.path = "yaml" -> "yaml"
                           [] OTHER -> "unreadable"
       \/ /\ Delivers(probe, section) /\ ~lost
          /\ \/ verdict = "clear" /\ ClearPending /\ condition = "rejected"
             \/ verdict = "promote" /\ Promote /\ condition = "applied"
             \/ verdict = "configure" /\ condition = "waiting"
                /\ Configure(Desired(section, probe.stable))
             \/ verdict \in {"foreign", "applied"} /\ condition = verdict /\ UNCHANGED httpVars
       \/ /\ Delivers(probe, section) /\ verdict \in {"clear", "promote", "configure"}
          /\ lost \/ ~up \/ (verdict = "promote" /\ ~Promotes)
          /\ condition = "rejected" /\ UNCHANGED httpVars

-----------------------------------------------------------------------------
(* Home Assistant and its users.                                            *)

HttpInit ==
    /\ up \in BOOLEAN /\ supported \in BOOLEAN
    /\ stable = [known |-> "none", extra |-> 0] /\ pending = NotPending

Restarted == ~up /\ up' = TRUE /\ UNCHANGED <<supported, slots>>

\* After five minutes without a confirmation.
Revert == up /\ pending # NotPending /\ ~pending.error /\ pending' = NotPending
          /\ up' \in BOOLEAN /\ UNCHANGED <<supported, stable>>

GoesDown == up /\ up' = FALSE /\ UNCHANGED <<supported, slots>>

\* A newer version takes over the settings of the file it finds, or does not.
Upgrade(inFile) ==
    /\ ~supported /\ supported' = TRUE /\ up' = FALSE /\ UNCHANGED pending
    /\ stable' \in {stable} \cup
           (IF inFile \in {"bare", "proxies"} THEN {[stable EXCEPT !.known = Normal(inFile)]}
            ELSE {})

\* A user changes a setting in Home Assistant's UI, or confirms what is pending.
UserConfigures ==
    /\ up /\ supported /\ UNCHANGED <<up, supported, stable>>
    /\ \E data \in [known : {"none", "network"}, extra : {0, 1}] :
           data # stable /\ pending' = Pending(data)
UserConfirms == up /\ Promote /\ UNCHANGED supported
=============================================================================
