---------------------------- MODULE Configuration ----------------------------
(***************************************************************************)
(* The configuration a process runs with (src/runtime/config.ts and the     *)
(* panel's part of it in src/integrations/control-panel.ts): defaults, over *)
(* them the mounted JSON file, over that the environment, under two names   *)
(* for most fields.  An operator edits the file, the environment or the     *)
(* mount between any two starts; a running process keeps what it loaded.    *)
(* A raw value is [quoted, text]: JSON `true` and "true" are not the same,  *)
(* and the environment only has text.                                       *)
(***************************************************************************)
EXTENDS Naturals, FiniteSets

CONSTANTS EditedFields,
          MaxEdits                  \* bound

VARIABLES mount, file, environment, process, edits

vars == <<mount, file, environment, process, edits>>

Quoted(t) == [quoted |-> TRUE, text |-> t]
Bare(t) == [quoted |-> FALSE, text |-> t]
Null == Bare("null")

\* The fields of SECTION_KEYS by the reader of their values, the default of an enumeration first.
OnFlags == {"mail.imapIdle", "mail.rspamdEnabled", "mail.clamavEnabled", "webAuth.recoveryCodes", "api.readOnly"}
OffFlags == {"ldap.enabled", "ldap.startTls", "postgres.enabled", "cpanel.enabled", "plesk.enabled",
             "mail.pop3sEnabled", "mail.catchAll", "mail.userForwarding", "alerting.enabled",
             "controlPanel.enabled", "controlPanel.allowDnsChanges"}
Numbers == {"schemaVersion", "runtime.port", "runtime.shutdownTimeoutMs",
            "ldap.connectTimeoutMs", "ldap.operationTimeoutMs", "ldap.poolMax", "ldap.retryAttempts",
            "postgres.port", "postgres.connectTimeoutMs", "postgres.idleTimeoutMs", "postgres.poolMax",
            "postgres.retryAttempts", "cpanel.timeoutMs", "plesk.timeoutMs",
            "mail.smtpInboundPort", "mail.smtpSubmissionPort", "mail.smtpImplicitTlsPort", "mail.imapsPort",
            "mail.maxMessageBytes", "mail.maxRecipients", "mail.maxConnectionsPerIp",
            "mail.maxMessagesPerUserPerMinute", "mail.queueMaxAttempts", "mail.queueRetryBaseMs",
            "retention.trashDays", "alerting.timeoutMs", "alerting.retryAttempts"}
Texts == {"buildVersion", "buildDigest", "project.displayName", "project.machineName",
          "runtime.host", "runtime.serviceName", "runtime.environment",
          "postgres.host", "postgres.database", "postgres.user", "cpanel.baseUrl", "plesk.baseUrl",
          "mail.lmtpSocket", "mail.mailboxRoot", "patching.statusFile"}
Optional == {"ldap.bindDn", "ldap.bindSecretRef", "ldap.userBaseDn", "postgres.dsnSecretRef",
             "cpanel.username", "cpanel.apiTokenSecretRef", "plesk.apiKeySecretRef",
             "alerting.webhookUrlSecretRef"}
PanelReferences == {"controlPanel.baseUrl", "controlPanel.accountRef",
                    "controlPanel.credentialSecretRef", "controlPanel.webhookSecretRef"}
PanelFields == PanelReferences \cup {"controlPanel.enabled", "controlPanel.provider",
                                      "controlPanel.syncMode", "controlPanel.allowDnsChanges"}
Choices(f) ==
    CASE f = "identity.source" -> <<"ldap", "database">>
      [] f = "ldap.url" -> <<"ldaps", "ldap">>
      [] f = "postgres.sslMode" -> <<"verify-full", "disable">>
      [] f = "controlPanel.provider" -> <<"none", "plesk", "cpanel">>
      [] f = "controlPanel.syncMode" -> <<"pull", "webhook", "hybrid">>
      [] f = "mail.smtpSubmissionTls" -> <<"starttls", "implicit">>
      [] f \in {"webAuth.totp", "webAuth.webauthn"} -> <<"optional", "disabled", "required">>
      [] f = "alerting.format" -> <<"generic", "slack", "discord">>
      [] f = "alerting.minSeverity" -> <<"warning", "critical">>
      [] f = "mail.scanFailureMode" -> <<"fail_closed">>
      [] f = "upgrade.strategy" -> <<"in_place">>
      [] f = "patching.mode" -> <<"build_and_operator">>
Chosen == {"identity.source", "ldap.url", "postgres.sslMode", "controlPanel.provider",
           "controlPanel.syncMode", "mail.smtpSubmissionTls", "webAuth.totp", "webAuth.webauthn",
           "alerting.format", "alerting.minSeverity", "mail.scanFailureMode", "upgrade.strategy",
           "patching.mode"}
Fields == OnFlags \cup OffFlags \cup Numbers \cup Texts \cup Optional \cup PanelReferences \cup Chosen

\* ENVIRONMENT_VARIABLES: how many names a field has, the first defined one counts.
FileOnly == {"project.displayName", "project.machineName", "controlPanel.allowDnsChanges"}
OneName == {"schemaVersion", "buildDigest", "runtime.serviceName", "runtime.shutdownTimeoutMs",
            "patching.mode", "patching.statusFile"}
NamesOf(f) == IF f \in FileOnly THEN {} ELSE IF f \in OneName THEN {1} ELSE {1, 2}
-----------------------------------------------------------------------------
\* The values a field may have, and the one it has when nobody names it.
NoText == ""
DefaultOf(f) ==
    CASE f \in OnFlags -> "true"
      [] f \in OffFlags -> "false"
      [] f \in Optional \cup PanelReferences -> NoText
      [] f \in Chosen -> Choices(f)[1]
      [] OTHER -> "standard"

\* readBoolean, readInteger, readPort, readHost, readEnum, readUrl, readHttpsUrl, readString and the
\* patterns: the texts a reader takes.  A boolean must not be quoted, a number may be.
Accepts(f, raw) ==
    CASE f \in OnFlags \cup OffFlags -> ~raw.quoted /\ raw.text \in {"true", "false"}
      [] f \in {"schemaVersion", "retention.trashDays"} -> raw.text = "standard"
      [] f \in Numbers \ {"schemaVersion", "retention.trashDays"} -> raw.text \in {"standard", "other"}
      [] f \in Chosen -> raw.quoted /\ \E i \in DOMAIN Choices(f) : Choices(f)[i] = raw.text
      [] OTHER -> raw.quoted /\ raw.text \in {"standard", "other"}

\* What the file has at a field: a `null` counts as nothing where the code says `??`, and is a
\* wrong value where it asks for `undefined`.
FileAccepted(f, raw) == IF raw = Null THEN f \notin Optional ELSE Accepts(f, raw)
FileNow == IF mount.state = "there" THEN file ELSE <<>>
FileValue(f) ==
    IF f \in DOMAIN FileNow /\ FileNow[f] # Null THEN FileNow[f].text ELSE DefaultOf(f)

\* Mutant: the last name counts.
NameThatCountsLast(f) == CHOOSE i \in NamesOf(f) : <<f, i>> \in DOMAIN environment
                                /\ \A j \in NamesOf(f) : <<f, j>> \in DOMAIN environment => j <= i
NamedInEnvironment(f) == \E i \in NamesOf(f) : <<f, i>> \in DOMAIN environment
\* getEnvironmentValue
NameThatCounts(f) == CHOOSE i \in NamesOf(f) : <<f, i>> \in DOMAIN environment
                            /\ \A j \in NamesOf(f) : <<f, j>> \in DOMAIN environment => i <= j

\* readEnvironmentBoolean, readEnvironmentInteger, readEnvironmentEnum, readEnvironmentString and
\* the optional references, which an empty text takes away, the user base alone excepted.
EnvironmentAccepted(f, text) ==
    \/ text = NoText /\ f \in (Optional \ {"ldap.userBaseDn"}) \cup PanelReferences
    \/ Accepts(f, IF f \in OnFlags \cup OffFlags THEN Bare(text) ELSE Quoted(text))

\* Mutant: an empty variable leaves a reference of the file in place.
OverriddenByText(f) ==
    IF NamedInEnvironment(f) /\ environment[<<f, NameThatCounts(f)>>] # NoText
    THEN environment[<<f, NameThatCounts(f)>>] ELSE FileValue(f)

\* applyEnvironmentValue
Overridden(f) ==
    IF NamedInEnvironment(f) THEN environment[<<f, NameThatCounts(f)>>] ELSE FileValue(f)

\* The cross checks of buildConfiguration, and those of createControlPanelConfig.
On(f) == Overridden(f) = "true"
Named(f) == Overridden(f) # NoText
ChecksPass ==
    /\ Overridden("project.displayName") = "standard" /\ Overridden("project.machineName") = "standard"
    /\ Overridden("identity.source") = "database" => On("postgres.enabled")
    /\ On("ldap.enabled") => Named("ldap.bindSecretRef") /\ Named("ldap.bindDn") /\ Named("ldap.userBaseDn")
    /\ ~(On("ldap.startTls") /\ Overridden("ldap.url") = "ldaps")
    /\ On("postgres.enabled") => Named("postgres.dsnSecretRef")
    /\ On("cpanel.enabled") => Named("cpanel.username") /\ Named("cpanel.apiTokenSecretRef")
    /\ On("plesk.enabled") => Named("plesk.apiKeySecretRef")
    /\ On("alerting.enabled") => Named("alerting.webhookUrlSecretRef")
    /\ ~On("mail.catchAll") /\ ~On("mail.userForwarding") /\ On("api.readOnly")
PanelPasses ==
    /\ ~On("controlPanel.allowDnsChanges")
    /\ Overridden("controlPanel.provider") = "none" =>
          ~On("controlPanel.enabled") /\ \A f \in PanelReferences : ~Named(f)
    /\ On("controlPanel.enabled") =>
          /\ \A f \in PanelReferences \ {"controlPanel.webhookSecretRef"} : Named(f)
          /\ Overridden("controlPanel.syncMode") # "pull" => Named("controlPanel.webhookSecretRef")

\* resolveConfigurationFile, readConfigurationFile: a missing file is no file unless it was asked for.
FileRead == mount.state = "there" \/ (mount.state = "missing" /\ ~mount.requested)
\* Mutant: what the environment overrides need not be right in the file.
FilePassesUnlessOverridden ==
    \A f \in DOMAIN FileNow : f \in Fields /\ (FileAccepted(f, FileNow[f]) \/ NamedInEnvironment(f))
\* assertKnownKeys, and every reader at its field; the panel's fields are taken as they are and
\* read by createControlPanelConfig only once the environment is over them.
FilePasses ==
    \A f \in DOMAIN FileNow :
        f \in Fields /\ (FileAccepted(f, FileNow[f]) \/ (f \in PanelFields /\ NamedInEnvironment(f)))
EnvironmentPasses ==
    \A f \in Fields : NamedInEnvironment(f) => EnvironmentAccepted(f, environment[<<f, NameThatCounts(f)>>])
Passes == FileRead /\ FilePasses /\ EnvironmentPasses /\ ChecksPass /\ PanelPasses

\* main: the configuration is loaded once, what it is not given it has from the defaults
Stopped == [state |-> "stopped", loaded |-> <<>>, from |-> <<>>]
Start ==
    /\ process.state # "running"
    /\ process' = IF Passes
                  THEN [state |-> "running", from |-> [file |-> FileNow, environment |-> environment],
                        loaded |-> [f \in {g \in Fields : Overridden(g) # DefaultOf(g)} |-> Overridden(f)]]
                  ELSE [Stopped EXCEPT !.state = "refused"]
    /\ UNCHANGED <<mount, file, environment, edits>>
Stop == process.state = "running" /\ process' = Stopped /\ UNCHANGED <<mount, file, environment, edits>>
-----------------------------------------------------------------------------
\* What an operator may write at a field, and where the edits begin.
Raws(f) ==
    {Null} \cup
    CASE f \in OnFlags \cup OffFlags -> {Bare("true"), Bare("false"), Quoted("true")}
      [] f \in Chosen -> {Quoted(Choices(f)[i]) : i \in DOMAIN Choices(f)} \cup {Quoted("bad")}
      [] f \in Numbers -> {Bare("other"), Quoted("other"), Bare("beyond")}
      [] OTHER -> {Quoted("other"), Quoted(NoText), Quoted("bad")}
Strange == {"ldap.bindPassword", "runtime.unknown"}

Directory == [f \in {"ldap.enabled", "ldap.bindDn", "ldap.bindSecretRef", "ldap.userBaseDn"} |->
                 IF f = "ldap.enabled" THEN Bare("true") ELSE Quoted("standard")]
Database == [f \in {"identity.source", "postgres.enabled", "postgres.dsnSecretRef"} |->
                CASE f = "identity.source" -> Quoted("database")
                  [] f = "postgres.enabled" -> Bare("true")
                  [] OTHER -> Quoted("standard")]
Panels == [f \in {"cpanel.enabled", "cpanel.username", "cpanel.apiTokenSecretRef", "plesk.enabled",
                  "plesk.apiKeySecretRef", "alerting.enabled", "alerting.webhookUrlSecretRef",
                  "controlPanel.enabled", "controlPanel.provider"} \cup PanelReferences |->
              CASE f \in OffFlags -> Bare("true")
                [] f = "controlPanel.provider" -> Quoted("cpanel")
                [] OTHER -> Quoted("standard")]

Init ==
    /\ file \in {<<>>, Directory, Database, Panels} /\ environment = <<>> /\ process = Stopped /\ edits = 0
    /\ mount = [requested |-> FALSE, state |-> IF file = <<>> THEN "missing" ELSE "there"]

With(part, key, value) == [k \in (DOMAIN part) \cup {key} |-> IF k = key THEN value ELSE part[k]]
Edit == edits < MaxEdits /\ edits' = edits + 1 /\ UNCHANGED process

EditFile ==
    /\ Edit /\ UNCHANGED <<environment, mount>> /\ mount.state = "there"
    /\ \E f \in EditedFields \cup Strange :
          \/ f \in DOMAIN file /\ file' = [k \in (DOMAIN file) \ {f} |-> file[k]]
          \/ f \in Fields /\ \E raw \in Raws(f) : file' = With(file, f, raw)
          \/ f \in Strange /\ file' = With(file, f, Quoted("other"))
EditEnvironment ==
    /\ Edit /\ UNCHANGED <<file, mount>>
    /\ \E f \in EditedFields : \E i \in NamesOf(f), raw \in Raws(f) \ {Null} :
          environment' = With(environment, <<f, i>>, raw.text)
Remount ==
    /\ Edit /\ UNCHANGED <<file, environment>>
    /\ mount' \in [requested : BOOLEAN, state : {"there", "missing", "broken"}] \ {mount}

Next == Start \/ Stop \/ EditFile \/ EditEnvironment \/ Remount

Spec == Init /\ [][Next]_vars
-----------------------------------------------------------------------------
TypeOK ==
    /\ mount \in [requested : BOOLEAN, state : {"there", "missing", "broken"}]
    /\ DOMAIN file \subseteq Fields \cup Strange /\ DOMAIN environment \subseteq Fields \X {1, 2}
    /\ process.state \in {"stopped", "running", "refused"}
    /\ DOMAIN process.loaded \subseteq Fields
    /\ edits \in 0 .. MaxEdits

Runs(f) == IF f \in DOMAIN process.loaded THEN process.loaded[f] ELSE DefaultOf(f)
Enabled(f) == Runs(f) = "true"

\* createLdapIdentityClient, createPostgresStore, the panels' identity clients and the alert
\* delivery: what each asks of its section when it is made, at the first sign-in or at the start.
LdapClientMade ==
    /\ \A f \in {"ldap.bindSecretRef", "ldap.bindDn", "ldap.userBaseDn"} : Runs(f) # NoText
    /\ (Runs("ldap.url") = "ldap") = Enabled("ldap.startTls")
PostgresStoreMade == Runs("postgres.dsnSecretRef") # NoText
CpanelClientMade ==
    Runs("cpanel.apiTokenSecretRef") # NoText /\ Runs("cpanel.baseUrl") # NoText /\ Runs("cpanel.username") # NoText
PleskClientMade == Runs("plesk.apiKeySecretRef") # NoText /\ Runs("plesk.baseUrl") # NoText
AlertDeliveryMade == Runs("alerting.webhookUrlSecretRef") # NoText

\* A process that came up can make every client it is told to use, whoever edited what between
\* its starts, and the store its identities are in.  The directory over ldap:// without StartTLS
\* is not covered: config.ts lets it through and ldap-client.ts refuses it at every sign-in, as
\* doc/identity-and-postgres.md promises that it is not accepted.
ClientsCanBeMade ==
    process.state = "running" =>
        /\ Enabled("ldap.enabled") =>
              LdapClientMade \/ (Runs("ldap.url") = "ldap" /\ ~Enabled("ldap.startTls"))
        /\ Enabled("postgres.enabled") => PostgresStoreMade
        /\ Runs("identity.source") = "database" => Enabled("postgres.enabled")
        /\ Enabled("cpanel.enabled") => CpanelClientMade
        /\ Enabled("plesk.enabled") => PleskClientMade
        /\ Enabled("alerting.enabled") => AlertDeliveryMade

\* What runs is what was said first: the product's variable before the plain one, a variable before
\* the file, even to take a reference away.  A file with one wrong value never runs, whatever the
\* environment says instead of it; the control panel's fields alone may be wrong where the
\* environment names them, and even then what is wrong does not run (buildConfiguration in
\* config.ts, createControlPanelConfig in control-panel.ts).
FirstSaidRuns ==
    process.state = "running" =>
        \A f \in Fields :
            LET said == {i \in {1, 2} : <<f, i>> \in DOMAIN process.from.environment}
                filed == f \in DOMAIN process.from.file /\ process.from.file[f] # Null
            IN  /\ 1 \in said => Runs(f) = process.from.environment[<<f, 1>>]
                /\ said = {2} => Runs(f) = process.from.environment[<<f, 2>>]
                /\ said = {} /\ filed => Runs(f) = process.from.file[f].text
                /\ said = {} /\ ~filed => Runs(f) = DefaultOf(f)
                /\ filed /\ ~(f \in PanelFields /\ said # {}) =>
                       process.from.file[f].text \notin {"bad", "beyond", NoText}
                /\ Runs(f) \notin {"bad", "beyond"}

ConfigurationHolds == ClientsCanBeMade /\ FirstSaidRuns
=============================================================================
