------------------------------ MODULE Discovery ------------------------------
(***************************************************************************)
(* What a mail or calendar client is told about a tenant's services         *)
(* (src/core/dav/discovery/index.ts): the tenant configures a service, may  *)
(* override it, and a user may bring an override of their own.  One service *)
(* and the settings that are named for it; the contract is made of them     *)
(* again after every change, and a client may ask for the document, the     *)
(* redirect, the autoconfiguration or the service itself.                   *)
(***************************************************************************)
EXTENDS Naturals

CONSTANTS MaxSettings               \* bound

VARIABLES service, configured, override, own, named

vars == <<service, configured, override, own, named>>

Services == {"imap", "smtp", "pop3s", "caldav"}
Unnamed == "unnamed"
Values ==
    [enabled |-> {"true", "false", "text"}, host |-> {"public", "private"}, port |-> {"own", "beyond"},
     tls |-> {"true", "false", "starttls"}, tlsMode |-> {"implicit", "starttls", "none"},
     username |-> {"own", "spaced"}, path |-> {"own", "climbing"}, other |-> {"x"}]
Nothing == [k \in DOMAIN Values |-> Unnamed]
-----------------------------------------------------------------------------
\* SERVICE_DEFINITIONS
DefaultMode(s) == IF s = "smtp" THEN "starttls" ELSE "implicit"
HasPath(s) == s = "caldav"

\* An endpoint is refused, off, or on with the fields it has.
Endpoint(state, fields) == [state |-> state, fields |-> fields]
NoFields == [k \in {"host", "port", "tlsMode", "username", "path"} |-> Unnamed]
Refused == Endpoint("refused", NoFields)
Off == Endpoint("off", NoFields)

\* Mutant: what is not said about POP3S turns it on like every other service.
TurnedOnByDefault(s, input) == input.enabled # "false"
\* The default of `enabled`: POP3S is on only when it is said to be, in an override too.
TurnedOn(s, input) == IF input.enabled = Unnamed THEN s # "pop3s" ELSE input.enabled # "false"

\* The mode is the one named, by `tlsMode` before `tls`; `true` alone asks for the default one.
TlsInput(input) == IF input.tlsMode # Unnamed THEN input.tlsMode ELSE input.tls

\* normalizeHost, isPrivateOrReservedAddress
HostRefused(host) == host = "private"
\* normalizeTls: plaintext is refused
TlsRefused(input) ==
    \/ input.tls \notin {Unnamed, "true"} /\ input.tlsMode # Unnamed
    \/ TlsInput(input) \in {"false", "none"}
\* normalizePath, and a path is for the DAV services only
PathRefused(s, path) == path = "climbing" \/ (path # Unnamed /\ ~HasPath(s))

\* normalizeEndpoint: a partial one keeps open what its input does not name, and does not mind an
\* `enabled` that is no boolean.
Normalized(s, input, partial) ==
    LET Filled(value, default) == IF value = Unnamed /\ ~partial THEN default ELSE value
    IN  IF input.other # Unnamed \/ (input.enabled = "text" /\ ~partial) THEN Refused
        ELSE IF ~TurnedOn(s, input) THEN Off
        ELSE IF \/ HostRefused(input.host) \/ input.port = "beyond" \/ TlsRefused(input)
                \/ input.username = "spaced" \/ PathRefused(s, input.path) THEN Refused
        ELSE Endpoint("on", [host |-> Filled(input.host, "domain"), port |-> Filled(input.port, "standard"),
                             username |-> Filled(input.username, "address"),
                             path |-> IF HasPath(s) THEN Filled(input.path, "standard") ELSE Unnamed,
                             tlsMode |-> IF TlsInput(input) = "true" THEN DefaultMode(s)
                                         ELSE Filled(TlsInput(input), DefaultMode(s))])

\* The input an endpoint would be given again as.
AsInput(e) ==
    [k \in DOMAIN Nothing |->
        CASE k = "enabled" -> IF e.state = "on" THEN "true" ELSE "false"
          [] k = "tls" -> IF e.state = "on" THEN "true" ELSE Unnamed
          [] k \in DOMAIN NoFields -> e.fields[k]
          [] OTHER -> Unnamed]

\* Mutant: what the override leaves open is filled with the defaults, not with the tenant's own.
MergedWithDefaults(s, base, input) ==
    LET over == Normalized(s, input, TRUE)
    IN  IF over.state # "on" THEN over ELSE IF base.state = "off" THEN Refused
        ELSE Normalized(s, AsInput(over), FALSE)

\* mergeEndpoint
Merged(s, base, input) ==
    LET over == Normalized(s, input, TRUE)
        both == [k \in DOMAIN NoFields |-> IF over.fields[k] # Unnamed THEN over.fields[k] ELSE base.fields[k]]
    IN  IF over.state # "on" THEN over ELSE IF base.state = "off" THEN Refused
        ELSE Normalized(s, AsInput(Endpoint("on", both)), FALSE)

\* createDiscoveryContract: the service as configured and as overridden
Base == Normalized(service, configured, FALSE)
Published ==
    IF Base.state = "refused" \/ override = Nothing THEN Base ELSE Merged(service, Base, override)
Created == Base.state # "refused" /\ Published.state # "refused"

\* assertDiscoveryContract: what was created is read again before every use.
Asserted == \A e \in {Base, Published} : Normalized(service, AsInput(e), FALSE).state # "refused"

\* publicDiscoveryDocument and buildDiscoveryDocument, the redirect of getWellKnownResource and
\* autoconfigXml: the tenant's own requests only.
Usable == Created /\ Asserted
Document(own_tenant) == IF Usable /\ own_tenant THEN Published ELSE Refused
Redirect(own_tenant) ==
    IF Usable /\ own_tenant /\ HasPath(service) /\ Published.state = "on" THEN Published ELSE Refused
Autoconfig(own_tenant) ==
    IF Usable /\ own_tenant /\ service \in {"imap", "smtp"} /\ Published.state = "on" THEN Published ELSE Refused

\* Mutant: the service as configured, whatever the tenant's override says.
ResolvedAsConfigured(user) ==
    IF ~Usable \/ Base.state # "on" THEN Refused
    ELSE LET e == IF user = Nothing THEN Base ELSE Merged(service, Base, user)
         IN  IF e.state = "on" THEN e ELSE Refused

\* resolveDiscoveryService: a user's override is laid over the service as configured, not over the
\* tenant's override.
Resolved(user) ==
    IF ~Usable \/ Base.state # "on" THEN Refused
    ELSE LET e == IF user = Nothing THEN Published ELSE Merged(service, Base, user)
         IN  IF e.state = "on" THEN e ELSE Refused
-----------------------------------------------------------------------------
Init == service \in Services /\ configured = Nothing /\ override = Nothing /\ own = Nothing /\ named = 0

\* One setting of one of the three is named or taken back.
Changed(now) == UNION {{[now EXCEPT ![k] = v] : v \in Values[k] \cup {Unnamed}} : k \in DOMAIN Values}
Name ==
    /\ named < MaxSettings /\ named' = named + 1 /\ UNCHANGED service
    /\ \/ configured' \in Changed(configured) /\ UNCHANGED <<override, own>>
       \/ override' \in Changed(override) /\ UNCHANGED <<configured, own>>
       \/ own' \in Changed(own) /\ UNCHANGED <<configured, override>>
Next == Name

Spec == Init /\ [][Next]_vars
-----------------------------------------------------------------------------
TypeOK ==
    /\ service \in Services /\ named \in 0 .. MaxSettings
    /\ \A input \in {configured, override, own} :
          \A k \in DOMAIN Values : input[k] \in Values[k] \cup {Unnamed}

\* Nothing private, without TLS or with an open field is ever told to a client, by whatever way it
\* asks, nor to another tenant, and POP3S only where it was turned on; and what a contract was made
\* of is never refused when it is read again (assertDiscoveryContract, publicDiscoveryDocument,
\* resolveDiscoveryService).
Sound(e) ==
    e.state = "on" => /\ e.fields.host \in {"public", "domain"} /\ e.fields.port # Unnamed
                      /\ e.fields.tlsMode \in {"implicit", "starttls"} /\ e.fields.username # Unnamed
                      /\ (e.fields.path # Unnamed) = HasPath(service)
ToldIsSound ==
    /\ Created => Asserted
    /\ \A e \in {Document(TRUE), Redirect(TRUE), Autoconfig(TRUE), Resolved(Nothing), Resolved(own)} : Sound(e)
    /\ service = "pop3s" /\ Document(TRUE).state = "on" => configured.enabled = "true"
    /\ {Document(FALSE), Redirect(FALSE), Autoconfig(FALSE)} = {Refused}

\* The document, the redirect, the autoconfiguration and the service itself tell the same endpoint,
\* or all of them none.
WaysAgree ==
    LET told == {Document(TRUE), Resolved(Nothing)}
                \cup (IF HasPath(service) THEN {Redirect(TRUE)} ELSE {})
                \cup (IF service \in {"imap", "smtp"} THEN {Autoconfig(TRUE)} ELSE {})
    IN  \/ \A e \in told : e.state # "on"
        \/ \E e \in told : told = {e}

\* An override changes what it names and keeps the rest of the service as it was configured, the
\* tenant's own over it and a user's too.  Two gaps of the code: `tls: true` alone asks for the
\* default mode again, and an override of POP3S that does not say `enabled` turns it off.
Kept(result, over) ==
    IF result.state = "on"
    THEN /\ \A k \in {"host", "port", "username", "path"} :
               result.fields[k] = IF over[k] # Unnamed THEN over[k] ELSE Base.fields[k]
         /\ over.tls = Unnamed /\ over.tlsMode = Unnamed => result.fields.tlsMode = Base.fields.tlsMode
    ELSE \/ over.enabled = "false" \/ Base.state # "on"
         \/ (service = "pop3s" /\ over.enabled = Unnamed) \/ result.state = "refused"
OverridesKeep ==
    Usable => /\ override # Nothing => Kept(Published, override)
              /\ own # Nothing => Kept(Resolved(own), own)

DiscoveryHolds == ToldIsSound /\ WaysAgree /\ OverridesKeep
=============================================================================
