------------------------------ MODULE Preflight ------------------------------
(* The inspection of a configuration before it is activated                 *)
(* (PreflightService.inspect with the transport and provider managers): the *)
(* state of every transport and provider, the issues found, and whether     *)
(* safe mode allows the activation. Everything here is a function of the    *)
(* configuration c that the inspection loaded, a record of                  *)
(*   safe, require   safe mode; [agent].require_provider                    *)
(*   default         [agent].default_provider, NoProvider when unset        *)
(*   transports      per transport: enabled, found (its plugin is there),   *)
(*                   lint (the worst issue of the lint and validate_config) *)
(*                   and check (of the self-test and the health check)      *)
(*   providers       per provider: a profile of ProviderStatus.tla          *)
(*   tools           per tool: as a transport                               *)
(*   rest            the worst issue of the discovery, the secret files and *)
(*                   the workspace                                          *)
(* A name that is not configured is a profile that is not enabled.          *)
EXTENDS FiniteSets, ProviderStatus

CONSTANTS
    Transports,     \* ids of the transport profiles
    Console,        \* the id of the one that is not interactive
    Providers,      \* ids of the provider profiles
    Tools,          \* ids of the tool profiles
    NoProvider      \* no default provider is set

ASSUME PreflightConstants == NoProvider \notin Providers

(* A transport or a tool *)
PluginProfile ==
    [enabled : BOOLEAN, found : BOOLEAN, lint : Severity, check : Severity]

Configuration ==
    [safe : BOOLEAN, require : BOOLEAN, default : Providers \cup {NoProvider},
     transports : [Transports -> PluginProfile],
     providers : [Providers -> ProviderProfile],
     tools : [Tools -> PluginProfile], rest : Severity]

Issue(code, severity) == [code |-> code, severity |-> severity]

Found(code, severity) ==
    {Issue(code, s) : s \in {severity} \ {"none"}}

-----------------------------------------------------------------------------
(* One profile. The plugin's self-test runs only when nothing structural    *)
(* failed before it, and a provider's only when it is signed in.            *)

Tested(p) == p.found /\ p.lint # "error"

Problems(p) == {p.lint} \cup (IF Tested(p) THEN {p.check} ELSE {})

PluginState(p) ==
    CASE ~p.enabled                               -> "disabled"
      [] ~p.found \/ "error" \in Problems(p)      -> "failed"
      [] Problems(p) # {"none"}                   -> "degraded"
      [] OTHER                                    -> "ready"

Structural(p) == {p.lint} \cup ConfigIssues(p) \cup AuthIssues(p)

ProviderProblems(p) ==
    Structural(p) \cup (IF "error" \notin Structural(p) /\ Authenticated(p) THEN {p.check} ELSE {})

ProviderState(p) ==
    CASE ~p.enabled                                    -> "disabled"
      [] ~p.found \/ "error" \in ProviderProblems(p)   -> "failed"
      [] ~Authenticated(p) /\ p.mode # "none"          -> "unauthenticated"
      [] ProviderProblems(p) # {"none"}                -> "degraded"
      [] OTHER                                         -> "ready"

Usable == {"ready", "degraded"}

SignedIn(p) == p.enabled /\ p.found /\ Authenticated(p)

Ready(p) == ProviderState(p) \in Usable /\ SignedIn(p)

ProfileIssues(kind, p, problems) ==
    CASE ~p.enabled              -> {}
      [] p.enabled /\ ~p.found   -> {Issue(kind, "error")}
      [] OTHER                   -> {Issue(kind, s) : s \in problems \ {"none"}}

-----------------------------------------------------------------------------
(* The rules over all profiles.                                             *)

Enabled(profiles) == {i \in DOMAIN profiles : profiles[i].enabled}

ReadyProviders(c) == {i \in Providers : Ready(c.providers[i])}

Interactive(c) == Enabled(c.transports) \ {Console}

Strict(c) == IF c.safe THEN "error" ELSE "warning"

NoTransport(c) ==
    IF \E i \in Enabled(c.transports) : PluginState(c.transports[i]) = "ready"
    THEN {}
    ELSE {Issue("no_healthy_transports", Strict(c))}

NoReadyProvider(c) ==
    IF ReadyProviders(c) # {} THEN {}
    ELSE {Issue("no_ready_providers", IF c.require THEN "error" ELSE "warning")}

DefaultProvider(c) ==
    IF c.default = NoProvider THEN {Issue("default_provider_not_set", "warning")}
    ELSE IF ProviderState(c.providers[c.default]) \in Usable THEN {}
    ELSE {Issue("default_provider_not_ready", "error")}

ProviderRuntime(c) ==
    IF Enabled(c.providers) # {} THEN NoReadyProvider(c) \cup DefaultProvider(c)
    ELSE IF ~c.require /\ c.default = NoProvider THEN {}
    ELSE {Issue("no_enabled_providers", IF c.require THEN "error" ELSE "warning")}

TransportProviderLink(c) ==
    IF Interactive(c) = {} \/ c.default \in ReadyProviders(c) THEN {}
    ELSE IF ReadyProviders(c) # {} /\ c.default = NoProvider
    THEN {Issue("transport_provider_default_missing", "warning")}
    ELSE {Issue("transport_provider_not_ready", "error")}

NoTools(c) ==
    IF Enabled(c.tools) # {} THEN {} ELSE {Issue("no_enabled_tools", "warning")}

ToolIssues(c) ==
    UNION {ProfileIssues("tool", c.tools[i], Problems(c.tools[i])) : i \in Tools}

TransportIssues(c) ==
    UNION {ProfileIssues("transport", c.transports[i], Problems(c.transports[i])) :
           i \in Transports}

ProviderIssues(c) ==
    UNION {ProfileIssues("provider", c.providers[i], ProviderProblems(c.providers[i])) :
           i \in Providers}

Issues(c) ==
    TransportIssues(c)
    \cup ProviderIssues(c)
    \cup ToolIssues(c)
    \cup Found("rest", c.rest)
    \cup NoTools(c)
    \cup NoTransport(c)
    \cup ProviderRuntime(c)
    \cup TransportProviderLink(c)

Errors(c) == {i \in Issues(c) : i.severity = "error"}

(* A tool's errors never block the activation.                              *)
Blocking(c) == {i \in Errors(c) : i.code # "tool"}

(* An activation that looks at nothing but the transports.                  *)
CanActivateByTransports(c) == ~c.safe \/ NoTransport(c) = {}

CanActivate(c) == ~c.safe \/ Blocking(c) = {}

-----------------------------------------------------------------------------
(* What an allowed configuration promises: a user who writes to a chat can  *)
(* be answered. When safe mode allows a configuration that has an           *)
(* interactive transport, some transport is healthy, some signed-in         *)
(* provider is ready, and the default provider is one of these if it is set *)
(* and has a key to send, but for the gaps of ProviderStatus.tla.           *)
(* (_activation_blocking_errors and the two provider rules it relies on.)   *)
Answers(c) ==
    (c.safe /\ CanActivate(c) /\ Interactive(c) # {})
        => /\ \E i \in Transports : PluginState(c.transports[i]) = "ready"
           /\ \E i \in Providers : Ready(c.providers[i])
           /\ c.default = NoProvider
              \/ LET p == c.providers[c.default] IN Ready(p) /\ (HasKey(p) \/ Gap(p))
=============================================================================
