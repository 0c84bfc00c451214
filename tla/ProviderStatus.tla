---------------------------- MODULE ProviderStatus ----------------------------
(* What the built-in provider plugins say of a profile before it is used    *)
(* (validate_config, auth_status), and what they put into a request when it *)
(* is used (_build_request_auth, _resolve_bearer_token). The two are        *)
(* written apart in the code, once per kind of plugin and sign-in mode; a   *)
(* profile that is said to be signed in should have a key to send.          *)
(*                                                                          *)
(* A profile p is a record of                                               *)
(*   enabled, found  its plugin is there                                    *)
(*   kind            "http", "file" (credential files), or "codex"          *)
(*   mode, supported the sign-in mode, and those of the plugin's manifest   *)
(*   lint, check     the worst issue of the manifest's lint, and of the     *)
(*                   self-test                                              *)
(*   malformed       some URL, path or number in it is not well formed      *)
(*   secret          the API key's secret: without a name, absent, empty    *)
(*                   or set                                                 *)
(*   credential      the fields of the stored credential; expired           *)
(*   env             what the environment variables give                    *)
(*   named, file     the configuration names the credential file; the file  *)
(*   cache           what a readable Codex file holds                       *)

Severity == {"none", "info", "warning", "error"}

Modes == {"none", "api_key", "stored_token", "credential_file", "device_code",
          "oauth_browser", "codex_auth_file", "other"}

ProviderProfile ==
    [enabled : BOOLEAN, found : BOOLEAN, kind : {"http", "file", "codex"},
     mode : Modes, supported : SUBSET Modes, lint : Severity, check : Severity,
     malformed : BOOLEAN, secret : {"unnamed", "absent", "empty", "set"},
     credential : SUBSET {"access_token", "token", "api_key", "refresh_token"},
     expired : BOOLEAN, env : SUBSET {"access_token", "api_key"},
     named : BOOLEAN, file : {"absent", "broken", "there"},
     cache : SUBSET {"access_token", "api_key"}]

-----------------------------------------------------------------------------
(* validate_config *)

HttpIssues(p) ==
    (IF p.malformed THEN {"error"} ELSE {})
    \cup (IF p.mode = "api_key" /\ p.secret = "unnamed" THEN {"error"} ELSE {})

FileIssues(p) ==
    IF p.mode = "credential_file" /\ ~p.named THEN {"error"} ELSE {}

CodexIssues(p) ==
    (IF p.malformed THEN {"error"} ELSE {})
    \cup (IF p.mode = "codex_auth_file" /\ p.named /\ p.file = "absent"
          THEN {"warning"} ELSE {})

ConfigIssues(p) ==
    (IF p.mode \in p.supported THEN {} ELSE {"error"})
    \cup CASE p.kind = "http" -> HttpIssues(p)
           [] p.kind = "file" -> FileIssues(p)
           [] p.kind = "codex" -> CodexIssues(p)

-----------------------------------------------------------------------------
(* auth_status *)

(* _token_from_credential, whether it is still good or not *)
StoredToken(p) == p.credential \cap {"access_token", "token", "api_key"} # {}

(* _load_codex_auth_cache *)
Cached(p) == IF p.file = "there" THEN p.cache ELSE {}

HttpSignedIn(p) ==
    CASE p.mode = "none" -> TRUE
      [] p.mode = "api_key" -> p.secret \in {"empty", "set"}
      [] p.mode = "stored_token" -> StoredToken(p)
      [] OTHER -> FALSE

FileSignedIn(p) ==
    CASE p.mode = "credential_file" -> p.named /\ p.file # "absent"
      [] p.mode = "stored_token" -> StoredToken(p)
      [] OTHER -> FALSE

FreshToken(p) == "access_token" \in p.credential /\ ~p.expired

ManagedSignedIn(p) == FreshToken(p) \/ "refresh_token" \in p.credential

(* A file that cannot be read hides a key that is stored *)
KeySignedIn(p) ==
    \/ p.secret = "set"
    \/ "api_key" \in p.env \cup Cached(p)
    \/ p.file # "broken" /\ "api_key" \in p.credential

TokenSignedIn(p) == StoredToken(p) \/ "access_token" \in p.env \cup Cached(p)

CacheSignedIn(p) == StoredToken(p) \/ p.env \cup Cached(p) # {}

CodexSignedIn(p) ==
    CASE p.mode = "api_key" -> KeySignedIn(p)
      [] p.mode \in {"oauth_browser", "device_code"} -> ManagedSignedIn(p)
      [] p.mode = "stored_token" -> TokenSignedIn(p)
      [] p.mode = "codex_auth_file" -> CacheSignedIn(p)
      [] OTHER -> FALSE

Authenticated(p) ==
    CASE p.kind = "http" -> HttpSignedIn(p)
      [] p.kind = "file" -> FileSignedIn(p)
      [] p.kind = "codex" -> CodexSignedIn(p)

(* Nothing is said of a mode that a plugin for credential files lacks *)
AuthIssues(p) ==
    IF \/ Authenticated(p)
       \/ p.kind = "file" /\ p.mode \notin {"credential_file", "stored_token"}
    THEN {}
    ELSE {"warning"}

-----------------------------------------------------------------------------
(* What a request carries *)

HttpKey(p) ==
    CASE p.mode = "none" -> TRUE
      [] p.mode = "api_key" -> p.secret = "set"
      [] p.mode = "stored_token" -> StoredToken(p)
      [] OTHER -> FALSE

(* The mode is not asked: a key goes before a token *)
CodexKey(p) ==
    \/ p.secret = "set"
    \/ "api_key" \in p.env \cup p.credential \cup Cached(p)
    \/ FreshToken(p)
    \/ "access_token" \in p.env \cup Cached(p)

HasKey(p) ==
    CASE p.kind = "http" -> HttpKey(p)
      [] p.kind = "file" -> FALSE
      [] p.kind = "codex" -> CodexKey(p)

(* Where a profile is called signed in and nothing can be sent: an API key  *)
(* that is the empty text; plugins for credential files, which cannot chat; *)
(* and in Codex a token that is expired, is stored as "token", or is still  *)
(* to be fetched with the refresh token.                                    *)
Gap(p) ==
    \/ p.kind = "http" /\ p.mode = "api_key" /\ p.secret = "empty"
    \/ p.kind = "file"
    \/ /\ p.kind = "codex" /\ p.mode # "api_key"
       /\ ~FreshToken(p)
       /\ p.credential \cap {"access_token", "token", "refresh_token"} # {}

(* A profile that auth_status calls signed in has a key for its requests,   *)
(* but for the named gaps.                                                  *)
KeyBehindStatus(p) == Authenticated(p) => HasKey(p) \/ Gap(p)
=============================================================================
