-------------------------- MODULE MCRuntimeLifecycle --------------------------
(* The console and one chat transport that polls; two providers, one with a *)
(* ChatGPT login and one with an API key; one tool. The configurations: all *)
(* is well with the chat, whose provider's token is only to be refreshed;   *)
(* its secret is missing and the console is enabled, nobody is signed in    *)
(* and no default is set, and the tool is broken.                           *)
EXTENDS RuntimeLifecycle, TLC

CONSTANTS console, chat, codex, hosted, shell, well, signedout

Profile(enabled, lint) ==
    [enabled |-> enabled, found |-> TRUE, lint |-> lint, check |-> "none"]

Codex(credential) ==
    [enabled |-> TRUE, found |-> TRUE, kind |-> "codex", mode |-> "device_code",
     supported |-> {"device_code", "oauth_browser", "codex_auth_file", "api_key", "stored_token"},
     lint |-> "none", check |-> "none", malformed |-> FALSE, secret |-> "absent",
     credential |-> credential, expired |-> TRUE, env |-> {}, named |-> FALSE,
     file |-> "absent", cache |-> {}]

Hosted(secret) ==
    [Codex({}) EXCEPT !.kind = "http", !.mode = "api_key",
                      !.supported = {"api_key", "stored_token"}, !.secret = secret]

Well ==
    [safe |-> TRUE, require |-> FALSE, default |-> codex,
     transports |-> (console :> Profile(FALSE, "none") @@ chat :> Profile(TRUE, "none")),
     providers |-> (codex :> Codex({"access_token", "refresh_token"}) @@ hosted :> Hosted("set")),
     tools |-> (shell :> Profile(TRUE, "none")), rest |-> "none"]

SignedOut ==
    [Well EXCEPT !.default = NoProvider,
                 !.transports[chat].lint = "error",
                 !.transports[console].enabled = TRUE,
                 !.providers = (codex :> Codex({}) @@ hosted :> Hosted("absent")),
                 !.tools[shell].lint = "error"]

MCSettings == well :> Well @@ signedout :> SignedOut
=============================================================================
