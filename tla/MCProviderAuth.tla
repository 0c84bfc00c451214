---------------------------- MODULE MCProviderAuth ----------------------------
(* Three threads and processes that use one provider, and one login session.*)
EXTENDS ProviderAuth
=============================================================================
