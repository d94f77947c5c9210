--------------------------- MODULE MCBrowserLogin ---------------------------
(***************************************************************************)
(* Two callers share the session; two sets of tokens are given, by logins  *)
(* and renewals in any order.                                              *)
(***************************************************************************)
EXTENDS BrowserLogin
=============================================================================
