-------------------------- MODULE MCBrowserSession -------------------------
(* Two tabs, a customer and a visitor who registers.                       *)
EXTENDS BrowserSession
=============================================================================
