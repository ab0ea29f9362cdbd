----------------------------- MODULE MCWifiCmd -----------------------------
(* An instance of WifiCmd for TLC. *)
EXTENDS WifiCmd

CONSTANTS mac, router

\* The boot asks for the MAC addresses and sets the router; the shell may ask
\* for the addresses again.
MCCmds       == {mac, router}
MCBoot       == <<mac, router>>
MCShellCmds  == {mac}
MCReadCmds   == {mac}
MCBufferCmds == {router}
=============================================================================
