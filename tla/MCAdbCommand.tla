---------------------------- MODULE MCAdbCommand ----------------------------
(* The requests of Proxy for TLC. *)
EXTENDS AdbCommand
Requests == {<<"install">>, <<"uninstall", "install">>, <<"list">>}
InstallOnly == {<<"install">>}
=============================================================================
