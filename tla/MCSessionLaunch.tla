--------------------------- MODULE MCSessionLaunch ---------------------------
(* Small instances of SessionLaunch for TLC: one thing varies at a time. *)
EXTENDS SessionLaunch, TLC

CONSTANTS pt, o1, o2, r1

OthersOwn     == {o1, o2}
OthersRefused == {r1}

-----------------------------------------------------------------------------
(* Machines: everything in its usual place, and then one group of programs or of *)
(* settings in every possible way                                                *)

At(vpn, pin, helper, tools) ==
  [t \in Program |->
     CASE t = "openfortivpn"  -> vpn
       [] t = "pinentry-tofv" -> pin
       [] t = "tofv-helper"   -> helper
       [] t = "pppd"          -> IF t \in tools THEN {"sbin"} ELSE {}
       [] OTHER               -> IF t \in tools THEN {"usr"} ELSE {}]

Tools == {"pppd", "secret-tool", "pkexec", "sudo"}
Usual == At({"usr"}, {"locallib"}, {"locallib"}, Tools)

Like(at, dirs, loose, var, vpn, pin, elevate) ==
  [at |-> at, path |-> dirs, loose |-> loose, var |-> var, vpn |-> vpn, pin |-> pin,
   elevate |-> elevate]

Plain == Like(Usual, {"usr", "local"}, {}, {}, "unset", "unset", "pkexec")

VpnMachines ==
  {Like(At(vpn, {"locallib"}, {"locallib"}, Tools), dirs, loose, var, cfg, "unset", "pkexec") :
     vpn \in SUBSET {"usr", "local", "home"}, dirs \in {{"usr", "local"}, {"home"}},
     loose \in SUBSET {"local"}, var \in SUBSET {"openfortivpn"},
     cfg \in {"unset", "file", "gone", "name"}}

ToolMachines ==
  {Like(At({"usr", "home"}, {"locallib"}, {"locallib"}, tools), dirs, {}, {}, "unset", "unset", e) :
     tools \in SUBSET Tools, dirs \in {{"usr", "local"}, {"home"}, {"usr", "sbin"}},
     e \in {"pkexec", "sudo"}}

PinentryMachines ==
  {Like(At({"usr"}, pin, helper, Tools), {"usr", "home"}, loose, var, "unset", cfg, "pkexec") :
     pin \in SUBSET {"home", "app", "locallib", "lib"}, helper \in SUBSET {"locallib", "lib"},
     loose \in SUBSET {"locallib", "app"}, cfg \in {"unset", "file", "gone"},
     var \in SUBSET {"pinentry-tofv", "tofv-helper"}}

-----------------------------------------------------------------------------
(* Profiles and passwords *)

Profile(host, username, realm, cert) ==
  [host |-> host, username |-> username, realm |-> realm, cert |-> cert]

PlainProfile == Profile(<<"x">>, <<"x">>, <<>>, Unset)

Kinds == {"x", "#", "=", "SP", "CR", "LF", "u", "ctl"}
Texts == UNION {[1..n -> Kinds] : n \in 0..3}
Pins  == {Unset, <<"hex">>, <<"SP", "hex">>, <<"hex", "LF">>, <<"LF", "hex">>, <<"x">>}

OtherProfiles ==
  {Profile(t, <<"x">>, <<"x">>, Unset) : t \in Texts}
    \cup {Profile(<<"x">>, t, <<>>, <<"hex">>) : t \in Texts}
    \cup {Profile(<<"x">>, <<"x">>, t, c) : t \in {s \in Texts : Len(s) < 3}, c \in Pins}

PasswordKinds  == {"2", "5", "%", "SP", "byte", "CR", "LF"}
OtherPasswords == UNION {[1..n -> PasswordKinds] : n \in 0..3}

Case(m, pr, s, next, others) ==
  [machine |-> m, profile |-> pr, stored |-> s, next |-> next, others |-> others]

AllCases ==
  {Case(m, PlainProfile, <<"x">>, None, FALSE) :
     m \in VpnMachines \cup ToolMachines \cup PinentryMachines}
    \cup {Case(Plain, pr, <<"x">>, None, FALSE) : pr \in OtherProfiles}
    \cup {Case(Plain, PlainProfile, s, <<"2", "%">>, FALSE) : s \in OtherPasswords}
    \cup {Case(Plain, PlainProfile, <<"x", "SP">>, None, TRUE)}
=============================================================================
