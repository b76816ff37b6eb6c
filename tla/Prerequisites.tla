---------------------------- MODULE Prerequisites ----------------------------
(***************************************************************************)
(* The programs a connect needs, and the four places that look for them:   *)
(* the doctor that gates the connect, the app that starts the session, and *)
(* the privileged helper, which trusts fewer places than either.           *)
(*                                                                         *)
(* A machine is a record:                                                  *)
(*   at     of each program, the directories that have it                  *)
(*   path   the directories in PATH                                        *)
(*   loose  the directories whose files others than root may change        *)
(*   var    the programs that a TOFV_ variable names, as an existing file  *)
(*   vpn, pin, elevate  of config.toml: "unset", "file" (one that exists), *)
(*          "gone" (an absolute path without a file), "name" (for PATH)    *)
(*                                                                         *)
(* Directories: "usr" is /usr/bin, "local" /usr/local/bin, "sbin"          *)
(* /usr/sbin, "home" one of the user's, "app" that of the app's own        *)
(* binary, "locallib" /usr/local/libexec, "lib" /usr/libexec; the          *)
(* third of these, /usr/lib/tofv, behaves as "lib" does.                   *)
(***************************************************************************)
EXTENDS Naturals, Sequences

Program == {"openfortivpn", "pppd", "secret-tool", "pkexec", "sudo",
            "pinentry-tofv", "tofv-helper"}
Dir     == {"usr", "local", "sbin", "home", "app", "locallib", "lib"}
LibDirs == <<"locallib", "lib">>   \* in the order in which they are looked at

Machine ==
  [at: [Program -> SUBSET Dir], path: SUBSET Dir, loose: SUBSET Dir,
   var: SUBSET {"openfortivpn", "pinentry-tofv", "tofv-helper"},
   vpn: {"unset", "file", "gone", "name"}, pin: {"unset", "file", "gone"},
   elevate: {"pkexec", "sudo"}]

\* The file that defines the config is not there, or is not read.
DefaultConfig(m) == [m EXCEPT !.vpn = "unset", !.pin = "unset", !.elevate = "pkexec"]

Which(m, p) == m.at[p] \cap m.path # {}

\* resolve_openfortivpn: an absolute path that is missing is not searched for.
ResolveOpenfortivpn(m) ==
  \/ "openfortivpn" \in m.var
  \/ m.vpn = "file"
  \/ m.vpn \in {"unset", "name"} /\ Which(m, "openfortivpn")

\* resolve_pinentry_bin
ResolvePinentryBin(m) ==
  \/ "pinentry-tofv" \in m.var
  \/ m.pin = "file"
  \/ Which(m, "pinentry-tofv")
  \/ m.at["pinentry-tofv"] \cap {"app", "locallib", "lib"} # {}

\* resolve_helper
ResolveHelper(m) ==
  "tofv-helper" \in m.var \/ m.at["tofv-helper"] \cap {"locallib", "lib"} # {}

\* find_bin: PATH, then the places that are named.
FindBin(m, p, extras) == Which(m, p) \/ m.at[p] \cap extras # {}

DoctorNoPinentry(m) ==        \* mutant: does not look for pinentry-tofv
  LET d == DefaultConfig(m)
  IN  ~ /\ ResolveOpenfortivpn(d)
        /\ FindBin(m, "pppd", {"sbin", "usr"})
        /\ Which(m, "secret-tool")
        /\ FindBin(m, "pkexec", {"usr"})
        /\ ResolveHelper(m)

\* report().blocking: the doctor does not read config.toml.  A stale helper and a
\* missing tray do not block.
DoctorBlocks(m) ==
  LET d == DefaultConfig(m)
  IN  ~ /\ ResolveOpenfortivpn(d)
        /\ FindBin(m, "pppd", {"sbin", "usr"})
        /\ Which(m, "secret-tool")
        /\ FindBin(m, "pkexec", {"usr"})
        /\ ResolvePinentryBin(d)
        /\ ResolveHelper(m)

\* require_root_exec, and the same checks in allowed_openfortivpn.
RootsOwn(m, p, d) == d \in m.at[p] /\ d \notin m.loose

\* allowed_openfortivpn, of /usr/bin and then of /usr/local/bin
HelperFindsVpn(m) == \E d \in {"usr", "local"} : RootsOwn(m, "openfortivpn", d)

\* pinentry_bin of the helper: beside itself if it may trust that one, else the
\* first that there is, which it must be able to trust.
HelperFindsPinentry(m) ==
  LET First(p) == SelectSeq(LibDirs, LAMBDA d : d \in m.at[p])
      self     == IF "tofv-helper" \in m.var THEN "app" ELSE Head(First("tofv-helper"))
      pins     == First("pinentry-tofv")
  IN  \/ RootsOwn(m, "pinentry-tofv", self)
      \/ pins # <<>> /\ RootsOwn(m, "pinentry-tofv", Head(pins))
=============================================================================
