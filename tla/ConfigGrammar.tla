---------------------------- MODULE ConfigGrammar ----------------------------
(***************************************************************************)
(* The config of a session: what a profile must be (profile.rs), how it is *)
(* written (openfortivpn_conf.rs), and what the privileged helper accepts  *)
(* (validate.rs), which knows nothing of the profile.                      *)
(*                                                                         *)
(* A text is a sequence of characters, and a character stands for its kind *)
(* in both programs: "x" an ASCII letter, digit or one of .-_:[], "#" any  *)
(* other printable ASCII, "u" a letter that is not ASCII, "ctl" a control  *)
(* character that is not white space.  The name of a key, the port, the    *)
(* digits of a pin and those of a code are one character each; "SP" is any *)
(* white space that does not end a line.                                   *)
(***************************************************************************)
EXTENDS FiniteSetsExt, Sequences

\* The kinds of characters there are; the second line is of what only the programs
\* write, the third of what a password is made of in addition.
Char ==
  {"x", "#", "=", "SP", "CR", "LF", "u", "ctl", "hex"}
    \cup {"host", "port", "username", "realm", "trusted-cert", "no-ftm-push", "otp", "1",
          "code"}
    \cup {"%", "byte", "0", "2", "5", "A", "B", "D"}

Text  == Seq(Char)
Unset == <<"unset">>          \* a pin that the profile does not have

Blank     == {"SP", "CR", "LF"}
ToText(c) == <<c>>

\* str::trim
Trim(s) ==
  LET kept == {i \in DOMAIN s : s[i] \notin Blank}
  IN  IF kept = {} THEN <<>> ELSE SubSeq(s, Min(kept), Max(kept))

Chars(s) == {s[i] : i \in DOMAIN s}

-----------------------------------------------------------------------------
(* The profile *)

\* validate_ready, with validate_fields and validate_trusted_cert: the pin is
\* trimmed for the check, and stays as it is.
Ready(p) ==
  /\ p.cert = Unset \/ Trim(p.cert) = ToText("hex")
  /\ \A f \in {"host", "username", "realm"} : "LF" \notin Chars(p[f])
  /\ Trim(p.host) # <<>>
  /\ Trim(p.username) # <<>>

Entry(key, value) == <<key, "SP", "=", "SP">> \o value \o <<"LF">>

RenderRealmRaw(p, otp) ==     \* mutant: a realm of blanks is written
  Entry("host", Trim(p.host)) \o Entry("port", ToText("port"))
    \o Entry("username", Trim(p.username))
    \o (IF p.realm = <<>> THEN <<>> ELSE Entry("realm", Trim(p.realm)))
    \o (IF p.cert = Unset THEN <<>> ELSE Entry("trusted-cert", p.cert))
    \o Entry("no-ftm-push", ToText("1")) \o Entry("otp", ToText(otp))

Render(p, otp) ==
  Entry("host", Trim(p.host)) \o Entry("port", ToText("port"))
    \o Entry("username", Trim(p.username))
    \o (IF Trim(p.realm) = <<>> THEN <<>> ELSE Entry("realm", Trim(p.realm)))
    \o (IF p.cert = Unset THEN <<>> ELSE Entry("trusted-cert", p.cert))
    \o Entry("no-ftm-push", ToText("1")) \o Entry("otp", ToText(otp))

-----------------------------------------------------------------------------
(* The helper *)

AllowedKey ==
  {"host", "port", "username", "realm", "trusted-cert", "otp", "no-ftm-push"}

\* The lines of a text, each without its end; their order does not matter.
Lines(text) ==
  LET end == {i \in DOMAIN text : text[i] = "LF"} \cup {Len(text) + 1}
      From(e) == Max({0} \cup {i \in end : i < e}) + 1
  IN  {SubSeq(text, From(e), e - 1) : e \in end}

\* What is left and right of the first "=" of a line, trimmed; no key if there is
\* none.
Pair(line) ==
  LET eq == {i \in DOMAIN line : line[i] = "="}
  IN  IF eq = {} THEN <<<<>>, line>>
      ELSE <<Trim(SubSeq(line, 1, Min(eq) - 1)), Trim(SubSeq(line, Min(eq) + 1, Len(line)))>>

\* The key-value pairs of a config; blank lines do not count.  The helper also skips a
\* line that begins with "#", which no rendered config has: each of its lines begins with
\* a key or with the digits of a pin.
Pairs(text) ==
  {Pair(t) : t \in {Trim(l) : l \in Lines(text)} \ {<<>>}}

ValueOkBlanks(key, value) ==  \* mutant: does not refuse blanks within a name
  CASE key = "host"                  -> Chars(value) \subseteq {"x"}
    [] key \in {"username", "realm"} -> Chars(value) \cap {"=", "ctl"} = {}
    [] key = "port"                  -> value = ToText("port")
    [] key = "trusted-cert"          -> value = ToText("hex")
    [] key = "otp"                   -> value \in {ToText("code")}
    [] key = "no-ftm-push"           -> value = ToText("1")

\* validate_value
ValueOk(key, value) ==
  CASE key = "host"                  -> Chars(value) \subseteq {"x"}
    [] key \in {"username", "realm"} -> Chars(value) \cap ({"=", "ctl"} \cup Blank) = {}
    [] key = "port"                  -> value = ToText("port")
    [] key = "trusted-cert"          -> value = ToText("hex")
    [] key = "otp"                   -> value \in {ToText("code")}
    [] key = "no-ftm-push"           -> value = ToText("1")

\* validate_config_body
Accepts(text) ==
  \A p \in Pairs(text) :
    \E k \in AllowedKey :
      /\ p[1] = ToText(k)
      /\ p[2] # <<>> \/ k = "realm"
      /\ ValueOk(k, p[2])
=============================================================================
