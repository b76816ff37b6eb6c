---------------------------- MODULE SessionLaunch ----------------------------
(***************************************************************************)
(* One connect, from the button to the password that openfortivpn gets:    *)
(* the checks before the user is asked for a code, the start of the        *)
(* session, the helper's checks, and the thread that serves the password   *)
(* on pinentry.sock, to pinentry-tofv and to whoever else connects.        *)
(*                                                                         *)
(* Who races with whom over sessions is SessionController's; here is one.  *)
(***************************************************************************)
EXTENDS ConfigGrammar, FiniteSets, Naturals

CONSTANTS
  Cases,      \* the machine, the profile and the password of a connect, the password
              \* saved meanwhile or None, and whether others use the socket
  Pinentry,   \* pinentry-tofv, run by openfortivpn
  Own,        \* other clients with the uid of the user
  Refused,    \* clients whose uid is another, or cannot be told
  MaxServes   \* the cap on requests; 8 in the code

INSTANCE Prerequisites

Client == {Pinentry} \cup Own \cup Refused

None      == <<"none">>       \* no password, no answer, no config
Error     == <<"ERR">>        \* an error line, or the end of the connection
Cancelled == <<"cancelled">>

\* What the user saves has no end of line at its end: read_secret_stdin of the command
\* line takes them off, and the field of the panel is one line.  What is in the
\* keyring before may be from any program.
ASSUME LaunchAssumption ==
  /\ \A c \in Cases :
       /\ c.machine \in Machine /\ c.others \in BOOLEAN
       /\ c.profile.host \in Text /\ c.profile.username \in Text
       /\ c.profile.realm \in Text /\ c.profile.cert \in Text \cup {Unset}
       /\ c.stored \in Text \cup {None} /\ c.next \in Text \cup {None}
       /\ c.next # <<>> => c.next[Len(c.next)] # "LF"
  /\ Pinentry \notin Own \cup Refused /\ Own \cap Refused = {}
  /\ IsFiniteSet(Own \cup Refused)
  /\ MaxServes \in Nat \ {0}

VARIABLES
  case,       \* what this connect finds
  stored,     \* the password in the keyring
  stage,      \* how far the app is
  child,      \* the elevated child
  why,        \* what the last refusal was for
  conf,       \* default.conf
  path,       \* pinentry.sock is there
  server,     \* where the pinentry thread is
  queue,      \* connections it has not accepted
  cur,        \* the one it handles, and
  behind,     \* whether pinentry-tofv was waiting when it was accepted
  served,     \* requests that counted
  says,       \* what each client sends
  client,     \* where each client is
  reply,      \* what pinentry-tofv can read from the socket, and
  got         \* what it gave openfortivpn

launch == <<case, stored, stage, child, why>>
files  == <<conf, path>>
thread == <<server, queue, cur, behind, served>>
peers  == <<says, client, reply, got>>
vars   == <<launch, files, thread, peers>>

machine == case.machine
profile == case.profile

TypeOK ==
  /\ case.machine \in Machine /\ case.others \in BOOLEAN
  /\ stored \in {case.stored, case.next, None}
  /\ stage \in {"asked", "code", "refused", "failed", "started", "dropped", "closed"}
  /\ child \in {"none", "polkit", "vpn", "over"}
  /\ why \in {"nothing", "doctor", "profile", "password", "elevate", "pinentry",
              "openfortivpn", "helper", "user", "config", "vpn", "rootPinentry"}
  /\ conf \in {None, Render(profile, "code")}
  /\ path \in BOOLEAN
  /\ server \in {"none", "accept", "handle", "look", "gone"}
  /\ queue \in Seq(Client) /\ Len(queue) <= Cardinality(Client)
  /\ cur \in Client /\ behind \in BOOLEAN
  /\ served \in 0..MaxServes
  /\ says \in [Client -> {"nothing", "GET", "other"}]
  /\ client \in [Client -> {"away", "waiting", "answered", "refused", "cutOff"}]
  /\ reply \in {None, Error} \/ reply[1] = "D"
  /\ got \in {None, Cancelled} \/ got[1] = "D"

Init ==
  /\ case \in Cases
  /\ stored = case.stored
  /\ stage = "asked" /\ child = "none" /\ why = "nothing"
  /\ conf = None /\ path = FALSE
  /\ server = "none" /\ queue = <<>> /\ cur = Pinentry /\ behind = FALSE /\ served = 0
  /\ says = [c \in Client |-> "nothing"]
  /\ client = [c \in Client |-> "away"]
  /\ reply = None /\ got = None

-----------------------------------------------------------------------------
(* Strings: the keyring, the percent coding, the reply on the socket *)

Escape == [c \in {"%", "CR", "LF", "byte"} |->
             CASE c = "%"    -> <<"%", "2", "5">>
               [] c = "CR"   -> <<"%", "0", "D">>
               [] c = "LF"   -> <<"%", "0", "A">>
               [] c = "byte" -> <<"%", "B", "B">>]

\* percent_encode: "%" and every byte that is not printable ASCII ("byte", "CR", "LF").
Encode(s) ==
  LET enc[i \in 0..Len(s)] ==
        IF i = 0 THEN <<>>
        ELSE enc[i - 1] \o (IF s[i] \in DOMAIN Escape THEN Escape[s[i]] ELSE ToText(s[i]))
  IN  enc[Len(s)]

\* percent_decode, of what Encode writes: three characters for one.  dec[n] is what
\* the last n characters stand for.
Decode(s) ==
  LET dec[n \in 0..Len(s)] ==
        LET i == Len(s) - n + 1
        IN  IF n = 0 THEN <<>>
            ELSE IF s[i] = "%" /\ n >= 3
                 THEN ToText(CHOOSE c \in DOMAIN Escape : Escape[c] = SubSeq(s, i, i + 2))
                        \o dec[n - 3]
                 ELSE ToText(s[i]) \o dec[n - 1]
  IN  dec[Len(s)]

\* secret-tool prints what it stored; SecretToolStore::get takes one end of line off.
Lookup(s) ==
  LET Without(t, c) == IF t # <<>> /\ t[Len(t)] = c THEN SubSeq(t, 1, Len(t) - 1) ELSE t
      kept == IF Without(s, "LF") = s THEN s ELSE Without(Without(s, "LF"), "CR")
  IN  IF kept = <<>> THEN None ELSE kept

TrimEnd(s) ==
  LET kept == {i \in DOMAIN s : s[i] \notin Blank}
  IN  IF kept = {} THEN <<>> ELSE SubSeq(s, 1, Max(kept))

ReadLine(s) ==
  LET end == {i \in DOMAIN s : s[i] = "LF"}
  IN  IF end = {} THEN s ELSE SubSeq(s, 1, Min(end) - 1)

\* The line that handle_client writes.
Reply(s) == <<"D", "SP">> \o Encode(s) \o <<"LF">>

\* fetch_password: trim_end takes the blank after the D as well if nothing follows.
\* Then pinentry-tofv encodes again, and openfortivpn decodes.
Fetched(text) ==
  LET told == TrimEnd(ReadLine(text))
  IN  IF Len(told) < 2 \/ told[1] # "D" THEN Cancelled
      ELSE <<"D">> \o Decode(Encode(Decode(SubSeq(told, 3, Len(told)))))

-----------------------------------------------------------------------------
(* begin_connect: what is checked before the user is asked for a code *)

Password == IF stored = None THEN None ELSE Lookup(stored)

BeginConnect ==
  /\ stage = "asked"
  /\ LET Refuse(what) == stage' = "refused" /\ why' = what IN
       IF DoctorBlocks(machine) THEN Refuse("doctor")
       ELSE IF ~Ready(profile) THEN Refuse("profile")
       ELSE IF Password = None THEN Refuse("password")
       ELSE stage' = "code" /\ UNCHANGED why
  /\ UNCHANGED <<case, stored, child, files, thread, peers>>

\* The user saves or removes the password while the form for the code is open.  Later
\* changes do not reach the session, which has a copy.
SavePassword ==
  /\ stage = "code"
  /\ case.next \notin {None, <<>>}
  /\ stored' = case.next
  /\ UNCHANGED <<case, stage, child, why, files, thread, peers>>

ClearPassword ==
  /\ stage = "code"
  /\ stored' = None
  /\ UNCHANGED <<case, stage, child, why, files, thread, peers>>

-----------------------------------------------------------------------------
(* start_session, spawn_connect, plan, plan_connect *)

\* The first thing that is missing, in the order of the code.
StartRefusal ==
  CASE ~Which(machine, "secret-tool") \/ Password = None -> "password"
    [] ~Ready(profile)                                   -> "profile"
    [] ~Which(machine, machine.elevate)                  -> "elevate"
    [] ~ResolvePinentryBin(machine)                      -> "pinentry"
    [] ~ResolveOpenfortivpn(machine)                     -> "openfortivpn"
    [] ~ResolveHelper(machine)                           -> "helper"
    [] OTHER                                             -> "nothing"

\* The config is written, the socket bound and its thread started, pkexec runs.
StartSession ==
  /\ stage = "code"
  /\ IF StartRefusal # "nothing"
     THEN stage' = "failed" /\ why' = StartRefusal /\ UNCHANGED <<child, files, server>>
     ELSE /\ stage' = "started" /\ child' = "polkit"
          /\ conf' = Render(profile, "code")
          /\ path' = TRUE
          /\ server' = "accept"
          /\ UNCHANGED why
  /\ UNCHANGED <<case, stored, queue, cur, behind, served, peers>>

\* What the helper says of the config it reads, of openfortivpn and of pinentry-tofv.
HelperRefusal ==
  IF conf = None THEN "config"
  ELSE IF ~Accepts(conf) THEN "config"
  ELSE IF ~HelperFindsVpn(machine) THEN "vpn"
  ELSE IF ~HelperFindsPinentry(machine) THEN "rootPinentry"
  ELSE "nothing"

\* polkit refuses, or the helper does, or it becomes openfortivpn.
HelperStart ==
  /\ child = "polkit"
  /\ \/ child' = "over" /\ why' = "user"
     \/ HelperRefusal # "nothing" /\ child' = "over" /\ why' = HelperRefusal
     \/ HelperRefusal = "nothing" /\ child' = "vpn" /\ UNCHANGED why
  /\ UNCHANGED <<case, stored, stage, files, thread, peers>>

VpnExits ==
  /\ child = "vpn"
  /\ child' = "over"
  /\ UNCHANGED <<case, stored, stage, why, files, thread, peers>>

\* RunningConnect::drop: the socket path goes, the thread is joined, and then the
\* config goes.  The child may not have been stopped by then.
DropBegin ==
  /\ stage = "started"
  /\ stage' = "dropped"
  /\ path' = FALSE
  /\ UNCHANGED <<case, stored, child, why, conf, thread, peers>>

DropEnd ==
  /\ stage = "dropped"
  /\ server = "gone"
  /\ stage' = "closed"
  /\ conf' = None
  /\ UNCHANGED <<case, stored, child, why, path, thread, peers>>

-----------------------------------------------------------------------------
(* The pinentry thread: PinentryServer::spawn, handle_client *)

Become(c, now) == client' = [client EXCEPT ![c] = now]

AcceptNoCap ==                \* mutant: counts the requests and answers them all
  /\ server = "accept" /\ queue # <<>>
  /\ LET c == Head(queue) IN
       /\ queue' = Tail(queue)
       /\ IF c \in Refused
          THEN Become(c, "refused") /\ UNCHANGED <<server, cur, behind, served>>
          ELSE /\ server' = "handle" /\ cur' = c /\ served' = served + 1
               /\ behind' = (client[Pinentry] = "waiting" /\ c # Pinentry)
               /\ UNCHANGED client
  /\ UNCHANGED <<launch, files, says, reply, got>>

AcceptCountsAll ==            \* mutant: a refused client uses the cap up as well
  /\ server = "accept" /\ queue # <<>>
  /\ LET c == Head(queue) IN
       /\ queue' = Tail(queue)
       /\ IF c \in Refused \/ served >= MaxServes
          THEN /\ Become(c, "refused")
               /\ served' = IF served < MaxServes THEN served + 1 ELSE served
               /\ reply' = IF c = Pinentry THEN Error ELSE reply
               /\ UNCHANGED <<server, cur, behind>>
          ELSE /\ server' = "handle" /\ cur' = c /\ served' = served + 1
               /\ behind' = (client[Pinentry] = "waiting" /\ c # Pinentry)
               /\ UNCHANGED <<client, reply>>
  /\ UNCHANGED <<launch, files, says, got>>

\* A client that is refused, or comes after the cap, is not followed by a look at
\* the path.
Accept ==
  /\ server = "accept" /\ queue # <<>>
  /\ LET c == Head(queue) IN
       /\ queue' = Tail(queue)
       /\ IF c \in Refused \/ served >= MaxServes
          THEN /\ Become(c, "refused")
               /\ reply' = IF c = Pinentry THEN Error ELSE reply
               /\ UNCHANGED <<server, cur, behind, served>>
          ELSE /\ server' = "handle" /\ cur' = c /\ served' = served + 1
               /\ behind' = (client[Pinentry] = "waiting" /\ c # Pinentry)
               /\ UNCHANGED <<client, reply>>
  /\ UNCHANGED <<launch, files, says, got>>

\* Nobody is waiting: it sleeps, and looks.
AcceptNobody ==
  /\ server = "accept" /\ queue = <<>>
  /\ server' = "look"
  /\ UNCHANGED <<launch, files, queue, cur, behind, served, peers>>

HandleForEver ==              \* mutant: reads from a silent client without a timeout
  /\ server = "handle"
  /\ says[cur] # "nothing"
  /\ server' = "look"
  /\ Become(cur, "answered")
  /\ reply' = IF cur = Pinentry THEN Reply(Password) ELSE reply
  /\ UNCHANGED <<launch, files, queue, cur, behind, served, says, got>>

\* handle_client: a password for GET, an error for anything else; nothing is sent to
\* a client that is silent for five seconds.
Handle ==
  /\ server = "handle"
  /\ server' = "look"
  /\ Become(cur, IF says[cur] = "nothing" THEN "cutOff" ELSE "answered")
  /\ reply' = IF cur = Pinentry THEN Reply(Password) ELSE reply
  /\ UNCHANGED <<launch, files, queue, cur, behind, served, says, got>>

\* The listener is closed with the thread, and so are the connections it has not
\* accepted.
Look ==
  /\ server = "look"
  /\ IF path
     THEN server' = "accept" /\ UNCHANGED <<queue, client, reply>>
     ELSE /\ server' = "gone"
          /\ queue' = <<>>
          /\ client' = [c \in Client |-> IF client[c] = "waiting" THEN "cutOff" ELSE client[c]]
          /\ reply' = IF client[Pinentry] = "waiting" THEN Error ELSE reply
  /\ UNCHANGED <<launch, files, cur, behind, served, says, got>>

-----------------------------------------------------------------------------
(* The clients *)

Arrive(c, text) ==
  /\ client[c] = "away"
  /\ path
  /\ queue' = Append(queue, c)
  /\ Become(c, "waiting")
  /\ says' = [says EXCEPT ![c] = text]

Connect(c) ==
  /\ case.others
  /\ c # Pinentry
  /\ \E text \in {"nothing", "GET", "other"} : Arrive(c, text)
  /\ UNCHANGED <<launch, files, server, cur, behind, served, reply, got>>

\* openfortivpn asks pinentry-tofv, which asks the socket; without it secret-tool,
\* which has no keyring to ask when root runs it.
GetPin ==
  /\ child = "vpn"
  /\ client[Pinentry] = "away" /\ got = None
  /\ IF path THEN Arrive(Pinentry, "GET") /\ UNCHANGED got
     ELSE got' = Cancelled /\ UNCHANGED <<queue, says, client>>
  /\ UNCHANGED <<launch, files, server, cur, behind, served, reply>>

\* fetch_password returns, and pinentry-tofv answers.
Answer ==
  /\ reply # None /\ got = None
  /\ got' = Fetched(reply)
  /\ UNCHANGED <<launch, files, thread, says, client, reply>>

\* Its own five seconds are over: the thread reads from a silent client that it
\* accepted after pinentry-tofv had begun to wait.
GiveUp ==
  /\ client[Pinentry] = "waiting" /\ reply = None /\ got = None
  /\ server = "handle" /\ says[cur] = "nothing" /\ behind
  /\ got' = Cancelled
  /\ UNCHANGED <<launch, files, thread, says, client, reply>>

-----------------------------------------------------------------------------
Serve == Accept \/ AcceptNobody \/ Handle \/ Look

Next ==
  \/ BeginConnect \/ SavePassword \/ ClearPassword \/ StartSession \/ HelperStart
  \/ VpnExits \/ DropBegin \/ DropEnd
  \/ Serve
  \/ \E c \in Client : Connect(c)
  \/ GetPin \/ Answer \/ GiveUp

Spec == Init /\ [][Next]_vars

\* The thread runs, and its reads end after five seconds.
FairSpec == Spec /\ WF_vars(Serve)
-----------------------------------------------------------------------------
(* Properties *)

\* A connect that the gate let go on to the code does not fail for something the gate
\* was there to find.  It may fail for what config.toml names, which the doctor does
\* not read, for a pkexec that is not in PATH, and for a password removed meanwhile
\* (main.rs:309-338, doctor.rs:118, runner.rs:120-131).
GateSound ==
  stage = "failed" =>
    \/ why = "password" /\ stored = None
    \/ why = "openfortivpn" /\ machine.vpn = "gone"
    \/ why = "elevate" /\ (machine.elevate = "sudo" \/ "usr" \notin machine.path)

\* Which of the profiles that pass validate_ready the helper refuses: a host with
\* anything but the ASCII of host names, a name with a blank, a control character or
\* an "=" in it, a pin that was stored with an end of line before it (profile.rs:148,
\* 173; validate.rs:146-221).
HelperWillTake(p) ==
  /\ \A i \in DOMAIN p.host :
       p.host[i] = "x" \/ \/ \A j \in 1..i : p.host[j] \in Blank
                          \/ \A j \in i..Len(p.host) : p.host[j] \in Blank
  /\ \A f \in {"username", "realm"} : \A i \in DOMAIN p[f] :
       /\ p[f][i] \notin {"=", "ctl"}
       /\ p[f][i] \in Blank =>
            \/ \A j \in 1..i : p[f][j] \in Blank
            \/ \A j \in i..Len(p[f]) : p[f][j] \in Blank
  /\ \A i, j \in DOMAIN p.cert : p.cert[i] = "LF" /\ p.cert[j] = "hex" => j < i

HelperAgrees ==
  /\ child = "over" /\ why = "config" => ~HelperWillTake(profile) \/ stage = "closed"
  /\ child = "vpn" => HelperWillTake(profile)

\* The config that openfortivpn is run with says what the profile says and no more:
\* each field once, without the blanks around it, no realm that is blank
\* (openfortivpn_conf.rs:5, validate.rs:146).
Fields(p) ==
  {<<ToText("host"), Trim(p.host)>>, <<ToText("port"), ToText("port")>>,
   <<ToText("username"), Trim(p.username)>>,
   <<ToText("no-ftm-push"), ToText("1")>>, <<ToText("otp"), ToText("code")>>}
  \cup {<<ToText("realm"), Trim(r)>> : r \in {r \in {p.realm} : Chars(r) \ Blank # {}}}
  \cup {<<ToText("trusted-cert"), ToText("hex")>> : c \in {p.cert} \ {Unset}}

FieldsArrive ==
  child = "vpn" /\ conf # None => Pairs(conf) = Fields(profile)

\* openfortivpn gets the password from the keyring, but for the blanks at its end,
\* which are taken for the end of the reply (pinentry_socket.rs:218).  It gets none if
\* the password is all blanks, if the session was dropped, if MaxServes other requests
\* came first, or if the thread was kept by a client that says nothing.
PasswordArrives ==
  LET p == Password
      IsEnd(n) == \A i \in (n + 1)..Len(p) : p[i] = "SP"
  IN  got # None =>
        \/ \E n \in 1..Len(p) :
             IsEnd(n) /\ ~IsEnd(n - 1) /\ got = <<"D">> \o SubSeq(p, 1, n)
        \/ /\ got = Cancelled
           /\ \/ IsEnd(0)
              \/ ~path
              \/ Cardinality({c \in Own : client[c] = "answered" \/ client[c] = "cutOff"})
                   >= MaxServes
              \/ \E c \in Own : says[c] = "nothing" /\ client[c] # "away"

-----------------------------------------------------------------------------
(* What makes the invariants inductive *)

\* What the gate found is so from then on, but for a password that is removed.
GateHeld ==
  /\ stage \notin {"asked", "refused"} => ~DoctorBlocks(machine) /\ Ready(profile)
  /\ stage = "code" => Password # None \/ stored = None

\* What there is of a session at each stage.
Begun == {"started", "dropped", "closed"}

Staged ==
  /\ path <=> stage = "started"
  /\ conf = IF stage \in {"started", "dropped"} THEN Render(profile, "code") ELSE None
  /\ child # "none" => stage \in Begun
  /\ server = "gone" => stage # "started"
  /\ stage \in Begun => Password # None
  /\ stage \notin Begun =>
       /\ server = "none" /\ queue = <<>> /\ reply = None /\ got = None /\ served = 0
       /\ \A c \in Client : client[c] = "away"

\* The helper looked at the config of this session.
HelperLooked ==
  /\ stage \in {"asked", "code"} \/ child \in {"polkit", "vpn"} => why = "nothing"
  /\ child = "vpn" => Accepts(Render(profile, "code"))
  /\ child = "over" /\ why = "config" /\ stage # "closed" =>
       ~Accepts(Render(profile, "code"))

\* The queue, and the one that is handled, are of clients that wait.
QueueWaits ==
  /\ \A i \in 1..Len(queue) :
       /\ client[queue[i]] = "waiting"
       /\ server = "handle" => queue[i] # cur
       /\ \A j \in 1..Len(queue) : queue[i] = queue[j] => i = j
  /\ server = "handle" => client[cur] = "waiting" /\ cur \notin Refused

\* What counts of the requests is over, but for the one that is handled.
Done == {c \in Own : client[c] = "answered" \/ client[c] = "cutOff"}

Counted ==
  /\ client[Pinentry] \in {"away", "waiting"} /\ ~(server = "handle" /\ cur = Pinentry) =>
       served <= Cardinality(Done) + (IF server = "handle" THEN 1 ELSE 0)
  /\ client[Pinentry] = "refused" => Cardinality(Done) >= MaxServes

\* What pinentry-tofv can read is what became of its request.
ReplyFits ==
  /\ reply = None <=> client[Pinentry] \in {"away", "waiting"}
  /\ client[Pinentry] = "answered" => reply = Reply(Password)
  /\ client[Pinentry] \in {"refused", "cutOff"} => reply = Error
  /\ client[Pinentry] # "away" => says[Pinentry] = "GET"
  /\ client[Pinentry] = "cutOff" => ~path

IInv ==
  /\ TypeOK /\ GateSound /\ PasswordArrives
  /\ GateHeld /\ Staged /\ HelperLooked /\ QueueWaits /\ Counted /\ ReplyFits
-----------------------------------------------------------------------------
\* The pinentry thread ends once its path is gone, so that the drop does not wait for
\* ever, and pinentry-tofv is not kept waiting (pinentry_socket.rs:138-157,
\* 182, 206).
PinentryEnds ==
  /\ stage = "dropped" ~> server = "gone"
  /\ client[Pinentry] = "waiting" ~> reply # None \/ got # None
=============================================================================
