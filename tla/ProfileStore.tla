---------------------------- MODULE ProfileStore ----------------------------
(***************************************************************************)
(* The one profile of a user, profiles/default.toml (tofv-core's           *)
(* profile.rs and paths.rs), and everything that changes it: the panel's   *)
(* form and its certificate dialogue (save_profile and trust_cert of       *)
(* tofv-app) and the commands `tofv profile set' and `tofv trust'.         *)
(*                                                                         *)
(* Each change loads the profile, alters it, writes default.toml.tmp and   *)
(* renames that to default.toml.  The commands of the app run one after    *)
(* the other on its main thread; a command line runs in a process of its   *)
(* own, and nothing keeps it from the app or from another.  All of them    *)
(* use the same temporary file.                                            *)
(*                                                                         *)
(* A change that finds default.toml.tmp there truncates and reuses it, and *)
(* an open file follows the rename: a change may have default.toml open.   *)
(***************************************************************************)
EXTENDS FiniteSets, Naturals

CONSTANTS
  Save,         \* submissions of the panel's form
  Trust,        \* answers to the panel's certificate dialogue
  Set,          \* runs of `tofv profile set' and `tofv trust'
  Field,        \* the fields of a profile; Cert is one of them
  Cert,         \* trusted_cert
  Value,        \* what a field may hold
  Unset,        \* the default of every field
  Missing,      \* no such file
  Empty,        \* a file just truncated
  Torn          \* a file that is not one profile: a part, or one over another

Writer  == Save \cup Trust \cup Set
TheForm == "form"

ASSUME StoreAssumption ==
  /\ Cert \in Field
  /\ Unset \in Value
  /\ Save \cap Trust = {} /\ Save \cap Set = {} /\ Trust \cap Set = {}
  /\ TheForm \notin Writer
Profile == [Field -> Value]
Content == Profile \cup {Empty, Torn}

ASSUME ContentAssumption ==
  /\ Empty \notin Profile /\ Torn \notin Profile /\ Missing \notin Content
  /\ Empty # Torn

VARIABLES
  stored,       \* what default.toml holds
  tmp,          \* what default.toml.tmp holds
  form,         \* the profile the panel shows
  pc,           \* how far each change has come
  ask,          \* the profile it wants to store
  meant,        \* the fields its user changed
  handle,       \* where the file it has open is: "tmp", "stored", or "unlinked"
  behind,       \* changes, and the form, that know an older profile than the stored
  shared        \* two changes had the temporary file open together

files  == <<stored, tmp, handle>>
asking == <<ask, meant>>
vars   == <<stored, tmp, handle, form, pc, ask, meant, behind, shared>>

TypeOK ==
  /\ stored \in Content \cup {Missing}
  /\ tmp \in Content \cup {Missing}
  /\ form \in Profile
  /\ pc \in [Writer -> {"idle", "loaded", "opened", "written", "stored", "failed"}]
  /\ ask \in [Writer -> Profile]
  /\ meant \in [Writer -> SUBSET Field]
  /\ handle \in [Writer -> {"none", "tmp", "stored", "unlinked"}]
  /\ behind \subseteq Writer \cup {TheForm}
  /\ shared \in BOOLEAN

Default == [f \in Field |-> Unset]

\* load_default_profile: no file is the default profile, and an empty file is a
\* TOML document whose fields all have their defaults.  Torn does not parse.
Readable == stored # Torn
Loaded   == IF stored \in {Missing, Empty} THEN Default ELSE stored

Init ==
  /\ stored \in Profile \cup {Missing}
  /\ tmp = Missing
  /\ form = Loaded
  /\ pc = [w \in Writer |-> "idle"]
  /\ ask = [w \in Writer |-> Default]
  /\ meant = [w \in Writer |-> {}]
  /\ handle = [w \in Writer |-> "none"]
  /\ behind = {}
  /\ shared = FALSE

Goto(w, to) == pc' = [pc EXCEPT ![w] = to]

\* The change is over: it reported success, or it failed or died.  What it
\* wanted is forgotten and its file is closed.
End(w, to) ==
  /\ Goto(w, to)
  /\ ask' = [ask EXCEPT ![w] = Default]
  /\ meant' = [meant EXCEPT ![w] = {}]

Under(w)   == pc[w] \in {"loaded", "opened", "written"}
Writing(w) == pc[w] \in {"opened", "written"}

-----------------------------------------------------------------------------
(* What a change does to the profile it loaded *)

\* Only one command of the app runs at a time.
MainThreadFree == \A v \in Save \cup Trust : ~Under(v)

Begin(w, asked, fields, from) ==
  /\ pc[w] = "idle"
  /\ Readable
  /\ Goto(w, "loaded")
  /\ ask' = [ask EXCEPT ![w] = asked]
  /\ meant' = [meant EXCEPT ![w] = fields]
  /\ behind' = IF from \in behind THEN behind \cup {w} ELSE behind \ {w}
  /\ UNCHANGED <<files, form, shared>>

Change(p, fields, v) == [f \in Field |-> IF f \in fields THEN v ELSE p[f]]

SetOverDefault(w, fields, v) == \* mutant: omitted fields come from the default profile
  w \in Set /\ Begin(w, Change(Default, fields, v), fields, w)

\* `tofv profile set' replaces the fields it was given, `tofv trust' the pin.
SetFields(w, fields, v) ==
  /\ w \in Set
  /\ Begin(w, Change(Loaded, fields, v), fields, w)

\* save_profile replaces every field with what the form shows, edited or not.
SubmitForm(w, fields, v) ==
  /\ w \in Save
  /\ MainThreadFree
  /\ Begin(w, Change(form, fields, v), fields, TheForm)

TrustCertUnchecked(w, v) ==   \* mutant: pins what did not validate
  /\ w \in Trust
  /\ MainThreadFree
  /\ Begin(w, Change(Loaded, {Cert}, "garbage"), {Cert}, w)

\* trust_cert validates the digest, then replaces the pin.
TrustCert(w, v) ==
  /\ w \in Trust
  /\ MainThreadFree
  /\ v # Unset
  /\ Begin(w, Change(Loaded, {Cert}, v), {Cert}, w)

\* The profile does not parse, or the change does not validate.
Refuse(w) ==
  /\ \/ pc[w] = "idle" /\ ~Readable
     \/ pc[w] = "loaded"
  /\ w \in Save \cup Trust => \A v \in (Save \cup Trust) \ {w} : ~Under(v)
  /\ End(w, "failed")
  /\ behind' = behind \ {w}
  /\ UNCHANGED <<files, form, shared>>

\* get_state, then render: the inputs of the form are overwritten.
Refresh ==
  /\ MainThreadFree
  /\ Readable
  /\ form' = Loaded
  /\ behind' = behind \ {TheForm}
  /\ UNCHANGED <<files, pc, asking, shared>>

-----------------------------------------------------------------------------
(* Profile::save *)

OpenKeeps(w) ==               \* mutant: leaves what is there
  /\ pc[w] = "loaded"
  /\ Goto(w, "opened")
  /\ tmp' = IF tmp = Missing THEN Empty ELSE tmp
  /\ handle' = [handle EXCEPT ![w] = "tmp"]
  /\ shared' = (shared \/ \E v \in Writer \ {w} : Writing(v))
  /\ UNCHANGED <<stored, form, asking, behind>>

\* O_CREAT and O_TRUNC.
OpenTmp(w) ==
  /\ pc[w] = "loaded"
  /\ Goto(w, "opened")
  /\ tmp' = Empty
  /\ handle' = [handle EXCEPT ![w] = "tmp"]
  /\ shared' = (shared \/ \E v \in Writer \ {w} : Writing(v))
  /\ UNCHANGED <<stored, form, asking, behind>>

\* Over what another has written there, the end of a longer text remains.
Overlay(old, new) == IF old = Empty THEN {new} ELSE {new, Torn}

WriteBody(w) ==
  /\ pc[w] = "opened"
  /\ Goto(w, "written")
  /\ tmp' \in IF handle[w] = "tmp" THEN Overlay(tmp, ask[w]) ELSE {tmp}
  /\ stored' \in IF handle[w] = "stored" THEN Overlay(stored, ask[w]) ELSE {stored}
  /\ UNCHANGED <<form, asking, handle, behind, shared>>

\* The disk is full: what was written stays behind in the temporary file.
WriteFails(w) ==
  /\ pc[w] = "opened"
  /\ End(w, "failed")
  /\ tmp' = IF handle[w] = "tmp" THEN Torn ELSE tmp
  /\ stored' = IF handle[w] = "stored" THEN Torn ELSE stored
  /\ handle' = [handle EXCEPT ![w] = "none"]
  /\ behind' = behind \ {w}
  /\ UNCHANGED <<form, shared>>

RenameUnchecked(w) ==         \* mutant: reports a change that was not stored
  /\ pc[w] = "written"
  /\ End(w, "stored")
  /\ handle' = [handle EXCEPT ![w] = "none"]
  /\ UNCHANGED <<stored, tmp, form, behind, shared>>

\* rename publishes whatever is under default.toml.tmp by now.
RenameTmp(w) ==
  /\ pc[w] = "written"
  /\ tmp # Missing
  /\ stored' = tmp
  /\ tmp' = Missing
  /\ handle' = [v \in Writer |-> IF v = w THEN "none"
                                 ELSE CASE handle[v] = "tmp" -> "stored"
                                        [] handle[v] = "stored" -> "unlinked"
                                        [] OTHER -> handle[v]]
  /\ End(w, "stored")
  /\ behind' = (behind \cup {v \in Writer : Under(v)} \cup {TheForm}) \ {w}
  /\ UNCHANGED <<form, shared>>

RenameFails(w) ==
  /\ pc[w] = "written"
  /\ End(w, "failed")
  /\ handle' = [handle EXCEPT ![w] = "none"]
  /\ behind' = behind \ {w}
  /\ UNCHANGED <<stored, tmp, form, shared>>

\* The process goes; when it was the app, the next one loads its form afresh.
Kill(w) ==
  /\ Under(w)
  /\ End(w, "failed")
  /\ handle' = [handle EXCEPT ![w] = "none"]
  /\ IF w \in Set THEN UNCHANGED form /\ behind' = behind \ {w}
     ELSE /\ form' = IF Readable THEN Loaded ELSE Default
          /\ behind' = behind \ {w, TheForm}
  /\ UNCHANGED <<stored, tmp, shared>>

Next ==
  \/ Refresh
  \/ \E w \in Writer :
       \/ \E v \in Value : \/ \E fields \in SUBSET Field : SetFields(w, fields, v)
                                                           \/ SubmitForm(w, fields, v)
                           \/ TrustCert(w, v)
       \/ Refuse(w) \/ OpenTmp(w) \/ WriteBody(w) \/ WriteFails(w)
       \/ RenameTmp(w) \/ RenameFails(w) \/ Kill(w)

Spec == Init /\ [][Next]_vars

-----------------------------------------------------------------------------
(* Why it works *)

\* As long as nobody shared it, the temporary file belongs to the one change
\* that is writing, and holds nothing or what that change wants.
TmpIsMine ==
  \A w \in Writer :
    /\ ~Writing(w) => handle[w] = "none"
    /\ ~shared /\ Writing(w) =>
         /\ handle[w] = "tmp"
         /\ tmp = IF pc[w] = "opened" THEN Empty ELSE ask[w]
         /\ \A v \in Writer \ {w} : ~Writing(v)

\* Who is not behind agrees with what is stored.
NotBehind ==
  ~shared =>
    /\ TheForm \notin behind => form = Loaded
    /\ \A w \in Writer \ behind : Under(w) =>
         \A f \in Field \ meant[w] : ask[w][f] = Loaded[f]

-----------------------------------------------------------------------------
(* Properties *)

\* As long as no two changes have had the temporary file open together,
\* default.toml is one whole profile: a change that is killed, or that cannot
\* write, leaves its half only in the temporary file, and the next one truncates
\* it (profile.rs:107-132).
FileWhole == ~shared /\ stored # Missing => stored \in Profile

\* The change is the one that publishes what it opened, and it does so once.
Publishes(w) == pc[w] = "written" /\ pc'[w] = "stored"

\* "Omitted flags keep their previous value" (tofv.rs:87), and so do the fields
\* of the form that were not edited: a change whose profile nobody has replaced
\* since it was loaded, or since the form was filled, alters no other field.
OmittedKept ==
  [][\A w \in Writer :
       Publishes(w) /\ ~shared /\ w \notin behind =>
         \A f \in Field \ meant[w] : Loaded'[f] = Loaded[f]]_vars

\* What is stored changes exactly when a change reports success, and it is then
\* what that change wanted: one that fails or dies has altered nothing.
StoredAsReported ==
  [][~shared' =>
       /\ \A w \in Writer : Publishes(w) => Loaded' = ask[w]
       /\ (\A w \in Writer : ~Publishes(w)) => UNCHANGED stored]_vars

\* The inductive invariant.
StoreInv == TypeOK /\ TmpIsMine /\ FileWhole /\ NotBehind
=============================================================================
