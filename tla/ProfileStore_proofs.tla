------------------------ MODULE ProfileStore_proofs ------------------------
(* Proofs about ProfileStore, for any changes, fields and values. *)
EXTENDS ProfileStore, TLAPS

\* What can be read is a profile.
LEMMA LoadedIsProfile == TypeOK /\ Readable => Loaded \in Profile
BY StoreAssumption, ContentAssumption DEF TypeOK, Readable, Loaded, Default, Content, Profile

\* A change to some fields of a profile is a profile, and alters no other field.
LEMMA ChangeKeeps ==
  ASSUME NEW p \in Profile, NEW fields \in SUBSET Field, NEW v \in Value
  PROVE  /\ Change(p, fields, v) \in Profile
         /\ \A f \in Field \ fields : Change(p, fields, v)[f] = p[f]
BY DEF Change, Profile

\* Where the three ways to begin a change agree: it asks for a profile that differs from
\* the stored one, or from the one in the form, only in the fields its user changed.
LEMMA Beginnings ==
  ASSUME TypeOK, NEW w \in Writer, NEW v \in Value, NEW fields \in SUBSET Field,
         SetFields(w, fields, v) \/ SubmitForm(w, fields, v) \/ TrustCert(w, v)
  PROVE  \E asked \in Profile, known \in SUBSET Field, from \in {w, TheForm} :
           /\ Begin(w, asked, known, from)
           /\ \A f \in Field \ known :
                asked[f] = (IF from = TheForm THEN form[f] ELSE Loaded[f])
<1>1. w # TheForm
  BY StoreAssumption
<1>2. CASE SetFields(w, fields, v)
  <2>1. Loaded \in Profile
    BY <1>2, LoadedIsProfile DEF SetFields, Begin
  <2>2. QED
    BY <1>1, <1>2, <2>1, ChangeKeeps DEF SetFields
<1>3. CASE SubmitForm(w, fields, v)
  <2>1. form \in Profile
    BY DEF TypeOK
  <2>2. Begin(w, Change(form, fields, v), fields, TheForm)
    BY <1>3 DEF SubmitForm
  <2>3. QED
    BY <2>1, <2>2, ChangeKeeps
<1>4. CASE TrustCert(w, v)
  <2>1. Loaded \in Profile
    BY <1>4, LoadedIsProfile DEF TrustCert, Begin
  <2>2. {Cert} \in SUBSET Field
    BY StoreAssumption
  <2>3. QED
    BY <1>1, <1>4, <2>1, <2>2, ChangeKeeps DEF TrustCert
<1>5. QED
  BY <1>2, <1>3, <1>4

\* Every variable keeps its type.
LEMMA TypeStep == TypeOK /\ [Next]_vars => TypeOK'
<1> SUFFICES ASSUME TypeOK, [Next]_vars PROVE TypeOK'
  OBVIOUS
<1> USE StoreAssumption, ContentAssumption DEF files, asking, Content
<1>0. Default \in Profile
  BY DEF Default, Profile
<1>1. CASE Refresh
  BY <1>1, LoadedIsProfile DEF Refresh, TypeOK
<1>2. ASSUME NEW w \in Writer, NEW v \in Value, NEW fields \in SUBSET Field,
             SetFields(w, fields, v) \/ SubmitForm(w, fields, v) \/ TrustCert(w, v)
      PROVE TypeOK'
  <2>1. PICK asked \in Profile, known \in SUBSET Field, from \in {w, TheForm} :
          Begin(w, asked, known, from)
    BY <1>2, Beginnings
  <2>2. QED
    BY <2>1 DEF Begin, Goto, TypeOK
<1>3. ASSUME NEW w \in Writer, Refuse(w) PROVE TypeOK'
  BY <1>0, <1>3 DEF Refuse, End, Goto, TypeOK
<1>4. ASSUME NEW w \in Writer, OpenTmp(w) PROVE TypeOK'
  BY <1>4 DEF OpenTmp, Goto, TypeOK
<1>5. ASSUME NEW w \in Writer, WriteBody(w) PROVE TypeOK'
  BY <1>5 DEF WriteBody, Overlay, Goto, TypeOK
<1>6. ASSUME NEW w \in Writer, WriteFails(w) PROVE TypeOK'
  BY <1>0, <1>6 DEF WriteFails, End, Goto, TypeOK
<1>7. ASSUME NEW w \in Writer, RenameTmp(w) PROVE TypeOK'
  <2>1. handle' \in [Writer -> {"none", "tmp", "stored", "unlinked"}]
    BY <1>7 DEF RenameTmp, TypeOK
  <2>2. QED
    BY <1>0, <1>7, <2>1 DEF RenameTmp, End, Goto, TypeOK
<1>8. ASSUME NEW w \in Writer, RenameFails(w) PROVE TypeOK'
  BY <1>0, <1>8 DEF RenameFails, End, Goto, TypeOK
<1>9. ASSUME NEW w \in Writer, Kill(w) PROVE TypeOK'
  BY <1>0, <1>9, LoadedIsProfile DEF Kill, End, Goto, TypeOK
<1>10. CASE UNCHANGED vars
  BY <1>10 DEF vars, TypeOK
<1>11. QED
  BY <1>1, <1>2, <1>3, <1>4, <1>5, <1>6, <1>7, <1>8, <1>9, <1>10 DEF Next

\* It has it to begin with.
LEMMA TypesInit == Init => TypeOK
<1> SUFFICES ASSUME Init PROVE TypeOK
  OBVIOUS
<1>1. Default \in Profile
  BY StoreAssumption DEF Default, Profile
<1>2. form \in Profile
  BY <1>1, ContentAssumption DEF Init, Loaded
<1>3. QED
  BY <1>1, <1>2 DEF Init, TypeOK, Content

\* ... and so it has it in every behaviour.
THEOREM TypesCorrect == Spec => []TypeOK
<1>1. QED
  BY TypesInit, TypeStep, PTL DEF Spec

\* The file a change has open stays its own until somebody opens it as well.
LEMMA TmpStep == StoreInv /\ [Next]_vars => TmpIsMine'
<1> SUFFICES ASSUME StoreInv, [Next]_vars PROVE TmpIsMine'
  OBVIOUS
<1> USE StoreAssumption DEF files, asking, StoreInv
<1>1. CASE Refresh
  BY <1>1 DEF Refresh, TmpIsMine, Writing, MainThreadFree
<1>2. ASSUME NEW w \in Writer, NEW v \in Value, NEW fields \in SUBSET Field,
             SetFields(w, fields, v) \/ SubmitForm(w, fields, v) \/ TrustCert(w, v)
      PROVE TmpIsMine'
  <2>1. PICK asked \in Profile, known \in SUBSET Field, from \in {w, TheForm} :
          Begin(w, asked, known, from)
    BY <1>2, Beginnings
  <2>2. QED
    BY <2>1 DEF Begin, Goto, TypeOK, TmpIsMine, Writing
<1>3. ASSUME NEW w \in Writer, Refuse(w) PROVE TmpIsMine'
  BY <1>3 DEF Refuse, End, Goto, TypeOK, TmpIsMine, Writing
<1>4. ASSUME NEW w \in Writer, OpenTmp(w) PROVE TmpIsMine'
  BY <1>4 DEF OpenTmp, Goto, TypeOK, TmpIsMine, Writing
<1>5. ASSUME NEW w \in Writer, WriteBody(w) PROVE TmpIsMine'
  BY <1>5 DEF WriteBody, Overlay, Goto, TypeOK, TmpIsMine, Writing
<1>6. ASSUME NEW w \in Writer, WriteFails(w) PROVE TmpIsMine'
  BY <1>6 DEF WriteFails, End, Goto, TypeOK, TmpIsMine, Writing
<1>7. ASSUME NEW w \in Writer, RenameTmp(w) PROVE TmpIsMine'
  BY <1>7 DEF RenameTmp, End, Goto, TypeOK, TmpIsMine, Writing
<1>8. ASSUME NEW w \in Writer, RenameFails(w) PROVE TmpIsMine'
  BY <1>8 DEF RenameFails, End, Goto, TypeOK, TmpIsMine, Writing
<1>9. ASSUME NEW w \in Writer, Kill(w) PROVE TmpIsMine'
  BY <1>9 DEF Kill, End, Goto, TypeOK, TmpIsMine, Writing
<1>10. CASE UNCHANGED vars
  BY <1>10 DEF vars, TmpIsMine, Writing
<1>11. QED
  BY <1>1, <1>2, <1>3, <1>4, <1>5, <1>6, <1>7, <1>8, <1>9, <1>10 DEF Next

\* What is published is what the change wants, if the temporary file was its own.
LEMMA PublishesItsOwn ==
  ASSUME StoreInv, NEW w \in Writer, RenameTmp(w), ~shared
  PROVE  stored' = ask[w] /\ ask[w] \in Profile /\ Loaded' = ask[w]
<1>1. tmp = ask[w] /\ ask[w] \in Profile
  BY DEF StoreInv, TypeOK, TmpIsMine, Writing, RenameTmp
<1>2. stored' = ask[w]
  BY <1>1 DEF RenameTmp
<1>3. QED
  BY <1>1, <1>2, ContentAssumption DEF Loaded, Content

\* Without sharing, nothing but a rename alters what is stored.
LEMMA OnlyRenameStores ==
  ASSUME StoreInv, [Next]_vars, ~shared, \A w \in Writer : ~RenameTmp(w)
  PROVE  stored' = stored /\ Loaded' = Loaded
<1>1. \A w \in Writer : Writing(w) => handle[w] = "tmp"
  BY DEF StoreInv, TmpIsMine
<1>2. stored' = stored
  <2>1. ASSUME NEW w \in Writer, WriteBody(w) \/ WriteFails(w) PROVE stored' = stored
    BY <1>1, <2>1 DEF WriteBody, WriteFails, Writing
  <2>2. QED
    BY <2>1 DEF Next, Refresh, SetFields, SubmitForm, TrustCert, Begin, Refuse, OpenTmp,
       RenameFails, Kill, files, vars
<1>3. QED
  BY <1>2 DEF Loaded

\* default.toml stays one whole profile.
LEMMA WholeStep == StoreInv /\ [Next]_vars => FileWhole'
<1> SUFFICES ASSUME StoreInv, [Next]_vars, ~shared' PROVE stored' # Missing => stored' \in Profile
  BY DEF FileWhole
<1>1. ~shared
  BY DEF Next, Refresh, SetFields, SubmitForm, TrustCert, Begin, Refuse, OpenTmp,
     WriteBody, WriteFails, RenameTmp, RenameFails, Kill, vars
<1>2. CASE \E w \in Writer : RenameTmp(w)
  BY <1>1, <1>2, PublishesItsOwn
<1>3. CASE \A w \in Writer : ~RenameTmp(w)
  BY <1>1, <1>3, OnlyRenameStores DEF StoreInv, FileWhole
<1>4. QED
  BY <1>2, <1>3

\* Who is not behind goes on agreeing with what is stored.
LEMMA BehindStep == StoreInv /\ [Next]_vars => NotBehind'
<1> SUFFICES ASSUME StoreInv, [Next]_vars, ~shared' PROVE NotBehind'
  BY DEF NotBehind
<1>0. ~shared
  BY DEF Next, Refresh, SetFields, SubmitForm, TrustCert, Begin, Refuse, OpenTmp,
     WriteBody, WriteFails, RenameTmp, RenameFails, Kill, vars
<1>a. ASSUME \A w \in Writer : ~RenameTmp(w) PROVE stored' = stored /\ Loaded' = Loaded
  BY <1>0, <1>a, OnlyRenameStores
<1> USE <1>0, StoreAssumption DEF files, asking, StoreInv, TypeOK
<1>1. CASE Refresh
  <2>1. Loaded' = Loaded
    BY <1>1 DEF Refresh, Loaded
  <2>2. QED
    BY <1>1, <2>1 DEF Refresh, NotBehind, Under
<1>2. ASSUME NEW w \in Writer, NEW v \in Value, NEW fields \in SUBSET Field,
             SetFields(w, fields, v) \/ SubmitForm(w, fields, v) \/ TrustCert(w, v)
      PROVE NotBehind'
  <2>1. PICK asked \in Profile, known \in SUBSET Field, from \in {w, TheForm} :
          /\ Begin(w, asked, known, from)
          /\ \A f \in Field \ known :
               asked[f] = (IF from = TheForm THEN form[f] ELSE Loaded[f])
    BY <1>2, Beginnings
  <2>2. Loaded' = Loaded
    BY <2>1 DEF Begin, Loaded
  <2>3. ASSUME NEW u \in Writer \ behind', Under(u)', NEW f \in Field \ meant'[u]
        PROVE  ask'[u][f] = Loaded[f]
    <3>1. CASE u = w
      <4>1. from \in behind => w \in behind'
        BY <2>1 DEF Begin
      <4>2. from = TheForm => TheForm \notin behind
        BY <2>3, <3>1, <4>1
      <4>3. ask'[w] = asked /\ meant'[w] = known
        BY <2>1 DEF Begin
      <4>4. QED
        BY <2>1, <2>3, <3>1, <4>2, <4>3 DEF NotBehind
    <3>2. CASE u # w
      BY <2>1, <2>3, <3>2 DEF Begin, Goto, NotBehind, Under
    <3>3. QED
      BY <3>1, <3>2
  <2>4. TheForm \notin behind' => form' = Loaded
    BY <2>1 DEF Begin, NotBehind
  <2>5. QED
    BY <2>2, <2>3, <2>4 DEF NotBehind
<1>3. ASSUME NEW w \in Writer, Refuse(w) PROVE NotBehind'
  <2>1. Loaded' = Loaded
    BY <1>3 DEF Refuse, Loaded
  <2>2. QED
    BY <1>3, <2>1 DEF Refuse, End, Goto, NotBehind, Under
<1>4. ASSUME NEW w \in Writer, OpenTmp(w) PROVE NotBehind'
  <2>1. Loaded' = Loaded
    BY <1>4 DEF OpenTmp, Loaded
  <2>2. QED
    BY <1>4, <2>1 DEF OpenTmp, Goto, NotBehind, Under
<1>5. ASSUME NEW w \in Writer, WriteBody(w) PROVE NotBehind'
  <2>1. Loaded' = Loaded
    BY <1>5 DEF WriteBody, TmpIsMine, Writing, Loaded
  <2>2. QED
    BY <1>5, <2>1 DEF WriteBody, Goto, NotBehind, Under
<1>6. ASSUME NEW w \in Writer, WriteFails(w) PROVE NotBehind'
  <2>1. Loaded' = Loaded
    BY <1>6 DEF WriteFails, TmpIsMine, Writing, Loaded
  <2>2. QED
    BY <1>6, <2>1 DEF WriteFails, End, Goto, NotBehind, Under
<1>7. ASSUME NEW w \in Writer, RenameTmp(w) PROVE NotBehind'
  BY <1>7 DEF RenameTmp, End, Goto, NotBehind, Under
<1>8. ASSUME NEW w \in Writer, RenameFails(w) PROVE NotBehind'
  <2>1. Loaded' = Loaded
    BY <1>8 DEF RenameFails, Loaded
  <2>2. QED
    BY <1>8, <2>1 DEF RenameFails, End, Goto, NotBehind, Under
<1>9. ASSUME NEW w \in Writer, Kill(w) PROVE NotBehind'
  <2>1. Loaded' = Loaded /\ Readable
    BY <1>9, ContentAssumption DEF Kill, Loaded, Readable, FileWhole, Content
  <2>2. QED
    BY <1>9, <2>1 DEF Kill, End, Goto, NotBehind, Under
<1>10. CASE UNCHANGED vars
  BY <1>10 DEF vars, NotBehind, Under, Loaded
<1>11. QED
  BY <1>1, <1>2, <1>3, <1>4, <1>5, <1>6, <1>7, <1>8, <1>9, <1>10 DEF Next

\* The inductive invariant of the store.
THEOREM StoreInvariant == Spec => []StoreInv
<1>1. Init => StoreInv
  <2> SUFFICES ASSUME Init PROVE TmpIsMine /\ FileWhole /\ NotBehind
    BY TypesInit DEF StoreInv
  <2>1. TmpIsMine
    BY DEF Init, TmpIsMine, Writing
  <2>2. FileWhole /\ NotBehind
    BY DEF Init, FileWhole, NotBehind, Under
  <2>3. QED
    BY <2>1, <2>2
<1>2. StoreInv /\ [Next]_vars => StoreInv'
  BY TypeStep, TmpStep, WholeStep, BehindStep DEF StoreInv
<1>3. QED
  BY <1>1, <1>2, PTL DEF Spec

\* As long as no two changes share the temporary file, default.toml is one whole profile,
\* whichever of them fail or are killed (profile.rs:107-132).
THEOREM ProfileStaysWhole == Spec => []FileWhole
<1>1. StoreInv => FileWhole
  BY DEF StoreInv
<1>2. QED
  BY <1>1, StoreInvariant, PTL

\* Whoever publishes has written and renames.
LEMMA PublishIsRename ==
  ASSUME TypeOK, [Next]_vars, NEW w \in Writer, Publishes(w)
  PROVE  RenameTmp(w)
BY DEF Publishes, Next, Refresh, SetFields, SubmitForm, TrustCert, Begin, Refuse, OpenTmp,
   WriteBody, WriteFails, RenameTmp, RenameFails, Kill, End, Goto, vars, TypeOK

\* ... and the other way round.
LEMMA RenameIsPublish ==
  ASSUME TypeOK, NEW w \in Writer, RenameTmp(w)
  PROVE  Publishes(w)
BY DEF Publishes, RenameTmp, End, Goto, TypeOK

\* "Omitted flags keep their previous value" (tofv.rs:87), unless another change came in
\* between or the form was filled before one.
THEOREM OmittedFieldsKept == Spec => OmittedKept
<1>1. StoreInv /\ [Next]_vars =>
        [\A w \in Writer :
           Publishes(w) /\ ~shared /\ w \notin behind =>
             \A f \in Field \ meant[w] : Loaded'[f] = Loaded[f]]_vars
  <2> SUFFICES ASSUME StoreInv, [Next]_vars, NEW w \in Writer,
                      Publishes(w), ~shared, w \notin behind, NEW f \in Field \ meant[w]
               PROVE  Loaded'[f] = Loaded[f]
    OBVIOUS
  <2>1. RenameTmp(w)
    BY PublishIsRename DEF StoreInv
  <2>2. Loaded' = ask[w]
    BY <2>1, PublishesItsOwn
  <2>3. ask[w][f] = Loaded[f]
    BY DEF StoreInv, NotBehind, Under, Publishes
  <2>4. QED
    BY <2>2, <2>3
<1>2. QED
  BY <1>1, StoreInvariant, PTL DEF Spec, OmittedKept

\* The stored profile changes exactly when a change reports success, to what it wanted.
THEOREM StoredWhenReported == Spec => StoredAsReported
<1>1. StoreInv /\ [Next]_vars =>
        [~shared' =>
           /\ \A w \in Writer : Publishes(w) => Loaded' = ask[w]
           /\ (\A w \in Writer : ~Publishes(w)) => UNCHANGED stored]_vars
  <2> SUFFICES ASSUME StoreInv, [Next]_vars, ~shared'
               PROVE  /\ \A w \in Writer : Publishes(w) => Loaded' = ask[w]
                      /\ (\A w \in Writer : ~Publishes(w)) => UNCHANGED stored
    OBVIOUS
  <2>1. ~shared
    BY DEF Next, Refresh, SetFields, SubmitForm, TrustCert, Begin, Refuse, OpenTmp,
       WriteBody, WriteFails, RenameTmp, RenameFails, Kill, vars
  <2>2. ASSUME NEW w \in Writer, Publishes(w) PROVE Loaded' = ask[w]
    BY <2>1, <2>2, PublishIsRename, PublishesItsOwn DEF StoreInv
  <2>3. ASSUME \A w \in Writer : ~Publishes(w) PROVE UNCHANGED stored
    BY <2>1, <2>3, RenameIsPublish, OnlyRenameStores DEF StoreInv
  <2>4. QED
    BY <2>2, <2>3
<1>2. QED
  BY <1>1, StoreInvariant, PTL DEF Spec, StoredAsReported
=============================================================================
