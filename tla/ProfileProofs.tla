---------------------------- MODULE ProfileProofs ----------------------------
(***************************************************************************)
(* Machine-checked facts about ProfileSave, for any texts, any number of   *)
(* screens, keystrokes and saves.                                          *)
(***************************************************************************)
EXTENDS ProfileProperties, TLAPS

-----------------------------------------------------------------------------
(* The sequence of saves *)

LEMMA ReplacedItem ==
  ASSUME NEW S, NEW s \in Seq(S), NEW i \in DOMAIN s, NEW e \in S
  PROVE  /\ [s EXCEPT ![i] = e] \in Seq(S)
         /\ Len([s EXCEPT ![i] = e]) = Len(s)
         /\ DOMAIN [s EXCEPT ![i] = e] = DOMAIN s
         /\ [s EXCEPT ![i] = e][i] = e
         /\ \A j \in DOMAIN s : j # i => [s EXCEPT ![i] = e][j] = s[j]
  OBVIOUS

LEMMA AppendedItem ==
  ASSUME NEW S, NEW s \in Seq(S), NEW e \in S
  PROVE  /\ Append(s, e) \in Seq(S)
         /\ Len(Append(s, e)) = Len(s) + 1
         /\ DOMAIN Append(s, e) = DOMAIN s \cup {Len(s) + 1}
         /\ Len(s) \in Nat /\ DOMAIN s = 1..Len(s)
         /\ Append(s, e)[Len(s) + 1] = e
         /\ \A j \in DOMAIN s : Append(s, e)[j] = s[j]
  OBVIOUS

-----------------------------------------------------------------------------
(* What holds between the form, the keystrokes and the saves *)

\* The buffers are what the fields show.
Mirror == buffer = text

\* Screens are numbered as they are opened.
Known == /\ screen \in 0..spent["open"]
         /\ \A i \in DOMAIN saves : saves[i].screen \in 1..spent["open"]

\* A save button works only if there was a keystroke since the last save of
\* the screen.
Fresh ==
  \A i \in DOMAIN saves :
    /\ saves[i].strokes <= strokes
    /\ (enabled # {} /\ saves[i].screen = screen) => saves[i].strokes < strokes

\* Settled saves stay settled.
Past == \A i \in DOMAIN saves : saves[i].after \subseteq Settled

Inv == /\ TypeOK /\ Mirror /\ Known /\ Fresh /\ Past
       /\ SavedAsTyped /\ NoDoubleSave /\ SavesStick /\ SpinnerHonest /\ OneMode

\* The parts that speak of the saves alone.
SavesInv == Past /\ SavedAsTyped /\ NoDoubleSave /\ SavesStick

LEMMA SavesKept ==
  ASSUME SavesInv, UNCHANGED <<saves, file>>
  PROVE  SavesInv'
  BY DEF SavesInv, Past, Settled, SavedAsTyped, NoDoubleSave, SavesStick

LEMMA InitInv == Init => Inv
  <1> SUFFICES ASSUME Init PROVE Inv
    OBVIOUS
  <1>1. saves = <<>> /\ saves \in Seq(Save) /\ Len(saves) = 0 /\ DOMAIN saves = {}
    BY DEF Init
  <1>2. TypeOK
    <2>1. screen \in Nat /\ file \in 0..Len(saves) /\ strokes \in Nat
      BY <1>1 DEF Init
    <2>2. /\ text \in [Fields -> Texts] /\ buffer \in [Fields -> Texts]
          /\ spent \in [Kinds -> Nat]
      BY TextsAssumption DEF Init
    <2>3. /\ hidden \subseteq Buttons /\ enabled \subseteq SaveButtons
          /\ defaultImage \in Images
      BY DEF Init, Buttons, Images
    <2>4. fieldsEnabled \in BOOLEAN /\ spinning \in BOOLEAN
      BY DEF Init
    <2> QED
      BY <1>1, <2>1, <2>2, <2>3, <2>4 DEF TypeOK
  <1>3. /\ Mirror /\ Known /\ Fresh /\ Past
        /\ SavedAsTyped /\ NoDoubleSave /\ SavesStick /\ SpinnerHonest /\ OneMode
    BY <1>1 DEF Init, Mirror, Known, Fresh, Past, SavedAsTyped, NoDoubleSave,
                SavesStick, SpinnerHonest, OneMode, Kinds
  <1> QED
    BY <1>2, <1>3 DEF Inv

LEMMA SavesAreTyped ==
  ASSUME TypeOK, NEW i \in DOMAIN saves
  PROVE  /\ saves[i] \in Save
         /\ saves[i].screen \in Nat /\ saves[i].profile \in Profile
         /\ saves[i].phase \in {"queued", "written", "failed"}
         /\ saves[i].done \in BOOLEAN /\ saves[i].strokes \in Nat
  <1>1. saves[i] \in Save
    BY DEF TypeOK
  <1> QED
    BY <1>1 DEF Save

LEMMA SpendCounts ==
  ASSUME TypeOK, NEW k \in Kinds, Spend(k)
  PROVE  /\ spent' \in [Kinds -> Nat]
         /\ spent'[k] = spent[k] + 1
         /\ \A j \in Kinds : j # k => spent'[j] = spent[j]
  BY DEF TypeOK, Spend

-----------------------------------------------------------------------------
(* Handlers that leave the saves alone *)

LEMMA OpenInv ==
  ASSUME Inv, profileButtonTapped
  PROVE  Inv'
  <1>1. /\ spent' \in [Kinds -> Nat]
        /\ spent'["open"] = spent["open"] + 1
    BY SpendCounts DEF Inv, profileButtonTapped, Kinds
  <1>2. TypeOK'
    BY <1>1, TextsAssumption DEF Inv, TypeOK, profileButtonTapped, ResetForm, Buttons,
       SaveButtons, Images, Kinds
  <1>3. Mirror' /\ SpinnerHonest' /\ OneMode'
    BY DEF profileButtonTapped, ResetForm, Mirror, SpinnerHonest, OneMode,
           SaveButtons
  <1>4. Known' /\ Fresh'
    BY <1>1 DEF Inv, TypeOK, profileButtonTapped, ResetForm, Known, Fresh, Kinds
  <1>5. SavesInv'
    BY SavesKept DEF Inv, SavesInv, profileButtonTapped
  <1> QED
    BY <1>2, <1>3, <1>4, <1>5 DEF Inv, SavesInv

LEMMA CloseInv ==
  ASSUME Inv, closeProfileButtonPressed
  PROVE  Inv'
  <1>1. TypeOK'
    BY DEF Inv, TypeOK, closeProfileButtonPressed
  <1>2. Mirror' /\ SpinnerHonest' /\ OneMode'
    BY DEF Inv, closeProfileButtonPressed, Mirror, SpinnerHonest, OneMode
  <1>3. Known' /\ Fresh'
    BY DEF Inv, TypeOK, closeProfileButtonPressed, Known, Fresh, Kinds
  <1>4. SavesInv'
    BY SavesKept DEF Inv, SavesInv, closeProfileButtonPressed
  <1> QED
    BY <1>1, <1>2, <1>3, <1>4 DEF Inv, SavesInv

LEMMA EditInv ==
  ASSUME Inv, editProfilePressed
  PROVE  Inv'
  <1>1. /\ spent' \in [Kinds -> Nat]
        /\ spent'["open"] = spent["open"]
    BY SpendCounts DEF Inv, editProfilePressed, Kinds
  <1>2. TypeOK'
    BY <1>1 DEF Inv, TypeOK, editProfilePressed, Buttons, SaveButtons
  <1>3. Mirror' /\ SpinnerHonest' /\ OneMode'
    BY DEF Inv, editProfilePressed, Mirror, SpinnerHonest, OneMode
  <1>4. Known' /\ Fresh'
    BY <1>1 DEF Inv, TypeOK, editProfilePressed, Known, Fresh
  <1>5. SavesInv'
    BY SavesKept DEF Inv, SavesInv, editProfilePressed
  <1> QED
    BY <1>2, <1>3, <1>4, <1>5 DEF Inv, SavesInv

\* Ending an edit shows Edit and hides the rest.
LEMMA EndEditingShowsEdit ==
  ASSUME TypeOK, EndEditing
  PROVE  /\ hidden' \subseteq Buttons /\ fieldsEnabled' = FALSE
         /\ {"edit", "saveGSD", "saveOperation", "cancel"} \ hidden' = {"edit"}
  BY DEF TypeOK, EndEditing, Buttons, SaveButtons

LEMMA CancelInv ==
  ASSUME Inv, cancelButtonPressed
  PROVE  Inv'
  <1>1. /\ hidden' \subseteq Buttons /\ fieldsEnabled' = FALSE
        /\ {"edit", "saveGSD", "saveOperation", "cancel"} \ hidden' = {"edit"}
    BY EndEditingShowsEdit DEF Inv, cancelButtonPressed
  <1>2. TypeOK'
    BY <1>1 DEF Inv, TypeOK, cancelButtonPressed
  <1>3. OneMode'
    BY <1>1 DEF OneMode
  <1>4. Mirror' /\ SpinnerHonest' /\ Known' /\ Fresh'
    BY DEF Inv, cancelButtonPressed, Mirror, SpinnerHonest, Known, Fresh
  <1>5. SavesInv'
    BY SavesKept DEF Inv, SavesInv, cancelButtonPressed
  <1> QED
    BY <1>2, <1>3, <1>4, <1>5 DEF Inv, SavesInv

LEMMA PickInv ==
  ASSUME Inv, didFinishPickingMedia
  PROVE  Inv'
  <1>1. /\ spent' \in [Kinds -> Nat]
        /\ spent'["open"] = spent["open"]
    BY SpendCounts DEF Inv, didFinishPickingMedia, Kinds
  <1>2. TypeOK'
    BY <1>1 DEF Inv, TypeOK, didFinishPickingMedia, Images
  <1>3. Mirror' /\ SpinnerHonest' /\ OneMode'
    BY DEF Inv, didFinishPickingMedia, Mirror, SpinnerHonest, OneMode
  <1>4. Known' /\ Fresh'
    BY <1>1 DEF Inv, TypeOK, didFinishPickingMedia, Known, Fresh
  <1>5. SavesInv'
    BY SavesKept DEF Inv, SavesInv, didFinishPickingMedia
  <1> QED
    BY <1>2, <1>3, <1>4, <1>5 DEF Inv, SavesInv

LEMMA TypeInv ==
  ASSUME Inv, shouldChangeCharactersIn
  PROVE  Inv'
  <1>1. /\ spent' \in [Kinds -> Nat]
        /\ spent'["open"] = spent["open"]
    BY SpendCounts DEF Inv, shouldChangeCharactersIn, Kinds
  <1>2. PICK f \in Fields, newText \in Texts : textField(f, newText)
    BY DEF shouldChangeCharactersIn
  <1>3. /\ buffer' = [buffer EXCEPT ![f] = newText]
        /\ text' = [text EXCEPT ![f] = newText]
        /\ enabled' \subseteq SaveButtons
    BY <1>2 DEF textField
  <1>4. TypeOK'
    BY <1>1, <1>3 DEF Inv, TypeOK, shouldChangeCharactersIn
  <1>5. Mirror'
    BY <1>3 DEF Inv, Mirror
  <1>6. SpinnerHonest' /\ OneMode'
    BY DEF Inv, shouldChangeCharactersIn, SpinnerHonest, OneMode
  <1>7. Known'
    BY <1>1 DEF Inv, shouldChangeCharactersIn, Known
  <1>8. Fresh'
    <2>1. saves' = saves /\ strokes' = strokes + 1 /\ strokes \in Nat
          /\ \A i \in DOMAIN saves : saves[i].strokes \in Nat
      BY SavesAreTyped DEF Inv, TypeOK, shouldChangeCharactersIn
    <2> QED
      BY <2>1 DEF Inv, Fresh
  <1>9. SavesInv'
    BY SavesKept DEF Inv, SavesInv, shouldChangeCharactersIn
  <1> QED
    BY <1>4, <1>5, <1>6, <1>7, <1>8, <1>9 DEF Inv, SavesInv

-----------------------------------------------------------------------------
(* The three steps of a save *)

LEMMA SaveInv ==
  ASSUME Inv, saveTapped
  PROVE  Inv'
  <1> DEFINE new ==
        [screen |-> screen,
         profile |-> [userName |-> buffer["userName"],
                      userInfo |-> buffer["userInfo"], image |-> userImage],
         phase |-> "queued", done |-> FALSE,
         shown |-> text, strokes |-> strokes, after |-> Settled]
       n == Len(saves) + 1
  <1>1. /\ spent' \in [Kinds -> Nat]
        /\ spent'["open"] = spent["open"]
    BY SpendCounts DEF Inv, saveTapped, Kinds
  <1>2. enabled # {} /\ enabled' = {} /\ screen # 0
    BY DEF saveTapped, saveButtonTapped, Visible
  <1>3. new \in Save
    <2>1. new.profile \in Profile
      BY DEF Inv, TypeOK, Profile, Fields, Images, userImage
    <2>2. Settled \in SUBSET Nat
      BY DEF Inv, TypeOK, Settled
    <2> QED
      BY <2>1, <2>2 DEF Inv, TypeOK, Save
  <1>4. /\ saves' \in Seq(Save) /\ Len(saves') = n
        /\ DOMAIN saves' = DOMAIN saves \cup {n}
        /\ Len(saves) \in Nat /\ DOMAIN saves = 1..Len(saves)
        /\ saves'[n] = new
        /\ \A j \in DOMAIN saves : saves'[j] = saves[j]
    BY <1>3, AppendedItem DEF Inv, TypeOK, saveTapped
  <1> HIDE DEF n
  <1>5. \A j \in DOMAIN saves : j < n
    BY <1>4 DEF n
  <1>6. /\ new.screen = screen /\ new.phase = "queued" /\ new.done = FALSE
        /\ new.strokes = strokes /\ new.after = Settled /\ new.shown = text
        /\ new.profile["userName"] = buffer["userName"]
        /\ new.profile["userInfo"] = buffer["userInfo"]
    OBVIOUS
  <1> HIDE DEF new
  <1>7. TypeOK'
    BY <1>1, <1>2, <1>4 DEF Inv, TypeOK, saveTapped
  <1>8. Mirror' /\ OneMode'
    BY DEF Inv, saveTapped, Mirror, OneMode
  <1>9. Known'
    BY <1>1, <1>2, <1>4, <1>6 DEF Inv, TypeOK, saveTapped, Known
  <1>10. Fresh'
    BY <1>2, <1>4, <1>6 DEF Inv, TypeOK, saveTapped, Fresh
  <1>11. Settled' = Settled
    BY <1>4, <1>6 DEF Settled
  <1>12. Past'
    BY <1>4, <1>6, <1>11 DEF Inv, Past
  <1>13. SavedAsTyped'
    <2>1. \A f \in Fields : new.profile[f] = new.shown[f]
      BY <1>6 DEF Inv, Mirror, Fields
    <2> QED
      BY <1>4, <2>1 DEF Inv, SavedAsTyped
  <1>14. NoDoubleSave'
    BY <1>2, <1>4, <1>5, <1>6 DEF Inv, NoDoubleSave, Fresh
  <1>15. SavesStick'
    BY <1>4, <1>6 DEF Inv, SavesStick, saveTapped
  <1>16. SpinnerHonest'
    BY <1>4, <1>6 DEF SpinnerHonest, saveTapped
  <1> QED
    BY <1>7, <1>8, <1>9, <1>10, <1>12, <1>13, <1>14, <1>15, <1>16 DEF Inv

\* A step that changes how far save i is, and nothing else of it.
Advances(i) ==
  /\ saves' \in Seq(Save) /\ Len(saves') = Len(saves)
  /\ DOMAIN saves' = DOMAIN saves
  /\ \A j \in DOMAIN saves : j # i => saves'[j] = saves[j]
  /\ saves'[i].screen = saves[i].screen
  /\ saves'[i].profile = saves[i].profile
  /\ saves'[i].shown = saves[i].shown
  /\ saves'[i].strokes = saves[i].strokes
  /\ saves'[i].after = saves[i].after

LEMMA ReplacementAdvances ==
  ASSUME TypeOK, NEW i \in DOMAIN saves, NEW e \in Save,
         saves' = [saves EXCEPT ![i] = e],
         e.screen = saves[i].screen, e.profile = saves[i].profile,
         e.shown = saves[i].shown, e.strokes = saves[i].strokes,
         e.after = saves[i].after
  PROVE  Advances(i) /\ saves'[i] = e
  BY ReplacedItem DEF TypeOK, Advances

LEMMA PhaseAdvances ==
  ASSUME TypeOK, NEW i \in DOMAIN saves, NEW p \in {"queued", "written", "failed"},
         saves' = [saves EXCEPT ![i].phase = p]
  PROVE  /\ Advances(i)
         /\ saves'[i].phase = p /\ saves'[i].done = saves[i].done
  <1> DEFINE e == [saves[i] EXCEPT !.phase = p]
  <1>1. saves[i] \in Save
    BY SavesAreTyped
  <1>2. /\ e \in Save /\ e.phase = p
        /\ e.screen = saves[i].screen /\ e.profile = saves[i].profile
        /\ e.shown = saves[i].shown /\ e.strokes = saves[i].strokes
        /\ e.after = saves[i].after /\ e.done = saves[i].done
    BY <1>1 DEF Save
  <1>3. saves' = [saves EXCEPT ![i] = e]
    OBVIOUS
  <1> HIDE DEF e
  <1> QED
    BY <1>2, <1>3, ReplacementAdvances

LEMMA DoneAdvances ==
  ASSUME TypeOK, NEW i \in DOMAIN saves,
         saves' = [saves EXCEPT ![i].done = TRUE]
  PROVE  /\ Advances(i)
         /\ saves'[i].phase = saves[i].phase /\ saves'[i].done = TRUE
  <1> DEFINE e == [saves[i] EXCEPT !.done = TRUE]
  <1>1. saves[i] \in Save
    BY SavesAreTyped
  <1>2. /\ e \in Save
        /\ e.screen = saves[i].screen /\ e.profile = saves[i].profile
        /\ e.shown = saves[i].shown /\ e.strokes = saves[i].strokes
        /\ e.after = saves[i].after /\ e.phase = saves[i].phase
    BY <1>1 DEF Save
  <1>3. saves' = [saves EXCEPT ![i] = e] /\ e.done = TRUE
    BY <1>1 DEF Save
  <1> HIDE DEF e
  <1>4. Advances(i) /\ saves'[i] = e
    BY <1>2, <1>3, ReplacementAdvances
  <1> QED
    BY <1>2, <1>3, <1>4, Zenon

\* What was fixed at the tap stays in order when a save advances.
LEMMA TapsKept ==
  ASSUME Inv, NEW i \in DOMAIN saves, Advances(i)
  PROVE  SavedAsTyped' /\ NoDoubleSave'
  <1>1. \A j \in DOMAIN saves : /\ saves'[j].screen = saves[j].screen
                               /\ saves'[j].profile = saves[j].profile
                               /\ saves'[j].shown = saves[j].shown
                               /\ saves'[j].strokes = saves[j].strokes
    BY DEF Advances
  <1> QED
    BY <1>1 DEF Advances, Inv, SavedAsTyped, NoDoubleSave

LEMMA BackgroundInv ==
  ASSUME Inv, Background
  PROVE  Inv'
  <1>1. PICK i \in DOMAIN saves : saves[i].phase = "queued" /\ saveUserProfile(i)
    BY DEF Background
  <1>2. PICK p \in {"written", "failed"} :
          /\ saves' = [saves EXCEPT ![i].phase = p]
          /\ file' = IF p = "written" THEN i ELSE file
    BY <1>1 DEF saveUserProfile
  <1>3. /\ Advances(i)
        /\ saves'[i].phase = p /\ saves'[i].done = saves[i].done
    BY <1>2, PhaseAdvances DEF Inv
  <1>4. UNCHANGED <<screen, text, buffer, hidden, enabled, fieldsEnabled,
                    spinning, defaultImage, strokes, spent>>
    BY DEF Background, ui
  <1>5. TypeOK'
    <2>1. i \in 1..Len(saves)
      BY DEF Inv, TypeOK
    <2> QED
      BY <1>2, <1>3, <1>4, <2>1 DEF Inv, TypeOK, Advances
  <1>6. Mirror' /\ OneMode'
    BY <1>4 DEF Inv, Mirror, OneMode
  <1>7. Known' /\ Fresh'
    BY <1>3, <1>4 DEF Inv, Known, Fresh, Advances
  <1>8. SpinnerHonest'
    BY <1>3, <1>4 DEF Inv, SpinnerHonest, Advances
  <1>9. Settled' = Settled \cup {i} /\ i \notin Settled
    BY <1>1, <1>3 DEF Settled, Advances
  <1>10. Past'
    BY <1>3, <1>9 DEF Inv, Past, Advances
  <1>11. SavesStick'
    <2>1. \A j \in DOMAIN saves : saves'[j].after = saves[j].after
      BY <1>3 DEF Advances
    <2>2. i # 0 /\ \A j \in DOMAIN saves : i \notin saves[j].after
      BY <1>9 DEF Inv, Past, TypeOK
    <2>3. CASE p = "written"
      BY <1>2, <1>3, <2>1, <2>2, <2>3 DEF SavesStick, Advances
    <2>4. CASE p = "failed"
      BY <1>2, <1>3, <2>1, <2>4 DEF Inv, SavesStick, Advances
    <2> QED
      BY <2>3, <2>4
  <1> QED
    BY <1>3, <1>5, <1>6, <1>7, <1>8, <1>10, <1>11, TapsKept DEF Inv

LEMMA CompletionInv ==
  ASSUME Inv, Completion
  PROVE  Inv'
  <1>1. PICK i \in DOMAIN saves :
          /\ Completable(i)
          /\ saves' = [saves EXCEPT ![i].done = TRUE]
          /\ \/ /\ IsOfScreen(i)
                /\ spinning' = FALSE
                /\ EndEditing
             \/ /\ ~IsOfScreen(i)
                /\ UNCHANGED <<spinning, hidden, fieldsEnabled>>
    BY DEF Completion
  <1>2. /\ Advances(i)
        /\ saves'[i].phase = saves[i].phase /\ saves'[i].done = TRUE
    BY <1>1, DoneAdvances DEF Inv
  <1>3. UNCHANGED <<screen, text, buffer, enabled, defaultImage, file, strokes,
                    spent>>
    BY DEF Completion
  <1>4. Settled' = Settled
    BY <1>2 DEF Settled, Advances
  <1>5. Mirror' /\ Known' /\ Fresh'
    BY <1>2, <1>3 DEF Inv, Mirror, Known, Fresh, Advances
  <1>6. Past' /\ SavesStick'
    BY <1>2, <1>3, <1>4 DEF Inv, Past, SavesStick, Advances
  <1>7. TypeOK' /\ OneMode' /\ SpinnerHonest'
    <2>1. CASE IsOfScreen(i)
      <3>1. /\ hidden' \subseteq Buttons /\ fieldsEnabled' = FALSE
            /\ {"edit", "saveGSD", "saveOperation", "cancel"} \ hidden' = {"edit"}
            /\ spinning' = FALSE
        BY <1>1, <2>1, EndEditingShowsEdit DEF Inv
      <3>2. TypeOK'
        BY <1>2, <1>3, <3>1 DEF Inv, TypeOK, Advances
      <3> QED
        BY <3>1, <3>2 DEF OneMode, SpinnerHonest
    <2>2. CASE ~IsOfScreen(i)
      <3>1. UNCHANGED <<spinning, hidden, fieldsEnabled>>
        BY <1>1, <2>2
      <3>2. TypeOK'
        BY <1>2, <1>3, <3>1 DEF Inv, TypeOK, Advances
      <3>3. OneMode'
        BY <1>3, <3>1 DEF Inv, OneMode
      <3>4. SpinnerHonest'
        BY <1>2, <1>3, <2>2, <3>1 DEF Inv, SpinnerHonest, IsOfScreen, Advances
      <3> QED
        BY <3>2, <3>3, <3>4
    <2> QED
      BY <2>1, <2>2
  <1> QED
    BY <1>2, <1>5, <1>6, <1>7, TapsKept DEF Inv

-----------------------------------------------------------------------------

LEMMA StutterInv ==
  ASSUME Inv, UNCHANGED vars
  PROVE  Inv'
  BY DEF Inv, vars, ui, TypeOK, Mirror, Known, Fresh, Past, Settled,
         SavedAsTyped, NoDoubleSave, SavesStick, SpinnerHonest, OneMode

LEMMA NextInv == Inv /\ [Next]_vars => Inv'
  <1> SUFFICES ASSUME Inv, [Next]_vars PROVE Inv'
    OBVIOUS
  <1> QED
    BY OpenInv, CloseInv, EditInv, CancelInv, TypeInv, PickInv, SaveInv,
       BackgroundInv, CompletionInv, StutterInv DEF Next

LEMMA Invariance == Spec => []Inv
  BY InitInv, NextInv, PTL DEF Spec

\* Every reachable state is well-typed.
THEOREM ProfileTypeCorrect == Spec => []TypeOK
  <1>1. Inv => TypeOK
    BY DEF Inv
  <1> QED
    BY <1>1, Invariance, PTL

\* What is saved is what the fields showed at the tap, for any sequence of
\* keystrokes, edits, cancellations and completions.
THEOREM SavedAsTypedHolds == Spec => []SavedAsTyped
  <1>1. Inv => SavedAsTyped
    BY DEF Inv
  <1> QED
    BY <1>1, Invariance, PTL

\* No second save without a keystroke.
THEOREM NoDoubleSaveHolds == Spec => []NoDoubleSave
  <1>1. Inv => NoDoubleSave
    BY DEF Inv
  <1> QED
    BY <1>1, Invariance, PTL

\* The file never falls back to a profile saved before.
THEOREM SavesStickHolds == Spec => []SavesStick
  <1>1. Inv => SavesStick
    BY DEF Inv
  <1> QED
    BY <1>1, Invariance, PTL

\* The indicator spins only for a save of this screen that is under way, with
\* any number of saves overlapping.
THEOREM SpinnerHonestHolds == Spec => []SpinnerHonest
  <1>1. Inv => SpinnerHonest
    BY DEF Inv
  <1> QED
    BY <1>1, Invariance, PTL

\* The form is in one of its two modes, whatever handlers and completions
\* follow each other: the user always has a button to go on.
THEOREM OneModeHolds == Spec => []OneMode
  <1>1. Inv => OneMode
    BY DEF Inv
  <1> QED
    BY <1>1, Invariance, PTL

-----------------------------------------------------------------------------
(* The profile screen implements the register *)

Asked == [i \in DOMAIN saves |-> saves[i].profile]
Acked == {i \in DOMAIN saves : saves[i].done}

LEMMA RegisterStutters ==
  ASSUME UNCHANGED <<saves, file>>
  PROVE  UNCHANGED Register!vars
  BY DEF Register!vars, Settled

LEMMA SaveAsks ==
  ASSUME Inv, saveTapped
  PROVE  Register!Ask
  <1> DEFINE new ==
        [screen |-> screen,
         profile |-> [userName |-> buffer["userName"],
                      userInfo |-> buffer["userInfo"], image |-> userImage],
         phase |-> "queued", done |-> FALSE,
         shown |-> text, strokes |-> strokes, after |-> Settled]
       p == new.profile
  <1>1. p \in Profile
    BY DEF Inv, TypeOK, Profile, Fields, Images, userImage
  <1>2. new \in Save
    <2>1. Settled \in SUBSET Nat
      BY DEF Inv, TypeOK, Settled
    <2> QED
      BY <1>1, <2>1 DEF Inv, TypeOK, Save
  <1>3. /\ DOMAIN saves' = DOMAIN saves \cup {Len(saves) + 1}
        /\ Len(saves) \in Nat /\ DOMAIN saves = 1..Len(saves)
        /\ saves'[Len(saves) + 1] = new
        /\ \A j \in DOMAIN saves : saves'[j] = saves[j]
    BY <1>2, AppendedItem DEF Inv, TypeOK, saveTapped
  <1>4. /\ new.phase = "queued" /\ new.profile = p /\ ~new.done
    OBVIOUS
  <1> HIDE DEF new
  <1>5. Asked \in Seq(Profile) /\ Len(Asked) = Len(saves)
    BY <1>3, SavesAreTyped DEF Inv, Asked
  <1>6. Asked' = Append(Asked, p)
    <2>1. Asked' = [i \in 1..(Len(saves) + 1) |-> saves'[i].profile]
      BY <1>3 DEF Asked
    <2>2. Append(Asked, p) =
            [i \in 1..(Len(saves) + 1) |->
               IF i = Len(saves) + 1 THEN p ELSE Asked[i]]
      BY <1>3, <1>5
    <2>3. \A i \in 1..(Len(saves) + 1) :
            saves'[i].profile = IF i = Len(saves) + 1 THEN p ELSE Asked[i]
      BY <1>3, <1>4 DEF Asked
    <2> QED
      BY <2>1, <2>2, <2>3
  <1>7. Settled' = Settled
    BY <1>3, <1>4 DEF Settled
  <1>8. Acked' = Acked
    <2>1. ~saves'[Len(saves) + 1].done
      BY <1>3, <1>4, Zenon
    <2> QED
      BY <1>3, <2>1 DEF Acked
  <1>9. file' = file
    BY DEF saveTapped
  <1> QED
    BY <1>1, <1>6, <1>7, <1>8, <1>9 DEF Register!Ask, Asked, Acked

LEMMA BackgroundSettles ==
  ASSUME Inv, Background
  PROVE  \E i \in DOMAIN Asked : Register!Settle(i)
  <1>1. PICK i \in DOMAIN saves : saves[i].phase = "queued" /\ saveUserProfile(i)
    BY DEF Background
  <1>2. PICK p \in {"written", "failed"} :
          /\ saves' = [saves EXCEPT ![i].phase = p]
          /\ file' = IF p = "written" THEN i ELSE file
    BY <1>1 DEF saveUserProfile
  <1>3. /\ Advances(i)
        /\ saves'[i].phase = p /\ saves'[i].done = saves[i].done
    BY <1>2, PhaseAdvances DEF Inv
  <1>4. \A j \in DOMAIN saves : /\ saves'[j].profile = saves[j].profile
                               /\ saves'[j].done = saves[j].done
    BY <1>3 DEF Advances
  <1>5. Asked' = Asked /\ Acked' = Acked
    BY <1>3, <1>4 DEF Asked, Acked, Advances
  <1>6. Settled' = Settled \cup {i} /\ i \notin Settled
    BY <1>1, <1>3 DEF Settled, Advances
  <1>7. file' \in {file, i}
    BY <1>2
  <1>8. Register!Settle(i) /\ i \in DOMAIN Asked
    BY <1>5, <1>6, <1>7 DEF Register!Settle, Asked, Acked
  <1> QED
    BY <1>8

LEMMA CompletionAcknowledges ==
  ASSUME Inv, Completion
  PROVE  \E i \in DOMAIN Asked : Register!Ack(i)
  <1>1. PICK i \in DOMAIN saves :
          Completable(i) /\ saves' = [saves EXCEPT ![i].done = TRUE]
    BY DEF Completion
  <1>2. /\ Advances(i)
        /\ saves'[i].phase = saves[i].phase /\ saves'[i].done = TRUE
    BY <1>1, DoneAdvances DEF Inv
  <1>3. i \in Settled /\ i \notin Acked
    BY <1>1 DEF Completable, Settled, Acked
  <1>4. Asked' = Asked /\ Settled' = Settled
    BY <1>2 DEF Asked, Settled, Advances
  <1>5. Acked' = Acked \cup {i}
    <2>1. \A j \in DOMAIN saves : saves'[j].done <=> (saves[j].done \/ j = i)
      <3>1. \A j \in DOMAIN saves : j # i => saves'[j] = saves[j]
        BY <1>2 DEF Advances
      <3>2. saves'[i].done
        BY <1>2, Zenon
      <3> QED
        BY <3>1, <3>2, Zenon
    <2>2. DOMAIN saves' = DOMAIN saves
      BY <1>2 DEF Advances
    <2> QED
      BY <2>1, <2>2, Zenon DEF Acked
  <1>6. file' = file
    BY DEF Completion
  <1>7. Register!Ack(i) /\ i \in DOMAIN Asked
    BY <1>3, <1>4, <1>5, <1>6 DEF Register!Ack, Asked, Acked
  <1> QED
    BY <1>7

\* Saving takes effect as a whole, at most once and before it is reported,
\* however many saves of how many screens are under way.
THEOREM ImplementsRegister == Spec => RegisterSpec
  <1>1. Init => Register!Init
    <2> SUFFICES ASSUME Init PROVE Register!Init
      OBVIOUS
    <2>1. saves = <<>> /\ DOMAIN saves = {} /\ file = 0
      BY DEF Init
    <2>2. Asked = <<>>
      BY <2>1 DEF Asked
    <2> QED
      BY <2>1, <2>2 DEF Register!Init, Settled, Asked
  <1>2. Inv /\ [Next]_vars => [Register!Next]_(Register!vars)
    <2> SUFFICES ASSUME Inv, [Next]_vars
                 PROVE  Register!Next \/ UNCHANGED Register!vars
      OBVIOUS
    <2>1. CASE saveTapped
      BY <2>1, SaveAsks DEF Register!Next
    <2>2. CASE Background
      BY <2>2, BackgroundSettles DEF Register!Next, Asked
    <2>3. CASE Completion
      BY <2>3, CompletionAcknowledges DEF Register!Next, Asked
    <2>4. CASE \/ profileButtonTapped \/ closeProfileButtonPressed
              \/ editProfilePressed \/ cancelButtonPressed
              \/ shouldChangeCharactersIn \/ didFinishPickingMedia
              \/ UNCHANGED vars
      <3>1. UNCHANGED <<saves, file>>
        BY <2>4 DEF profileButtonTapped, closeProfileButtonPressed,
           editProfilePressed, cancelButtonPressed, shouldChangeCharactersIn,
           didFinishPickingMedia, vars
      <3> QED
        BY <3>1, RegisterStutters
    <2> QED
      BY <2>1, <2>2, <2>3, <2>4 DEF Next
  <1> QED
    BY <1>1, <1>2, Invariance, PTL DEF Spec, RegisterSpec, Register!Spec
=============================================================================
