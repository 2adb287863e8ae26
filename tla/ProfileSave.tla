----------------------------- MODULE ProfileSave -----------------------------
(***************************************************************************)
(* The profile screen (ProfileViewController), its two ways to save        *)
(* (GCDManager and OperationSaver) and the file they write                 *)
(* (MainFileManager).  Handlers and completions run on the main thread,    *)
(* the saves on background threads of their own, several at once.          *)
(***************************************************************************)
EXTENDS Naturals, Sequences, FiniteSets

CONSTANTS Texts,   \* what a text field may hold
          Empty,   \* no text
          Budgets  \* bounds: a behaviour takes each bounded action no more
                   \* often than one of these allows

Kinds == {"open", "edit", "type", "pick", "save"}

ASSUME TextsAssumption  == Empty \in Texts
ASSUME BudgetAssumption == Budgets \subseteq [Kinds -> Nat]

Fields      == {"userName", "userInfo"}
SaveButtons == {"saveGSD", "saveOperation"}
Buttons     == SaveButtons \cup {"edit", "editProfileImage", "cancel"}
Images      == {"person", "picked"}

\* The image a save takes is that of profileImageView, which nothing sets: a
\* picked one goes to the view laid over it.
userImage == "person"

Profile == [userName : Texts, userInfo : Texts, image : Images]

VARIABLES
  screen,         \* the profile screen in front, 0: none
  text,           \* what the two text fields show
  buffer,         \* userNameBuffer, userInfoBuffer
  hidden,         \* buttons with isHidden
  enabled,        \* save buttons with isEnabled
  fieldsEnabled,  \* isEnabled of both text fields
  spinning,       \* the activity indicator
  defaultImage,   \* defaultProfileImageView.image
  saves,          \* every save asked for since launch
  file,           \* the save whose profile is in userProfile.json, 0: none
  strokes,        \* history: keystrokes since launch
  spent           \* how often each bounded action was taken

ui   == <<screen, text, buffer, hidden, enabled, fieldsEnabled, spinning,
          defaultImage>>
vars == <<ui, saves, file, strokes, spent>>

Affords(b, s) == \A k \in Kinds : s[k] <= b[k]

Spend(k) == /\ spent' = [spent EXCEPT ![k] = @ + 1]
            /\ \E b \in Budgets : Affords(b, spent')

\* A save: the screen it was tapped on, the profile it is to write, how far it
\* is, whether its completion has run; and of the tap (history) what the
\* fields showed, the keystrokes so far and the saves already settled.
Save == [screen : Nat, profile : Profile,
         phase : {"queued", "written", "failed"}, done : BOOLEAN,
         shown : [Fields -> Texts], strokes : Nat, after : SUBSET Nat]

Settled == {i \in DOMAIN saves : saves[i].phase # "queued"}

ResetForm ==
  /\ text' = [f \in Fields |-> Empty]
  /\ buffer' = [f \in Fields |-> Empty]
  /\ hidden' = SaveButtons \cup {"cancel"}
  /\ enabled' = {}
  /\ fieldsEnabled' = FALSE
  /\ spinning' = FALSE
  /\ defaultImage' = "person"

Init ==
  /\ screen = 0
  /\ text = [f \in Fields |-> Empty]
  /\ buffer = [f \in Fields |-> Empty]
  /\ hidden = SaveButtons \cup {"cancel"}
  /\ enabled = {}
  /\ fieldsEnabled = FALSE
  /\ spinning = FALSE
  /\ defaultImage = "person"
  /\ saves = <<>>
  /\ file = 0
  /\ strokes = 0
  /\ spent = [k \in Kinds |-> 0]

-----------------------------------------------------------------------------
(* What the user does *)

\* A new screen each time, as the storyboard describes it.
profileButtonTapped ==
  /\ screen = 0
  /\ Spend("open")
  /\ screen' = spent["open"] + 1
  /\ ResetForm
  /\ UNCHANGED <<saves, file, strokes>>

\* Saves under way keep the dismissed screen alive, out of sight.
closeProfileButtonPressed ==
  /\ screen # 0
  /\ screen' = 0
  /\ UNCHANGED <<text, buffer, hidden, enabled, fieldsEnabled, spinning,
                 defaultImage, saves, file, strokes, spent>>

Visible(b) == screen # 0 /\ b \notin hidden

editProfilePressed ==
  /\ Visible("edit")
  /\ Spend("edit")
  /\ hidden' = {"edit", "editProfileImage"}
  /\ fieldsEnabled' = TRUE
  /\ enabled' = {}
  /\ UNCHANGED <<screen, text, buffer, spinning, defaultImage, saves, file,
                 strokes>>

\* Mutant: the save buttons stay.
EndEditingPartly ==
  /\ hidden' = (hidden \ {"edit"}) \cup {"cancel"}
  /\ fieldsEnabled' = FALSE

\* What both Cancel and the end of a save do to the form.
EndEditing ==
  /\ hidden' = (hidden \ {"edit"}) \cup SaveButtons \cup {"cancel"}
  /\ fieldsEnabled' = FALSE

\* The fields and the buffers keep what was typed.
cancelButtonPressed ==
  /\ Visible("cancel")
  /\ EndEditing
  /\ UNCHANGED <<screen, text, buffer, enabled, spinning, defaultImage, saves,
                 file, strokes, spent>>

Other(f) == CHOOSE g \in Fields : g # f

\* Mutant: the buffer takes the text as it was before the keystroke.
textFieldLate(f, newText) ==
  /\ enabled' = IF newText # buffer[f] \/ text[Other(f)] # buffer[Other(f)]
                THEN SaveButtons ELSE {}
  /\ buffer' = [buffer EXCEPT ![f] = text[f]]
  /\ text' = [text EXCEPT ![f] = newText]

\* A keystroke, perhaps one that leaves the text as it is.
textField(f, newText) ==
  /\ enabled' = IF newText # buffer[f] \/ text[Other(f)] # buffer[Other(f)]
                THEN SaveButtons ELSE {}
  /\ buffer' = [buffer EXCEPT ![f] = newText]
  /\ text' = [text EXCEPT ![f] = newText]

shouldChangeCharactersIn ==
  /\ screen # 0 /\ fieldsEnabled
  /\ Spend("type")
  /\ \E f \in Fields, newText \in Texts : textField(f, newText)
  /\ strokes' = strokes + 1
  /\ UNCHANGED <<screen, hidden, fieldsEnabled, spinning, defaultImage, saves,
                 file>>

didFinishPickingMedia ==
  /\ Visible("editProfileImage")
  /\ Spend("pick")
  /\ defaultImage' = "picked"
  /\ UNCHANGED <<screen, text, buffer, hidden, enabled, fieldsEnabled,
                 spinning, saves, file, strokes>>

\* Mutant: only the button that was tapped is disabled.
saveButtonTappedOne(b) == enabled' = enabled \ {b}

saveButtonTapped(b) == enabled' = {}

\* Either save button: the profile in the buffers is handed to a background
\* thread.
saveTapped ==
  /\ \E b \in enabled : Visible(b) /\ saveButtonTapped(b)
  /\ Spend("save")
  /\ spinning' = TRUE
  /\ saves' = Append(saves,
       [screen |-> screen,
        profile |-> [userName |-> buffer["userName"],
                     userInfo |-> buffer["userInfo"], image |-> userImage],
        phase |-> "queued", done |-> FALSE,
        shown |-> text, strokes |-> strokes, after |-> Settled])
  /\ UNCHANGED <<screen, text, buffer, hidden, fieldsEnabled, defaultImage,
                 file, strokes>>

-----------------------------------------------------------------------------
(* Background threads and completions *)

\* Mutant: an existing file is left alone.
saveUserProfileOnce(i) ==
  \/ /\ saves' = [saves EXCEPT ![i].phase = "written"]
     /\ file' = IF file = 0 THEN i ELSE file
  \/ /\ saves' = [saves EXCEPT ![i].phase = "failed"]
     /\ UNCHANGED file

\* The file is replaced as a whole, or, if there is no directory, no PNG or
\* no space, nothing happens; the caller cannot tell.
saveUserProfile(i) ==
  \/ /\ saves' = [saves EXCEPT ![i].phase = "written"]
     /\ file' = i
  \/ /\ saves' = [saves EXCEPT ![i].phase = "failed"]
     /\ UNCHANGED file

Background ==
  /\ \E i \in DOMAIN saves : saves[i].phase = "queued" /\ saveUserProfile(i)
  /\ UNCHANGED <<ui, strokes, spent>>

\* Mutants: the completion runs ahead of the save; it is left out when the save
\* fails.
CompletableAtOnce(i) == ~saves[i].done
CompletableIfWritten(i) == saves[i].phase = "written" /\ ~saves[i].done

Completable(i) == saves[i].phase # "queued" /\ ~saves[i].done

IsOfScreen(i) == saves[i].screen = screen

\* Mutant: the activity indicator is not stopped.
CompletionSpinning ==
  /\ \E i \in DOMAIN saves :
       /\ Completable(i)
       /\ saves' = [saves EXCEPT ![i].done = TRUE]
       /\ \/ IsOfScreen(i) /\ EndEditing
          \/ ~IsOfScreen(i) /\ UNCHANGED <<hidden, fieldsEnabled>>
  /\ UNCHANGED <<screen, text, buffer, enabled, spinning, defaultImage, file,
                 strokes, spent>>

\* The completion of a save, on the main thread: stopActivityIndicator and
\* saveFinishElementState on the screen of the save.
Completion ==
  /\ \E i \in DOMAIN saves :
       /\ Completable(i)
       /\ saves' = [saves EXCEPT ![i].done = TRUE]
       /\ \/ /\ IsOfScreen(i)
             /\ spinning' = FALSE
             /\ EndEditing
          \/ /\ ~IsOfScreen(i)
             /\ UNCHANGED <<spinning, hidden, fieldsEnabled>>
  /\ UNCHANGED <<screen, text, buffer, enabled, defaultImage, file, strokes,
                 spent>>

Next == \/ profileButtonTapped \/ closeProfileButtonPressed
        \/ editProfilePressed \/ cancelButtonPressed
        \/ shouldChangeCharactersIn \/ didFinishPickingMedia \/ saveTapped
        \/ Background \/ Completion

Spec == Init /\ [][Next]_vars

\* Background threads get to run, and so does the main queue.
FairSpec == Spec /\ WF_vars(Background) /\ WF_vars(Completion)

TypeOK ==
  /\ screen \in Nat
  /\ text \in [Fields -> Texts]
  /\ buffer \in [Fields -> Texts]
  /\ hidden \subseteq Buttons
  /\ enabled \subseteq SaveButtons
  /\ fieldsEnabled \in BOOLEAN
  /\ spinning \in BOOLEAN
  /\ defaultImage \in Images
  /\ saves \in Seq(Save)
  /\ file \in 0..Len(saves)
  /\ strokes \in Nat
  /\ spent \in [Kinds -> Nat]
=============================================================================
