-------------------------- MODULE ProfileProperties --------------------------
(***************************************************************************)
(* What makes saving a profile correct, stated over ProfileSave.           *)
(***************************************************************************)
EXTENDS ProfileSave

\* What is saved is what both text fields showed when Save was tapped: the
\* buffers, which the keystrokes fill one field at a time and before the text
\* changes (textField(_:shouldChangeCharactersIn:)), never lag behind, not
\* after Cancel or a completion either.
SavedAsTyped ==
  \A i \in DOMAIN saves :
    \A f \in Fields : saves[i].profile[f] = saves[i].shown[f]

\* No keystroke, no second save: the two buttons together ask for a save at
\* most once between two keystrokes on a screen, however its completions,
\* Edit and Cancel fall in between (saveButtonTapped).
NoDoubleSave ==
  \A i, j \in DOMAIN saves :
    (i < j /\ saves[i].screen = saves[j].screen)
      => saves[i].strokes < saves[j].strokes

\* A save that was written is overwritten only by one that was under way when
\* it was tapped, or tapped later: never does the file fall back to a profile
\* that was already saved before (MainFileManager.saveUserProfile).
SavesStick ==
  \A i \in DOMAIN saves :
    saves[i].phase = "written" => file # 0 /\ file \notin saves[i].after

\* The activity indicator spins only while a save of this screen is under way
\* or waiting to be reported, with any number of saves overlapping.
SpinnerHonest ==
  (screen # 0 /\ spinning) =>
    \E i \in DOMAIN saves : saves[i].screen = screen /\ ~saves[i].done

\* The form is in one of two modes, whichever handlers and completions of two
\* saves follow each other: Edit alone, or Cancel, both save buttons and the
\* fields.  The user is never left without a button to go on.
OneMode ==
  screen # 0 =>
    \/ /\ {"edit", "saveGSD", "saveOperation", "cancel"} \ hidden = {"edit"}
       /\ ~fieldsEnabled
    \/ /\ {"edit", "saveGSD", "saveOperation", "cancel"} \cap hidden = {"edit"}
       /\ fieldsEnabled

\* Every save is reported in the end, a failed one too.
SavesComplete ==
  \A i \in UNION {1..b["save"] : b \in Budgets} :
    (Len(saves) >= i) ~> (Len(saves) >= i /\ saves[i].done)

-----------------------------------------------------------------------------
(* The promise this implements *)

Register == INSTANCE SaveRegister WITH
  asked   <- [i \in DOMAIN saves |-> saves[i].profile],
  settled <- Settled,
  acked   <- {i \in DOMAIN saves : saves[i].done},
  holds   <- file

\* Every behaviour of the profile screen is one of the register.
RegisterSpec == Register!Spec
=============================================================================
