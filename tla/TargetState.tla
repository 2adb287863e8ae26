----------------------------- MODULE TargetState -----------------------------
(***************************************************************************)
(* What WatchChangeAggregator (remote/remote_event.cc) keeps of a target   *)
(* between two snapshots.  The state is a record; each operator is what    *)
(* one kind of message does to it.  "acks" is outstanding_responses_; a    *)
(* state that is not held has no entry in target_states_.  "docs" is       *)
(* document_changes_, a function from documents to kinds of change.        *)
(***************************************************************************)
EXTENDS Integers, FiniteSets

NewState == [held |-> "yes", acks |-> 0, current |-> "no", changed |-> "yes",
             token |-> 0, docs |-> <<>>]

Erased == [NewState EXCEPT !.held = "no"]

Ensure(s) == [s EXCEPT !.held = "yes"]

IsPending(s) == s.acks # 0

Changed(s, kind) == {d \in DOMAIN s.docs : s.docs[d] = kind}

\* document_changes_[d] = kind
Put(docs, d, kind) ==
  [e \in DOMAIN docs \cup {d} |-> IF e = d THEN kind ELSE docs[e]]

RecordPendingTargetRequest(s) == [Ensure(s) EXCEPT !.acks = @ + 1]

\* A token of 0 is none.
UpdateResumeToken(s, token) ==
  IF token = 0 THEN s ELSE [s EXCEPT !.token = token, !.changed = "yes"]

ClearPendingChanges(s) == [s EXCEPT !.changed = "no", !.docs = <<>>]

\* The answer to a watch request.
OnAdded(s) ==
  LET answered == [Ensure(s) EXCEPT !.acks = @ - 1]
  IN IF IsPending(answered) THEN answered ELSE ClearPendingChanges(answered)

\* The answer to an unwatch request.
OnRemoved(s) ==
  LET answered == [Ensure(s) EXCEPT !.acks = @ - 1]
  IN IF IsPending(answered) THEN answered ELSE Erased

MarkCurrent(s) == [s EXCEPT !.current = "yes", !.changed = "yes"]

AddDocument(s, d, keys) ==
  [Ensure(s) EXCEPT
     !.docs = Put(@, d, IF d \in keys THEN "Modified" ELSE "Added"),
     !.changed = "yes"]

RemoveDocument(s, d, keys) ==
  [Ensure(s) EXCEPT
     !.docs = IF d \in keys THEN Put(@, d, "Removed")
              ELSE [e \in DOMAIN @ \ {d} |-> @[e]],
     !.changed = "yes"]

\* Mutant: what the view has is kept.
ResetToNothing(s, keys) == NewState

\* Everything the view has is to be removed, unless the server sends it again.
ResetTarget(s, keys) ==
  [NewState EXCEPT !.docs = [d \in keys |-> "Removed"]]

CurrentDocumentCount(s, keys) ==
  Cardinality(keys) + Cardinality(Changed(s, "Added"))
    - Cardinality(Changed(s, "Removed"))
=============================================================================
