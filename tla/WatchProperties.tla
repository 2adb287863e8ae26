-------------------------- MODULE WatchProperties --------------------------
(* What WatchTarget must do.                                                 *)
EXTENDS WatchTarget

\* No HARD_ASSERT fails, of the stream (it is started twice, or stopped while
\* targets need it), of the tracker (a timer runs twice or in another state
\* than Unknown) or of the view (a document changes that the view has not).
AssertionsHold ==
  /\ stream.asserts = "hold" /\ online.asserts = "hold"
  /\ state.held = "yes" /\ IsActive(state) =>
       Changed(state, "Modified") \subseteq view.keys

\* The view is current and no document is in limbo: the listener is told that
\* what it sees does not come from the cache.
Synced ==
  listening = "yes" /\ view.current = "yes" /\ cache.docs \subseteq view.keys

\* What a listener is told to be up to date is what the server had at the
\* version of the last snapshot, over resumed calls, counts that do not match,
\* resets, servers that are behind, rejections, network changes and crashes.
UpToDate == Synced => cache.docs = ContentAt(cache.last)

\* The target's keys on disk are those the server takes the client to have
\* when it resumes from the token on disk, even if the process dies now.
ResumePoint == cache.keys = ContentAt(cache.token)

\* Answers to watch and unwatch requests that are still to come.
AnswersDue ==
  Len(requests) + Cardinality({i \in DOMAIN responses :
                                 responses[i].kind \in {"added", "removed"}})

\* The client waits for just the answers that are still to come, however
\* listening, stopping and starting over follow each other, unless the server
\* rejects a listen.
AcksAreDue == errors = 0 => state.acks = AnswersDue

\* Who keeps listening with the network on sees, in the end, what the server
\* has, and is told so, unless the server rejected a listen.
CatchesUp ==
  <>[](listening = "yes" /\ network = "enabled" /\ errors = 0) =>
    <>[](Synced /\ cache.docs = ContentAt(latest))
=============================================================================
