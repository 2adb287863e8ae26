-------------------------- MODULE WriteProperties --------------------------
(* What WritePipeline must do, and small instances of it for TLC.            *)
EXTENDS WritePipeline

TypeOK ==
  /\ made \in Nat /\ faults \in Nat
  /\ mutations \in SUBSET (Nat \ {0}) /\ pipeline \in SUBSET (Nat \ {0})
  /\ network \in {"enabled", "disabled"}
  /\ stream \in Streams
  /\ handshake \in {"incomplete", "complete"}
  /\ call \in Calls
  /\ committed \in SUBSET (Nat \ {0})
  /\ acked \in SUBSET (Nat \ {0}) /\ rejected \in SUBSET (Nat \ {0})

\* No HARD_ASSERT of the write stream ever fails: it is not started twice, not
\* stopped while writes need it, gets no result for an empty pipeline, and
\* neither timers nor credentials of an earlier connection reach a later one.
AssertionsHold == stream.asserts = "hold"

\* Over lost responses, reconnects, refusals, network changes and crashes the
\* writes reach the server in order and at least once, none after it was
\* reported, and each result is reported for the write it is about.
Ledger == INSTANCE WriteLedger WITH queue <- mutations, Writes <- Batches
LedgerSpec == Ledger!Spec

\* A write reported as failed is one the server never carried out.
RejectedIsNotCommitted == rejected \cap committed = {}

\* The client holds no write back as long as it runs, that is, until an
\* assertion ends it: one it can send is on the wire, and one it cannot send
\* has a stream that is on its way.
WritesAreUnderWay ==
  AssertionsHold /\ network = "enabled" =>
    /\ mutations # {} => pipeline # {} /\ IsStarted(stream)
    /\ handshake = "complete" /\ call.end = "none" =>
         pipeline = call.up \cup call.down

\* Every write is reported in the end, unless the network stays disabled.
WritesAreReported ==
  <>[](network = "enabled") =>
    \A b \in Batches : b \in mutations ~> b \in acked \cup rejected
=============================================================================
