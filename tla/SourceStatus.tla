---------------------------- MODULE SourceStatus ----------------------------
(* The status of a source, derived from its recorded events (swath-core      *)
(* sources.rs), and the row the API serves of it (swath-api sources.rs).     *)
(* An event is [source, at, kind, detail]; instants and details are numbers, *)
(* ordered as milliseconds and strings are.                                  *)
EXTENDS Integers, FiniteSets, Sequences

Nothing == [kind |-> "none", at |-> -1, detail |-> 0]

\* Tie-break of events of one instant: the more decisive outcome wins.
Rank(kind) ==
  CASE kind = "started" -> 0
    [] kind = "ingested" -> 2
    [] kind = "stopped" -> 3
    [] kind \in {"failed", "credential_missing"} -> 4
    [] OTHER -> 1

\* Variant: the later instant, and nothing else.
NewerInstant(candidate, current) == candidate.at > current.at

\* The comparison by instant, then decisiveness, then wording.
Newer(candidate, current) ==
  \/ candidate.at > current.at
  \/ /\ candidate.at = current.at
     /\ \/ Rank(candidate.kind) > Rank(current.kind)
        \/ /\ Rank(candidate.kind) = Rank(current.kind)
           /\ candidate.detail > current.detail

\* The pass over the events that keeps the newest of some kinds.
NewestOf(events, kinds) ==
  LET newest[n \in 0..Len(events)] ==
        IF n = 0 THEN Nothing
        ELSE IF events[n].kind \in kinds /\ (newest[n - 1] = Nothing \/ Newer(events[n], newest[n - 1]))
        THEN events[n] ELSE newest[n - 1]
  IN newest[Len(events)]

EventKinds == {"started", "ingested", "polled", "failed", "stopped", "credential_resolved",
          "credential_missing", "consented"}

CountOf(events, kind) == Cardinality({i \in DOMAIN events : events[i].kind = kind})

\* `state_of': the newest event says what the source is doing.
StateOf(events) ==
  LET last == NewestOf(events, EventKinds)
      started == NewestOf(events, {"started"})
      name == CASE last = Nothing -> "unknown"
                [] last.kind \in {"failed", "credential_missing"} -> "failing"
                [] last.kind = "stopped" -> "stopped"
                [] OTHER -> "watching"
  IN [state |-> name,
      since |-> IF name = "watching" /\ started # Nothing THEN started.at ELSE last.at,
      lastError |-> IF name = "failing" THEN last.detail ELSE 0,
      lastEvent |-> last.at,
      ingested |-> CountOf(events, "ingested"),
      failures |-> CountOf(events, "failed")]

\* `credential_resolution': what the newest check of the profile found.
CredentialResolution(events) ==
  NewestOf(events, {"credential_resolved", "credential_missing"}).kind

\* `consent_of' and `may_read': a source that bills its reader is read only
\* once somebody consented.
ConsentOf(events) == NewestOf(events, {"consented"})
MayRead(requesterPays, events) == ~requesterPays \/ ConsentOf(events) # Nothing

\* The row of `GET /sources' (`item', `status_item').
Item(events, credentialed) ==
  LET status == StateOf(events)
  IN [status |-> status,
      reachable |-> CASE status.state = "unknown" -> "null"
                      [] status.state = "watching" -> "true"
                      [] OTHER -> "false",
      credential |-> IF credentialed THEN CredentialResolution(events) ELSE "omitted",
      consented |-> ConsentOf(events) # Nothing]
=============================================================================
