------------------------------ MODULE StacFetch ------------------------------
(***************************************************************************)
(* One `swath sources' command, and the read of a remote document that it  *)
(* may make behind the list of hosts an operator allows.                   *)
(*                                                                         *)
(* A host is written [name, as], where `as' is how it is spelt: "plain",   *)
(* or with capitals, or between blanks.  A URL is [scheme, user, host,     *)
(* page]; one without a scheme is a path, and Junk is no URL at all.       *)
(*                                                                         *)
(* The web is free: a request may be answered in any way of Pages, however *)
(* it was answered before, and the deadline may pass at every wait.        *)
(***************************************************************************)
EXTENDS Integers, Sequences, FiniteSetsExt, SourceStatus, Outcome

CONSTANTS
  Junk,
  MaxRedirects,  \* MAX_REDIRECTS
  MaxBytes,      \* DEFAULT_MAX_FETCH_BYTES
  Orders,        \* commands and the file they read: [run, id, url, egress, sources]
  Pages,         \* heads of answers: [status, to, declared]
  Chunks         \* the sizes in which a body may come

ASSUME FetchAssumption ==
  /\ MaxRedirects \in Nat /\ MaxBytes \in Nat /\ Chunks \subseteq Nat
  /\ None \notin [bytes : Nat, requests : Nat]
  /\ \A order \in Orders : DOMAIN order.sources = 1..Len(order.sources) /\ Len(order.sources) \in Nat

VARIABLE fetch  \* [order, pc, asked, held, error, cost]

------------------------------------------------------------------------------
(* The policy *)

\* The names that are allowed, trimmed and in small letters.
Allowing(hosts) == {hosts[i].name : i \in DOMAIN hosts} \ {""}
Allows(policy, host) == host.name \in policy

\* A URL as its parser writes it.
Parsed(url) ==
  [scheme |-> url.scheme, user |-> url.user, host |-> [name |-> url.host.name, as |-> "plain"], page |-> url.page]

Check(policy, url) ==
  IF url = Junk THEN Failure("NotAUrl")
  ELSE IF url.scheme = None THEN Failure("NotAUrl")
  ELSE IF url.scheme \notin {"http", "https"} THEN Failure("Scheme")
  ELSE IF url.host = None THEN Failure("NotAUrl")
  ELSE IF ~Allows(policy, url.host) THEN Failure("HostNotAllowed")
  ELSE Answer(Parsed(url))

\* A redirect's target against the page it came from.
Joined(base, target) ==
  IF target = Junk \/ target.scheme # None THEN target ELSE [base EXCEPT !.page = target.page]

\* Variant: a redirect is followed to any host.
NextHopAnywhere(policy, at, page) ==
  IF page.to = None THEN Failure("Transport")
  ELSE IF Check({}, Joined(at, page.to)).error # "HostNotAllowed" THEN Failure("RedirectOffHost")
  ELSE Answer(Parsed(Joined(at, page.to)))

\* Where a redirect leads, checked like the first URL before it is followed.
NextHop(policy, at, page) ==
  IF page.to = None THEN Failure("Transport")
  ELSE IF Check(policy, Joined(at, page.to)).error # "none" THEN Failure("RedirectOffHost")
  ELSE Check(policy, Joined(at, page.to))

------------------------------------------------------------------------------
(* The command *)

Policy == Allowing(fetch.order.egress)

\* The end without a document: what was read of a body is discarded.
End(error) == fetch' = [fetch EXCEPT !.pc = "done", !.error = error, !.held = 0]

\* A request, counted before it is sent, unless the hops are used up.
Request(url) ==
  IF Len(fetch.asked) > MaxRedirects THEN End("TooManyRedirects")
  ELSE fetch' = [fetch EXCEPT !.pc = "answer", !.asked = Append(@, url)]

\* The first source of that id, with the consent that the file records.
FindSource(sources, id) ==
  LET named == {i \in DOMAIN sources : sources[i].id = id}
  IN IF named = {} THEN Failure("NoSuchSource")
     ELSE LET source == sources[Min(named)]
          IN Answer([source |-> source,
                     events |-> IF source.consented_by = None THEN <<>>
                                ELSE <<[source |-> id, at |-> 0, kind |-> "consented", detail |-> source.consented_by]>>])

\* `follow' begins; nothing leaves before the policy was asked.
Read ==
  LET first == Check(Policy, fetch.order.url)
  IN IF Policy = {} THEN End("FederationOff")
     ELSE IF first.error # "none" THEN End(first.error)
     ELSE Request(first.value)

Ordered(run) == fetch.pc = "ordered" /\ fetch.order.run = run

Allowlist == Ordered("allowlist") /\ End("none")

Consent == Ordered("consent") /\ End(FindSource(fetch.order.sources, fetch.order.id).error)

\* A proof reads a source once its operator agreed to pay.
Prove ==
  /\ Ordered("prove")
  /\ LET found == FindSource(fetch.order.sources, fetch.order.id)
     IN IF found.error # "none" THEN End(found.error)
        ELSE IF ~MayRead(found.value.source.requester_pays, found.value.events) THEN End("NoConsent")
        ELSE Read

Fetch == Ordered("fetch") /\ Read

------------------------------------------------------------------------------
(* What is answered *)

Moved(page) ==
  /\ fetch.pc = "answer" /\ page.status = "moved"
  /\ LET next == NextHop(Policy, fetch.asked[Len(fetch.asked)], page)
     IN IF next.error # "none" THEN End(next.error) ELSE Request(next.value)

Denied(page) == fetch.pc = "answer" /\ page.status = "error" /\ End("Status")

\* A length that says too much is refused unread.
Found(page) ==
  /\ fetch.pc = "answer" /\ page.status = "ok"
  /\ IF page.declared # None /\ page.declared > MaxBytes THEN End("TooLarge")
     ELSE fetch' = [fetch EXCEPT !.pc = "body"]

\* Variant: a chunk is taken in before it is measured.
ReadCappedLate(size) ==
  /\ fetch.pc = "body"
  /\ IF fetch.held > MaxBytes THEN End("TooLarge")
     ELSE fetch' = [fetch EXCEPT !.held = @ + size]

\* The chunk that passes the cap is dropped with the rest.
ReadCapped(size) ==
  /\ fetch.pc = "body"
  /\ IF fetch.held + size > MaxBytes THEN End("TooLarge")
     ELSE fetch' = [fetch EXCEPT !.held = @ + size]

\* The whole document, which `fetch' parses; the cost is told of it only.
Whole(json) ==
  /\ fetch.pc = "body"
  /\ IF fetch.order.run = "fetch" /\ ~json THEN End("Transport")
     ELSE fetch' = [fetch EXCEPT !.pc = "done",
                      !.cost = [bytes |-> fetch.held, requests |-> Len(fetch.asked)]]

Broken == fetch.pc \in {"answer", "body"} /\ End("Transport")

Timeout == fetch.pc \in {"answer", "body"} /\ End("Timeout")

------------------------------------------------------------------------------
FetchInit ==
  \E order \in Orders :
    fetch = [order |-> order, pc |-> "ordered", asked |-> <<>>, held |-> 0, error |-> "none", cost |-> None]

FetchNext ==
  \/ Allowlist \/ Consent \/ Prove \/ Fetch
  \/ \E page \in Pages : Moved(page) \/ Denied(page) \/ Found(page)
  \/ \E size \in Chunks : ReadCapped(size)
  \/ \E json \in BOOLEAN : Whole(json)
  \/ Broken \/ Timeout

FetchSpec == FetchInit /\ [][FetchNext]_fetch

------------------------------------------------------------------------------
(* What the register says *)

\* The host of an entry, read off its text: what follows the scheme and the
\* user, whatever the scheme.
EntryHost(url) == IF url = Junk THEN None ELSE IF url.scheme = None THEN None ELSE url.host

RegisterItem(policy, entry) ==
  LET host == EntryHost(entry.url)
  IN [id |-> entry.id, url |-> entry.url, host |-> host, requester_pays |-> entry.requester_pays,
      allowed |-> IF host = None THEN FALSE ELSE Allows(policy, host)]

Register(policy, entries) ==
  [register |-> [i \in DOMAIN entries |-> RegisterItem(policy, entries[i])], federation_off |-> policy = {}]

------------------------------------------------------------------------------
(* Properties *)

\* No request leaves for a host that is not allowed, on any hop, or for
\* anything that is not fetched over http; no more leave than a fetch and its
\* redirects.
HopsAllowed ==
  /\ Len(fetch.asked) <= MaxRedirects + 1
  /\ fetch.error = "TooManyRedirects" => Len(fetch.asked) = MaxRedirects + 1
  /\ \A i \in DOMAIN fetch.asked :
       /\ fetch.asked[i].scheme \in {"http", "https"}
       /\ \E k \in DOMAIN fetch.order.egress :
            fetch.order.egress[k].name = fetch.asked[i].host.name /\ fetch.asked[i].host.name # ""

\* What is held never passes the cap, and a document that was read has its
\* cost: its bytes, and every request up to it.
Measured ==
  /\ fetch.held <= MaxBytes
  /\ fetch.cost # None <=> fetch.pc = "done" /\ fetch.error = "none" /\ fetch.asked # <<>>
  /\ fetch.cost # None => fetch.cost = [bytes |-> fetch.held, requests |-> Len(fetch.asked)]

\* A source that bills its reader is not read before its operator agreed, and
\* looking at the list or consenting reads nothing.
ReadAfterConsent ==
  fetch.asked # <<>> =>
    \/ fetch.order.run = "fetch"
    \/ /\ fetch.order.run = "prove"
       /\ \E i \in DOMAIN fetch.order.sources :
            /\ fetch.order.sources[i].id = fetch.order.id
            /\ fetch.order.sources[i].requester_pays => fetch.order.sources[i].consented_by # None

\* The register calls allowed what a read begins with, and not allowed what is
\* refused for what it is.
Foretold ==
  LET entry == [id |-> 0, url |-> fetch.order.url, requester_pays |-> FALSE]
      says == Register(Policy, <<entry>>)
  IN /\ fetch.asked # <<>> => says.register[1].allowed /\ ~says.federation_off
     /\ fetch.error \in {"NotAUrl", "HostNotAllowed", "FederationOff"} => ~says.register[1].allowed

\* Reads stay within what the operator allows and agreed to, hop by hop and
\* byte by byte, and the register foretells it.
FetchesStayAllowed == HopsAllowed /\ Measured /\ ReadAfterConsent /\ Foretold
==============================================================================
