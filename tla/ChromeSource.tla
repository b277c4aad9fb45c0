----------------------------- MODULE ChromeSource -----------------------------
(***************************************************************************)
(* ChromeSourcePort: what a host that reads publisher pages in a browser   *)
(* answers, and which of its pages become observations.                    *)
(*                                                                         *)
(* A world is the host's reply with the navigation it attests.  Addresses  *)
(* are the names of hosts; their syntax is left out.                       *)
(***************************************************************************)
EXTENDS PublicSources

CONSTANTS
  PublicHosts,      \* the host names and addresses of the public internet
  MaxHops,          \* the redirects that an attestation may have
  MaxContacts       \* the addresses that an attestation may have

ASSUME ChromeAssumption == MaxHops \in Nat /\ MaxContacts \in Nat

DeniedSegments == {"account", "inbox", "login", "messages", "oauth", "profile", "settings"}

\* _validate_navigation_attestation: every hop stays on the approved domain.
Attested(page, domain) ==
  /\ Cardinality(page.contacted) \in 1 .. MaxContacts
  /\ Len(page.hops) \in 1 .. MaxHops
  /\ page.receipt # Unstated
  /\ \A i \in DOMAIN page.hops : page.hops[i] \in PublicHosts /\ page.hops[i] = domain
  /\ Last(page.hops) = page.host
  /\ page.contacted \subseteq PublicHosts

\* _validate_approved_publisher_page.
ApprovedPage(page, domain) ==
  /\ page.host \in PublicHosts
  /\ page.host = domain
  /\ page.path \cap DeniedSegments = {}
  /\ page.kind = "publisher" /\ page.public /\ page.relevant
  /\ Attested(page, domain)

\* A page counts when it was published and available by the cutoff.
Established(page, query) ==
  /\ page.published # Unstated
  /\ page.available # Unstated
  /\ page.available <= query.cutoff

\* An extract is kept only when the publisher allows to redistribute it.
PageObservation(page, result) ==
  [id |-> page.id, observed |-> page.observed, published |-> page.published,
   available |-> page.available, retrieved |-> result.now,
   scope |-> IF page.extract /\ result.redistributable THEN "bounded_extract" ELSE "normalized_source_record",
   content |-> page.content, uri |-> page.uri, extract |-> page.extract /\ result.redistributable]

\* What stands in the way of reading the pages, in the order of the checks:
\* the approval, the pages, who published them, the boundary, their terms.
Verdict(result) ==
  LET refused == result.state = "denied" \/ ~ result.run_approved \/ result.domain = Unstated
      outside == \/ result.domain \notin PublicHosts
                 \/ \E page \in Range(result.pages) : ~ ApprovedPage(page, result.domain)
                 \/ result.terms # Unstated /\ result.terms \notin PublicHosts
      misstated == \/ result.terms # Unstated /\ result.terms # result.domain
                   \/ result.redistributable /\ result.terms = Unstated
  IN  IF result.state \in {"disconnected", "unavailable"} THEN "unavailable"
      ELSE IF refused THEN "denied"
      ELSE IF result.pages = <<>> THEN "unavailable"
      ELSE IF result.publisher = Unstated THEN "raised"
      ELSE IF outside THEN "denied"
      ELSE IF misstated THEN "raised"
      ELSE IF \E page \in Range(result.pages) : page.injected THEN "unavailable"
      ELSE "answered"

\* The pages that do not count are gaps.
Pageful(query, result) ==
  LET kept == {page \in Range(result.pages) : Established(page, query)}
      status == IF kept = Range(result.pages) THEN "complete" ELSE "partial"
  IN  IF kept = {} THEN Terminal(query, "unavailable", result.now)
      ELSE [query |-> query, status |-> status,
            items |-> {PageObservation(page, result) : page \in kept},
            complete |-> status = "complete", gaps |-> status # "complete",
            limited |-> status # "complete", more |-> FALSE, access |-> "allowed",
            redistributable |-> result.redistributable, retrieved |-> result.now]

\* fetch: a host that refuses or is gone answers nothing.
ChromeAnswer(query, world) ==
  LET verdict == Verdict(world)
  IN  IF world.reply = "refused" THEN Terminal(query, "denied", world.now)
      ELSE IF world.reply = "lost" THEN Terminal(query, "unavailable", world.now)
      ELSE IF verdict = "raised" THEN Raises
      ELSE IF verdict # "answered" THEN Terminal(query, verdict, world.now)
      ELSE Pageful(query, world)

=============================================================================
