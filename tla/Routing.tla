------------------------------- MODULE Routing -------------------------------
(***************************************************************************)
(* From a list of containers to a snapshot of routes:                      *)
(* Reconciler.RebuildSnapshot (internal/daemon/reconciler.go) with the     *)
(* packages discovery and routing, and the lookup of a host name in the    *)
(* snapshot (internal/dns/server.go).                                      *)
(*                                                                         *)
(* A host name is the sequence of its labels, what is between its dots: a  *)
(* dot in front makes an empty label.  A preference that may be unset is a *)
(* sequence: empty, or of one value (domains: of many).                    *)
(* Container names are numbers in the order of the names.  What the code   *)
(* collects in a list and filters is a function on the places the entries  *)
(* come from, in the order of these.                                       *)
(***************************************************************************)
EXTENDS Integers, Sequences, SequencesExt, FiniteSets

CONSTANTS
  Catalogue,        \* the containers Docker may list
  MaxListed,        \* bound: containers in one listing
  Overrides,        \* config overrides: <<project, service>> to preferences
  Suffix,           \* domain_suffix, under which names are generated
  ManagedSuffix,    \* serving.managed_suffix, under which names are looked up
  RootServices, IgnoredServices, IgnoredPorts,
  PreferredPorts,   \* preferredPorts, in order
  PublicLabels,     \* last labels that look public: .com, .dev, two letters, ...
  Folded,           \* labels with upper-case letters, to their lower case
  Trimmed           \* labels with spaces on the outside, to what is inside

Hostnames == Seq(STRING)
Optional(S) == {pref \in Seq(S) : Len(pref) <= 1}
Preferences ==
  [enable : Optional(BOOLEAN), domain : Optional(Hostnames), domains : Seq(Hostnames),
   root : Optional(BOOLEAN), port : Optional(Int), scheme : Optional(STRING),
   priority : Optional(Int)]

ASSUME SuffixAssumption ==
  Suffix \in Hostnames /\ Suffix # <<>> /\ ManagedSuffix \in Hostnames
ASSUME CatalogueAssumption ==
  \A c \in Catalogue :
    /\ c.name \in Nat /\ \A d \in Catalogue : c.name = d.name => c = d
    /\ c.compose \in Seq(STRING) /\ c.parsed \in STRING \X STRING
    /\ c.ports \in Seq([port : Nat, protocol : STRING])
    /\ c.labels \in Preferences
ASSUME ConfigAssumption ==
  /\ \A s \in DOMAIN Overrides : Overrides[s] \in Preferences
  /\ PreferredPorts \in Seq(Nat) /\ MaxListed \in Nat

VARIABLES listing, snap
vars == <<listing, snap>>

Fields == {"enable", "domain", "domains", "root", "port", "scheme", "priority"}
NoPreferences == [f \in Fields |-> <<>>]

\* The value of an optional preference, or a default.
Or(pref, default) == IF pref = <<>> THEN default ELSE pref[1]

(***************************************************************************)
(* Package discovery                                                       *)
(***************************************************************************)
\* BuildCandidateBase: the compose labels when both are there, else the first
\* two parts of the container's name (c.parsed).
BuildCandidateBase(c) ==
  IF Len(c.compose) = 2 THEN <<c.compose[1], c.compose[2]>> ELSE c.parsed

\* ApplyLabelFields and routePreferencesFromLabels: a malformed label is as
\* good as none, and is warned of.
ApplyLabelFields(c) ==
  [f \in Fields |-> IF f \in c.malformed THEN <<>> ELSE c.labels[f]]

LabelWarnings(c) == {<<"invalid_label", c.name, f>> : f \in c.malformed}

\* Mutant of SelectPublishedPort: any protocol will do.
SelectPublishedPortAny(ports, labelPort, configPort) ==
  LET all == {ports[i].port : i \in DOMAIN ports}
  IN  IF all = {} THEN <<>>
      ELSE IF labelPort # <<>> /\ labelPort[1] \in all THEN <<labelPort[1], "label">>
      ELSE <<ports[1].port, "first-published">>

\* SelectPublishedPort: the port and where it comes from, or nothing.
SelectPublishedPort(ports, labelPort, configPort) ==
  LET tcp == {i \in DOMAIN ports : ports[i].protocol = "tcp"}
      published == {ports[i].port : i \in tcp}
      preferred == {i \in DOMAIN PreferredPorts : PreferredPorts[i] \in published}
  IN  IF tcp = {} THEN <<>>
      ELSE IF labelPort # <<>> /\ labelPort[1] \in published THEN <<labelPort[1], "label">>
      ELSE IF configPort > 0 /\ configPort \in published THEN <<configPort, "override">>
      ELSE IF preferred # {} THEN <<PreferredPorts[Min(preferred)], "preference">>
      ELSE <<ports[Min(tcp)].port, "first-published">>

\* IsEligible, with its two optional labels.
IsEligible(service, running, enabled, disabled, ports) ==
  /\ running
  /\ ports # {}
  /\ ~Or(disabled, FALSE)
  /\ \/ Or(enabled, FALSE)
     \/ service \notin IgnoredServices /\ ~(ports \subseteq IgnoredPorts)

(***************************************************************************)
(* Package routing                                                         *)
(***************************************************************************)
\* MergeOverrides: a label takes precedence over the config file.
MergeOverrides(config, labels) ==
  [f \in Fields |-> IF labels[f] # <<>> THEN labels[f] ELSE config[f]]

servicePreferences(candidate) ==
  IF candidate \in DOMAIN Overrides THEN Overrides[candidate] ELSE NoPreferences

isPublicDomain(host) == Len(host) > 1 /\ Last(host) \in PublicLabels

UnderSuffix(host) == Len(host) > Len(Suffix) /\ IsSuffix(Suffix, host)

\* What an explicit domain is warned of.
DomainWarnings(host) ==
  IF isPublicDomain(host) THEN {<<"public_suffix_rejected", host>>}
  ELSE IF ~UnderSuffix(host) THEN {<<"unmanaged_suffix", host>>} ELSE {}

\* The host name made of service, project and suffix; root services have none.
DefaultDomain(candidate, prefs) ==
  (IF Or(prefs.root, candidate[2] \in RootServices) THEN <<>> ELSE <<candidate[2]>>)
    \o <<candidate[1]>> \o Suffix

\* Mutant of GenerateDomains: extra domains are not examined.
GenerateDomainsUnchecked(candidate, prefs) ==
  IF prefs.domain # <<>>
    THEN [domains |-> prefs.domain, warnings |-> DomainWarnings(prefs.domain[1])]
    ELSE [domains |-> <<DefaultDomain(candidate, prefs)>> \o prefs.domains, warnings |-> {}]

\* GenerateDomains: an explicit domain replaces the default, extra domains are
\* added to it; what looks public is left out.
GenerateDomains(candidate, prefs) ==
  LET explicit == IF prefs.domain # <<>> THEN prefs.domain ELSE prefs.domains
      accepted == {i \in DOMAIN explicit : ~isPublicDomain(explicit[i])}
      default == IF prefs.domain # <<>> THEN {} ELSE {0}
  IN  [domains  |-> [i \in default \cup accepted |->
                       IF i = 0 THEN DefaultDomain(candidate, prefs) ELSE explicit[i]],
       warnings |-> UNION {DomainWarnings(explicit[i]) : i \in DOMAIN explicit}]

\* Mutant of Before: the lower priority first.
BeforeLowest(a, b) ==
  a.priority < b.priority \/ (a.priority = b.priority /\ a.winner < b.winner)

\* The order of claims to one host name.
Before(a, b) ==
  a.priority > b.priority \/ (a.priority = b.priority /\ a.winner < b.winner)

\* A place in the list of routes: that of the container and that of the domain.
Earlier(p, q) == p[1] < q[1] \/ (p[1] = q[1] /\ p[2] < q[2])

\* sort.SliceStable: equal claims stay in the order in which they were listed.
Ahead(routes, p, q) ==
  Before(routes[p], routes[q]) \/ (~Before(routes[q], routes[p]) /\ Earlier(p, q))

SortClaims(routes, places) ==
  LET rank(p) == Cardinality({q \in places : Ahead(routes, q, p)}) + 1
  IN  [n \in 1..Cardinality(places) |-> routes[CHOOSE p \in places : rank(p) = n]]

\* Mutant of ConflictOf: the winner counts among the losers.
ConflictOfAll(claims) ==
  [hostname |-> claims[1].hostname, winner |-> claims[1].winner,
   losers |-> [i \in DOMAIN claims |-> claims[i].winner],
   tie |-> claims[1].priority = claims[2].priority]

\* The conflict of two or more sorted claims.
ConflictOf(claims) ==
  [hostname |-> claims[1].hostname, winner |-> claims[1].winner,
   losers |-> [i \in DOMAIN Tail(claims) |-> claims[i + 1].winner],
   tie |-> claims[1].priority = claims[2].priority]

\* ResolveConflicts and Builder.Build: one route per host name, and a conflict
\* for every host name with more than one claim.
ResolveConflicts(routes) ==
  LET hosts == {routes[p].hostname : p \in DOMAIN routes}
      claims == [h \in hosts |->
                   SortClaims(routes, {p \in DOMAIN routes : routes[p].hostname = h})]
  IN  [active    |-> [h \in hosts |-> claims[h][1]],
       conflicts |-> {ConflictOf(claims[h]) : h \in {g \in hosts : Len(claims[g]) > 1}}]

(***************************************************************************)
(* Reconciler.RebuildSnapshot                                              *)
(***************************************************************************)
\* What one round of the loop makes of a container.
EffectivePreferences(c) ==
  MergeOverrides(servicePreferences(BuildCandidateBase(c)), ApplyLabelFields(c))

Selected(c) ==
  SelectPublishedPort(c.ports, ApplyLabelFields(c).port, Or(EffectivePreferences(c).port, 0))

\* The enable preference is merged with the others and then left alone.
Eligible(c) ==
  /\ Selected(c) # <<>>
  /\ IsEligible(BuildCandidateBase(c)[2], c.running, <<>>, <<>>, {Selected(c)[1]})

Generated(c) == GenerateDomains(BuildCandidateBase(c), EffectivePreferences(c))

RouteTo(c, h) ==
  [hostname |-> h, winner |-> c.name, port |-> Selected(c)[1], source |-> Selected(c)[2],
   scheme |-> Or(EffectivePreferences(c).scheme, "http"),
   priority |-> Or(EffectivePreferences(c).priority, 0)]

\* One round of the loop over the containers: routes and warnings of one.
Contribution(c) ==
  [routes   |-> IF Eligible(c)
                  THEN [i \in DOMAIN Generated(c).domains |-> RouteTo(c, Generated(c).domains[i])]
                  ELSE <<>>,
   warnings |-> LabelWarnings(c) \cup IF Eligible(c) THEN Generated(c).warnings ELSE {}]

Build(containers) ==
  LET parts == [i \in DOMAIN containers |-> Contribution(containers[i])]
      places == UNION {{<<i, k>> : k \in DOMAIN parts[i].routes} : i \in DOMAIN parts}
      resolved == ResolveConflicts([p \in places |-> parts[p[1]].routes[p[2]]])
  IN  [routes    |-> resolved.active,
       conflicts |-> resolved.conflicts,
       warnings  |-> UNION {parts[i].warnings : i \in DOMAIN parts}]

\* NewApp builds a first snapshot from no containers.
Init == listing = <<>> /\ snap = Build(<<>>)

\* What Docker may list next: a container more, at any place, or one less.
Listings ==
  LET new == Catalogue \ ToSet(listing)
  IN  {InsertAt(listing, i, c) : i \in {j \in 1..Len(listing) + 1 : Len(listing) < MaxListed},
                                c \in new}
        \cup {RemoveAt(listing, i) : i \in DOMAIN listing}

RebuildSnapshot ==
  \E l \in Listings : listing' = l /\ snap' = Build(l)

Next == RebuildSnapshot
Spec == Init /\ [][Next]_vars

(***************************************************************************)
(* dns.Server.LookupHostname                                               *)
(***************************************************************************)
\* What a table of labels makes of a label; most it leaves as they are.
Through(table, label) == IF label \in DOMAIN table THEN table[label] ELSE label

\* normalizeHost, applied to the name that is asked for: without the spaces
\* around it, in lower case, then without the dots around it.
normalizeHost(host) ==
  LET outer == {1, Len(host)}
      spaced == [i \in DOMAIN host |-> IF i \in outer THEN Through(Trimmed, host[i]) ELSE host[i]]
      named == {i \in DOMAIN host : spaced[i] # ""}
  IN  IF named = {} THEN <<>>
      ELSE SubSeq([i \in DOMAIN host |-> Through(Folded, spaced[i])], Min(named), Max(named))

IsManagedHost(host) ==
  LET h == normalizeHost(host)
  IN  h # <<>> /\ ManagedSuffix # <<>> /\ IsSuffix(ManagedSuffix, h)

LookupHostname(host) ==
  LET h == normalizeHost(host)
      active == IsManagedHost(host) /\ h \in DOMAIN snap.routes
  IN  [managed |-> IsManagedHost(host), active |-> active,
       route |-> IF active THEN <<snap.routes[h]>> ELSE <<>>]

(***************************************************************************)
(* Properties                                                              *)
(***************************************************************************)
\* The claims of container c to host name h, as places in its list of domains.
Claims(c, h) ==
  {k \in DOMAIN Contribution(c).routes : Contribution(c).routes[k].hostname = h}

Claimants(h) == {c \in ToSet(listing) : Claims(c, h) # {}}

\* The container that a route or a conflict names as the winner.
Named(n) == CHOOSE c \in ToSet(listing) : c.name = n

Priority(c) == Or(EffectivePreferences(c).priority, 0)

\* RebuildSnapshot does not depend on the order in which Docker lists the
\* containers: a host name belongs to the claimant of the highest priority,
\* the first by name among equals, and leads to that container.
WinnerByPriority ==
  \A h \in DOMAIN snap.routes :
    \E c \in Claimants(h) :
      /\ \A d \in Claimants(h) :
           Priority(c) > Priority(d) \/ (Priority(c) = Priority(d) /\ c.name <= d.name)
      /\ snap.routes[h] = RouteTo(c, h)

\* A conflict names every other claimant of its host name as a loser, and the
\* winner itself only if that container lists the host name twice.  It is a tie
\* if the name, or the place in the list, had to decide.
ConflictsExact ==
  /\ \A k \in snap.conflicts : k.hostname \in DOMAIN snap.routes
  /\ \A h \in DOMAIN snap.routes :
       LET won == snap.routes[h].winner
           others == Claimants(h) \ {Named(won)}
           repeats == \E i, j \in Claims(Named(won), h) : i # j
       IN  /\ others # {} \/ repeats => \E k \in snap.conflicts : k.hostname = h
           /\ \A k \in snap.conflicts : k.hostname = h =>
                /\ k.winner = won
                /\ ToSet(k.losers) \ {won} = {c.name : c \in others}
                /\ won \in ToSet(k.losers) <=> repeats
                /\ k.tie <=> repeats \/ \E c \in others : Priority(c) = snap.routes[h].priority

\* A route leads to a TCP port its container publishes and that is not ignored;
\* a port that its label asks for and that is published is the one.
UpstreamIsPublished ==
  \A h \in DOMAIN snap.routes :
    \E c \in ToSet(listing) :
      /\ c.name = snap.routes[h].winner
      /\ LET tcp == {c.ports[i].port : i \in {j \in DOMAIN c.ports : c.ports[j].protocol = "tcp"}}
         IN  /\ snap.routes[h].port \in tcp \ IgnoredPorts
             /\ \A p \in ToSet(c.labels.port) :
                  p \in tcp /\ "port" \notin c.malformed => snap.routes[h].port = p

\* If what is under domain_suffix is also under serving.managed_suffix, a name
\* that Docker's labels or the config file made active is served under that
\* name, unless a warning says that it is not managed or it is written with
\* upper-case letters, outer spaces or outer dots: GenerateDomains takes it as it
\* is, and LookupHostname never asks for a name written like that.
ActiveIsServed ==
  ManagedSuffix # <<>> /\ IsSuffix(ManagedSuffix, Suffix) =>
    \A h \in DOMAIN snap.routes :
      \/ LookupHostname(h).route = <<snap.routes[h]>>
      \/ <<"unmanaged_suffix", h>> \in snap.warnings
      \/ normalizeHost(h) # h

\* The enable preference of a container: its label's, else the config file's.
Enabled(c) == Or(EffectivePreferences(c).enable, TRUE)

\* docs/configuration.md: enable is an "enable/disable override", so a container
\* that is disabled wins no route.
DisabledHasNoRoute ==
  \A h \in DOMAIN snap.routes :
    \A c \in ToSet(listing) : c.name = snap.routes[h].winner => Enabled(c)
==============================================================================
