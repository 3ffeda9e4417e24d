---------------------------- MODULE BgpSessions ----------------------------
(***************************************************************************)
(* topology/graph.py: the BGP sessions of a topology graph, from the       *)
(* neighbor statements of its devices.                                     *)
(*                                                                         *)
(* A statement names its peer by an address, which several devices may     *)
(* own, and is one end of a session whose other end the peer may or may    *)
(* not configure.  Ends whose own address the configuration gives meet     *)
(* under a key; the others are kept for a second pass, which looks for a   *)
(* far end that points back.  Devices and their statements come in any     *)
(* order.  What is true of the fabric, which device a statement means and  *)
(* which address its session is sourced from, is part of the estate, and   *)
(* the program does not see it.                                            *)
(***************************************************************************)
EXTENDS Naturals, Sequences, FiniteSets, FiniteSetsExt, SequencesExt

CONSTANTS
    Hosts,
    Addresses,  \* of the global tables
    Asns,
    Outside,    \* the target of a statement whose peer is none of the hosts
    Unknown,    \* no local address, no remote-as, no such host
    Estates

Statements ==
    [host : Hosts, peer_ip : Addresses, remote_as : Asns \union {Unknown},
     local_ip : Addresses \union {Unknown},
     target : Hosts \union {Outside}, source : Addresses]

(* A device has one statement for an address, which is another's; it is    *)
(* configured with its peer's AS if with any; and an address that the      *)
(* configuration gives for the local end is the one used.                  *)
WellFormed(e) ==
    /\ e.owns \in [Hosts -> SUBSET Addresses]
    /\ e.asn \in [Hosts -> Asns]
    /\ e.statements \subseteq Statements
    /\ \A s, t \in e.statements :
          (s.host = t.host /\ s.peer_ip = t.peer_ip) => s = t
    /\ \A s \in e.statements :
          /\ s.target # s.host
          /\ s.source \in e.owns[s.host]
          /\ s.local_ip \in {s.source, Unknown}
          /\ \/ /\ s.target \in Hosts
                /\ s.peer_ip \in e.owns[s.target]
                /\ s.remote_as \in {e.asn[s.target], Unknown}
             \/ /\ s.target = Outside
                /\ \A h \in Hosts : s.peer_ip \notin e.owns[h]

ASSUME EstateAssumption ==
    /\ IsFiniteSet(Hosts)
    /\ Outside \notin Hosts
    /\ Unknown \notin Hosts \union Addresses \union Asns
    /\ \A e \in Estates : WellFormed(e)

VARIABLES
    estate,     \* the devices and what they configure
    unread,     \* statements not read yet
    sessions,   \* the groups, in the order of the dictionary
    deferred,   \* ends without a local address, in the order read
    warnings    \* statements reported as ambiguous: host and address

vars == <<estate, unread, sessions, deferred, warnings>>

-----------------------------------------------------------------------------
(* Who owns an address.                                                    *)

_device_ips(host) == estate.owns[host]

_ip_owners(ip) == {h \in Hosts : ip \in _device_ips(h)}

_global_asn(host) == estate.asn[host]

Candidates(s) == _ip_owners(s.peer_ip) \ {s.host}

AnyCandidate(s) == {CHOOSE h \in Candidates(s) : TRUE}  \* mutant of Matching: a guess

(* The remote AS is evidence when a single candidate has it.               *)
Matching(s) ==
    {h \in Candidates(s) : s.remote_as # Unknown /\ _global_asn(h) = s.remote_as}

_resolve_peer_host(s) ==
    IF Cardinality(Candidates(s)) = 1 THEN CHOOSE h \in Candidates(s) : TRUE
    ELSE IF Candidates(s) # {} /\ Cardinality(Matching(s)) = 1
    THEN CHOOSE h \in Matching(s) : TRUE
    ELSE Unknown

(* Mutant of Ambiguous: silent when the statement has no remote AS.        *)
AmbiguousAs(s) ==
    Candidates(s) # {} /\ _resolve_peer_host(s) = Unknown /\ s.remote_as # Unknown

Ambiguous(s) == Candidates(s) # {} /\ _resolve_peer_host(s) = Unknown

-----------------------------------------------------------------------------
(* Ends and groups.                                                        *)

Endpoint(s) ==
    [host |-> s.host, peer_host |-> _resolve_peer_host(s),
     peer_ip |-> s.peer_ip, local_ip |-> s.local_ip]

HostKey(ep) ==  \* mutant of _session_key: the pair of devices only
    [hosts |-> {ep.host, ep.peer_host}, addresses |-> {}, from |-> Unknown]

_session_key(ep) ==
    [hosts |-> {ep.host, ep.peer_host}, addresses |-> {ep.local_ip, ep.peer_ip},
     from |-> Unknown]

UnpairedKey(ep) ==
    [hosts |-> {ep.host, ep.peer_host}, addresses |-> {ep.peer_ip}, from |-> ep.host]

(* dict.setdefault(key, []).append(ep)                                     *)
Filed(groups, key, ep) ==
    IF \E i \in DOMAIN groups : groups[i].key = key
    THEN [i \in DOMAIN groups |->
            IF groups[i].key = key
            THEN [groups[i] EXCEPT !.members = Append(@, ep)] ELSE groups[i]]
    ELSE Append(groups, [key |-> key, members |-> <<ep>>])

(* Mutant of Pairs: the far end may point anywhere.                       *)
PairsAnywhere(group, ep) ==
    LET other == group.members[1]
    IN  /\ Len(group.members) = 1
        /\ other.host = ep.peer_host
        /\ \/ other.local_ip = ep.peer_ip
           \/ other.local_ip = Unknown /\ ep.peer_ip \in _device_ips(other.host)

(* The group of a single far end that points back at one of our addresses, *)
(* from the address we point at.                                           *)
Pairs(group, ep) ==
    LET other == group.members[1]
    IN  /\ Len(group.members) = 1
        /\ other.host = ep.peer_host
        /\ other.peer_ip \in _device_ips(ep.host)
        /\ \/ other.local_ip = ep.peer_ip
           \/ other.local_ip = Unknown /\ ep.peer_ip \in _device_ips(other.host)

-----------------------------------------------------------------------------
Init ==
    /\ estate \in Estates
    /\ unread = estate.statements
    /\ sessions = <<>>
    /\ deferred = <<>>
    /\ warnings = {}

(* The statements of a device are read one after the other.                *)
NextStatement(s) ==
    /\ s \in unread
    /\ \A t \in estate.statements \ unread, u \in unread :
          t.host = u.host => u.host = s.host
    /\ unread' = unread \ {s}
    /\ UNCHANGED estate

(* _bgp_endpoints and the first loop of _group_sessions, for one statement.*)
ReadNeighbor(s) ==
    /\ NextStatement(s)
    /\ warnings' =
          IF Ambiguous(s)
          THEN warnings \union {[host |-> s.host, peer_ip |-> s.peer_ip]}
          ELSE warnings
    /\ \/ /\ _resolve_peer_host(s) = Unknown
          /\ UNCHANGED <<sessions, deferred>>
       \/ /\ _resolve_peer_host(s) # Unknown
          /\ s.local_ip # Unknown
          /\ sessions' = Filed(sessions, _session_key(Endpoint(s)), Endpoint(s))
          /\ UNCHANGED deferred
       \/ /\ _resolve_peer_host(s) # Unknown
          /\ s.local_ip = Unknown
          /\ deferred' = Append(deferred, Endpoint(s))
          /\ UNCHANGED sessions

(* The second loop of _group_sessions, for one end.                        *)
PairDeferred ==
    /\ unread = {}
    /\ deferred # <<>>
    /\ deferred' = Tail(deferred)
    /\ LET ep == Head(deferred)
           matching == {i \in DOMAIN sessions : Pairs(sessions[i], ep)}
       IN  \/ /\ matching # {}
              /\ sessions' =
                    [sessions EXCEPT ![Min(matching)].members = Append(@, ep)]
           \/ /\ matching = {}
              /\ sessions' = Filed(sessions, UnpairedKey(ep), ep)
    /\ UNCHANGED <<estate, unread, warnings>>

Next ==
    \/ \E s \in unread : ReadNeighbor(s)
    \/ PairDeferred

Spec == Init /\ [][Next]_vars

-----------------------------------------------------------------------------
(* _add_bgp_edges: an edge per group, between two addressed ends.          *)

FarEnd(group) ==
    LET others == {i \in DOMAIN group.members :
                     group.members[i].host # group.members[1].host}
    IN  IF others = {} THEN {} ELSE {group.members[Min(others)]}

Edge(group) ==
    LET a == group.members[1]
        b == FarEnd(group)
        host_b == IF b = {} THEN a.peer_host ELSE (CHOOSE ep \in b : TRUE).host
        local_a == IF a.local_ip = Unknown /\ b # {}
                   THEN (CHOOSE ep \in b : TRUE).peer_ip ELSE a.local_ip
        local_b == IF b # {} /\ (CHOOSE ep \in b : TRUE).local_ip # Unknown
                   THEN (CHOOSE ep \in b : TRUE).local_ip ELSE a.peer_ip
    IN  {<<a.host, local_a>>, <<host_b, local_b>>}

bgp_edges == {Edge(sessions[i]) : i \in DOMAIN sessions}

-----------------------------------------------------------------------------
(* The truth about the estate.                                             *)

Settled == unread = {} /\ deferred = <<>>

(* The session a statement is an end of, and as an edge may show it: the   *)
(* local address of a session that only this end configures may be unknown.*)
Session(s) == {<<s.host, s.source>>, <<s.target, s.peer_ip>>}

Shown(s) == {<<s.host, s.local_ip>>, <<s.target, s.peer_ip>>}

BothEnds(s) == \E t \in estate.statements : t # s /\ Session(t) = Session(s)

TrueEdge(s) == IF BothEnds(s) THEN Session(s) ELSE Shown(s)

StatementOf(ep) ==
    CHOOSE s \in estate.statements : s.host = ep.host /\ s.peer_ip = ep.peer_ip

Members(i) == ToSet(sessions[i].members)

Grouped(s) ==
    \E i \in DOMAIN sessions : \E ep \in Members(i) : StatementOf(ep) = s

Drawn == {s \in estate.statements : Grouped(s)}

(* A device that shares an address with another one gives the local        *)
(* address of every statement.                                             *)
OwnAddresses ==
    \A s \in estate.statements :
        s.local_ip = Unknown =>
            \A h \in Hosts \ {s.host} :
                estate.owns[h] \intersect estate.owns[s.host] = {}

(* No device names an address of its own: two devices that both own both   *)
(* addresses could otherwise run two sessions between the same pairs.      *)
OthersAddresses ==
    \A s \in estate.statements : s.peer_ip \notin estate.owns[s.host]

(* The configurations tell the sessions of two devices apart: a statement  *)
(* without a local address and a statement of its peer that could be the   *)
(* other end are two ends of one session.                                  *)
ToldApart ==
    \A s, t \in estate.statements :
        ( /\ s.local_ip = Unknown
          /\ s.target = t.host /\ t.target = s.host
          /\ t.local_ip \in {s.peer_ip, Unknown} )
        => Session(s) = Session(t)

TypeOK ==
    /\ WellFormed(estate)
    /\ unread \subseteq estate.statements
    /\ \A i \in DOMAIN sessions :
          /\ sessions[i].key.hosts \subseteq Hosts
          /\ Len(sessions[i].members) \in 1..2
          /\ \A ep \in Members(i) : ep \in
                [host : Hosts, peer_host : Hosts, peer_ip : Addresses,
                 local_ip : Addresses \union {Unknown}]
    /\ \A ep \in ToSet(deferred) : ep.local_ip = Unknown /\ ep.peer_host \in Hosts
    /\ warnings \subseteq [host : Hosts, peer_ip : Addresses]

(* No session is guessed: whoever else owns the address, an end that is    *)
(* drawn is drawn to the device its statement means (_resolve_peer_host,   *)
(* graph.py 259-276).                                                      *)
NoSessionGuessed ==
    \A i \in DOMAIN sessions : \A ep \in Members(i) :
        ep.peer_host = StatementOf(ep).target

(* A statement about a known device is drawn or reported, never dropped    *)
(* silently, and not both ("never guessed ... always warned about").       *)
DrawnOrReported ==
    Settled =>
        \A s \in estate.statements :
            s.target \in Hosts =>
                ((s \in Drawn) <=>
                 [host |-> s.host, peer_ip |-> s.peer_ip] \notin warnings)

(* "Two sessions between the same two devices are two distinct groups; the *)
(* same session seen from both ends is one" (_group_sessions, graph.py     *)
(* 375-378): for ends with a local address, whatever else is configured.   *)
AddressedSessionsMeet ==
    OthersAddresses =>
    \A i, j \in DOMAIN sessions : \A a \in Members(i), b \in Members(j) :
        (a.local_ip # Unknown /\ b.local_ip # Unknown) =>
            (i = j <=> Session(StatementOf(a)) = Session(StatementOf(b)))

(* One edge per session, between the right devices and with the right      *)
(* addresses, in whatever order devices and statements come -- where the   *)
(* configurations tell the sessions apart, no device without local         *)
(* addresses shares one and none names its own.                            *)
EdgesAreSessions ==
    (Settled /\ OwnAddresses /\ OthersAddresses /\ ToldApart) =>
        /\ bgp_edges = {TrueEdge(s) : s \in Drawn}
        /\ Cardinality(DOMAIN sessions) = Cardinality({Session(s) : s \in Drawn})

(* "Pair them with a far-side endpoint that points back at this device"    *)
(* (graph.py 389-391): the two ends of a group name one another.           *)
PairsPointBack ==
    \A i \in DOMAIN sessions : \A a, b \in Members(i) :
        a # b => a.peer_host = b.host
=============================================================================
