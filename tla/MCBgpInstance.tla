--------------------------- MODULE MCBgpInstance ---------------------------
\* Stanzas of up to four lines on one or two targets: sessions and groups at
\* the process level with a family after them, a VRF, and the members of the
\* three scopes in one or two blocks, of one scope or mixed.
EXTENDS BgpInstance, TLC

Peer == CHOOSE p \in Peers : TRUE
Group == CHOOSE g \in Groups : TRUE
Route == CHOOSE p \in Routes : TRUE
One == CHOOSE v \in Values : TRUE
Two == CHOOSE v \in Values : v # One

L(scope, kind, no, at, val) == [scope |-> scope, kind |-> kind, no |-> no, at |-> at, val |-> val]
Header(scope) == L(scope, "header", FALSE, Process, Absent)
Router == <<Header("global")>>
Say(scope, kind, at, vals) == {L(scope, kind, FALSE, at, v) : v \in vals}
No(scope, kind, at) == {L(scope, kind, TRUE, at, Absent)}

SessionLines(scope) ==
  Say(scope, "remote_as", Peer, Values) \cup Say(scope, "shutdown", Peer, {On})
    \cup Say(scope, "route_map", Peer, {One})
    \cup UNION {No(scope, k, Peer) : k \in {"neighbor", "shutdown", "route_map"}}

GroupLines ==
  Say("global", "group", Group, {On}) \cup Say("global", "route_map", Group, {One})
    \cup Say("global", "member", Peer, {Group})
    \cup No("global", "group", Group) \cup No("global", "route_map", Group)
    \cup No("global", "member", Peer) \cup No("global", "group", Peer)

FamilyLines ==
  Say("af", "activate", Peer, {On}) \cup Say("af", "route_map", Peer, {Two}) \cup No("af", "activate", Peer)

MemberLines(scope, kinds) ==
  LET About(k) == IF k \in ScalarKinds THEN Process ELSE Route
  IN  UNION {Say(scope, k, About(k), IF k = "bestpath" THEN {On} ELSE Values) \cup No(scope, k, About(k)) : k \in kinds}

SeqsUpTo(S, n) == UNION {[1..m -> S] : m \in 0..n}
SeqsOf(S, n) == [1..n -> S]

MCScripts ==
  \* sessions and groups of the process
  {Router \o a : a \in SeqsUpTo(SessionLines("global"), 4)}
  \cup {Router \o a \o b \o c : a \in SeqsUpTo(GroupLines, 2), b \in SeqsUpTo(SessionLines("global"), 1), c \in SeqsUpTo(GroupLines, 1)}
  \* a family between lines of the process
  \cup {Router \o a \o <<Header("af")>> \o b \o c :
          a \in SeqsUpTo(SessionLines("global"), 1), b \in SeqsUpTo(FamilyLines, 2), c \in SeqsUpTo(SessionLines("global"), 1)}
  \* a VRF, in one block or in two
  \cup {Router \o a \o <<Header("vrf")>> \o b :
          a \in SeqsUpTo(SessionLines("global"), 1), b \in SeqsUpTo(SessionLines("vrf"), 2)}
  \cup {Router \o <<Header("vrf")>> \o a \o <<Header("vrf")>> \o b :
          a \in SeqsUpTo(SessionLines("vrf"), 1), b \in SeqsUpTo(SessionLines("vrf"), 1)}
  \* members and settings
  \cup {Router \o a : a \in SeqsUpTo(MemberLines("global", {"network", "redistribute", "default_metric"}), 2)
                              \cup SeqsOf(MemberLines("global", {"network"}), 3)}
  \cup {Router \o a \o <<Header("af")>> \o b :
          a \in SeqsUpTo(MemberLines("global", {"aggregate", "bestpath"}), 2),
          b \in SeqsUpTo(MemberLines("af", {"network", "aggregate", "maximum_paths"}), 1)}
  \cup {Router \o <<Header("af")>> \o a \o <<Header("af")>> \o b :
          a \in SeqsUpTo(MemberLines("af", {"network", "aggregate", "maximum_paths"}), 2),
          b \in SeqsUpTo(MemberLines("af", {"network", "aggregate", "maximum_paths"}), 1)}
  \cup {Router \o a \o <<Header("vrf")>> \o b :
          a \in SeqsUpTo(MemberLines("global", {"network"}), 1), b \in SeqsUpTo(MemberLines("vrf", {"network"}), 2)}
  \* members of a family around lines of the process, and redistributions
  \* withdrawn in one scope and stated in another
  \cup {Router \o a \o <<Header("af")>> \o b \o c :
          a \in SeqsUpTo(MemberLines("global", {"aggregate"}), 1),
          b \in SeqsUpTo(MemberLines("af", {"aggregate"}), 2),
          c \in SeqsUpTo(MemberLines("global", {"aggregate"}), 1)}
  \cup {Router \o a \o <<Header("af")>> \o b \o <<Header("vrf")>> \o c :
          a \in SeqsUpTo(MemberLines("global", {"redistribute"}), 1),
          b \in SeqsUpTo(MemberLines("af", {"redistribute"}), 2),
          c \in SeqsUpTo(MemberLines("vrf", {"redistribute"}), 1)}
  \cup {Router \o <<Header("af")>> \o a : a \in SeqsOf(MemberLines("af", {"maximum_paths"}), 3)}

\* Nothing, or a session that is down and deactivated, a group and a network.
MCBaselines ==
  {Nothing,
   (<<"global", "neighbor", Peer>> :> On) @@ (<<"global", "remote_as", Peer>> :> One)
     @@ (<<"global", "shutdown", Peer>> :> On) @@ (<<"global", "route_map", Peer>> :> Two)
     @@ (<<"af", "activate", Peer>> :> Off) @@ (<<"global", "group", Group>> :> On)
     @@ (<<"vrf", "neighbor", Peer>> :> On) @@ (<<"vrf", "remote_as", Peer>> :> One)
     @@ (<<"global", "network", Route>> :> One) @@ (<<"af", "network", Route>> :> One)
     @@ (<<"af", "aggregate", Route>> :> One) @@ (<<"af", "maximum_paths", Process>> :> One)
     @@ (<<"global", "default_metric", Process>> :> One) @@ (<<"global", "bestpath", Process>> :> On)
     @@ [s \in {"global", "af", "vrf"} \X {"redistribute"} \X {Route} |-> One]}

Readds == {Router \o a : a \in SeqsOf(SessionLines("global"), 4)}
=============================================================================
