--------------------------- MODULE MCBgpSessions ---------------------------
(* Three fabrics.  Parallel: two devices with two addresses each run up to *)
(* four statements.  Star: two devices and a peer outside around a third.  *)
(* Shared: two of three devices have the same address, and the AS tells    *)
(* them apart or does not.                                                 *)
EXTENDS BgpSessions

CONSTANTS ra, rb, rc, a1, a2, b1, b2

(* What device h may say of an address ip of t, or of nobody.              *)
Says(h, ip, targets, sources) ==
    {{}} \union
    {{[host |-> h, peer_ip |-> ip, remote_as |-> as, local_ip |-> local,
       target |-> t, source |-> source]} :
        as \in Asns \union {Unknown}, local \in sources \union {Unknown},
        t \in targets, source \in sources}

Joined(first, second) == {x \union y : x \in first, y \in second}

All(owns, asn, statements) ==
    {e \in {[owns |-> owns, asn |-> asn, statements |-> s] : s \in statements} :
        WellFormed(e)}

OneAs == ra :> 1 @@ rb :> 1 @@ rc :> 1

WithAs(statements) == {s \in statements : \A x \in s : x.remote_as = 1}

Parallel ==
    All(ra :> {a1, a2} @@ rb :> {b1, b2} @@ rc :> {},
        OneAs,
        Joined(Joined(WithAs(Says(ra, b1, {rb}, {a1, a2})),
                      WithAs(Says(ra, b2, {rb}, {a1, a2}))),
               Joined(WithAs(Says(rb, a1, {ra}, {b1, b2})),
                      WithAs(Says(rb, a2, {ra}, {b1, b2})))))

Star ==
    All(ra :> {a1} @@ rb :> {b1} @@ rc :> {a2},
        OneAs,
        Joined(Joined(WithAs(Says(ra, b1, {rb}, {a1})),
                      WithAs(Says(rc, b1, {rb}, {a2}))),
               Joined(Joined(WithAs(Says(rb, a1, {ra}, {b1})),
                             WithAs(Says(rb, a2, {rc}, {b1}))),
                      Says(rb, b2, {Outside}, {b1}))))

Shared ==
    UNION {All(ra :> {a1} @@ rb :> {b1, b2} @@ rc :> {a1}, asn,
               Joined(Joined(Says(ra, b1, {rb}, {a1}),
                             Says(rc, b1, {rb}, {a1})),
                      Says(rb, a1, {ra, rc}, {b1, b2}))) :
           asn \in {OneAs, ra :> 1 @@ rb :> 1 @@ rc :> 2}}

MCEstates == Parallel \union Star \union Shared
=============================================================================
