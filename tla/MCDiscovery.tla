---------------------------- MODULE MCDiscovery -----------------------------
(* An instance of Discovery for TLC. *)
EXTENDS Discovery, TLC

CONSTANTS a1, a2, r1, r2

\* Each registrar has an address of its own, or one registrar has them all.
OneOwnerEach ==
    {(r1 :> {a1}) @@ (r2 :> {a2}), (r1 :> Addrs) @@ (r2 :> {})}
=============================================================================
