------------------------ MODULE SurfaceSelectionMC --------------------------
(* Two CI surfaces that retry together and were one in the older contract,   *)
(* and the DNS surface, which no audit dates.                                *)
EXTENDS SurfaceSelection

MCSurface == {"ci_core", "ci_analytics", "dns_health"}
MCHad == <<MCSurface, MCSurface>>
MCSplits ==
    <<[[s \in MCSurface |-> {s}] EXCEPT !["ci_core"] = {"ci_core", "ci_analytics"}]>>

\* A clean site, and one of the older contract with every surface in fallback, the
\* core for a shorter time than the others.
MCBeginning ==
    {[contract |-> 2, degradedSince |-> <<>>, fallback |-> {}],
     [contract |-> 1, fallback |-> MCSurface,
      degradedSince |-> [s \in MCSurface |-> IF s = "ci_core" THEN 1 ELSE 0]]}
=============================================================================
