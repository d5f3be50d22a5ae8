----------------------------- MODULE MCPageCodec -----------------------------
(***************************************************************************)
(* Model checking of PageCodec.  Timestamps and values are encoded apart,  *)
(* so pages with any timestamps and equal values, and pages with any       *)
(* values at regular times, are all there is to check.                     *)
(***************************************************************************)
EXTENDS PageCodec

EdgeTimestamps == {-16, -15, -13, -2, -1, 0, 1, 2, 12, 14, 15}

AnyTimestamp == \E t \in Timestamps : ToSet(values) \subseteq {0} /\ AddPoint(t, 0)
AnyValue ==
    \E v \in Values :
        /\ \A i \in DOMAIN timestamps : timestamps[i] = i
        /\ AddPoint(Len(timestamps) + 1, v)

PagesSpec == Init /\ [][AnyTimestamp \/ AnyValue]_pageVars

=============================================================================
