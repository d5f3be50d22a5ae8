------------------------------ MODULE MCQueries ------------------------------
(***************************************************************************)
(* Model checking of Queries and of ChartEnvelope, which a behaviour is of *)
(* being chosen at the start.                                              *)
(*                                                                         *)
(* Queries has timestamps up to both ends of their domain, with equal      *)
(* values, a least one in the middle and one that is NaN.  ChartEnvelope   *)
(* has every valid request of up to three buckets over these timestamps,   *)
(* on every series of up to three pages of one or two points with two      *)
(* values and NaN.                                                         *)
(***************************************************************************)
EXTENDS Queries

CONSTANTS Requests, Gaps     \* of charts

VARIABLES part, chart_pages, chart_stored

mcVars == <<part, queryVars, chart_pages, chart_stored>>

MCTimestampMin == -1
MCValues ==
    [t \in TimestampDomain |-> CASE t = -1 -> NaN [] t = 0 -> 4 [] t = 1 -> 1
                                 [] t >= 2 -> 7]

Bounds == {b \in [start : TimestampDomain, end : TimestampDomain] : b.start <= b.end}
MCRequests ==
    {bounds \in UNION {[1 .. n -> Bounds] : n \in 1 .. 3} :
        \A i \in 2 .. Len(bounds) : bounds[i - 1].end < bounds[i].start}
MCGaps == {<< >>, <<1>>}

Chart == INSTANCE ChartEnvelope WITH
            pages <- chart_pages, stored <- chart_stored,
            Values <- {0, 1, NaN}, RecordsMax <- 2, MaxPages <- 3

MCInit ==
    /\ part \in {"queries", "chart"}
    /\ Init /\ (part = "chart" => mapped)
    /\ Chart!Init

MCNext ==
    \/ /\ part = "queries"
       /\ Next
       /\ UNCHANGED <<part, chart_pages, chart_stored>>
    \/ /\ part = "chart"
       /\ Chart!Next
       /\ UNCHANGED <<part, queryVars>>

MCSpec == MCInit /\ [][MCNext]_mcVars

(* The chart of every series, as ChartEnvelope states it.                  *)
EnvelopesAreExact == Chart!EnvelopesAreExact

=============================================================================
