--------------------------- MODULE MCSeriesWriter ---------------------------
(***************************************************************************)
(* Model checking of SeriesWriter and of TimeIndex, which a behaviour is   *)
(* of being chosen at the start.                                           *)
(*                                                                         *)
(* SeriesWriter has three names of which at most two fit into a manifest,  *)
(* pages of two points, and batches that leave a buffer empty, half full   *)
(* and full, fill one page and several, repeat a timestamp, or are out of  *)
(* order.                                                                  *)
(***************************************************************************)
EXTENDS SeriesWriter, TimeIndex

VARIABLE part

MCNames == {"a", "b", "cc"}
MCNameLength == [name \in MCNames |-> IF name = "cc" THEN 2 ELSE 1]
MCBatches ==
    {<<1>>, <<2, 2>>, <<2, 3>>, <<1, 2, 3, 4, 5>>, <<4>>,
     <<4, 5, 6, 7, 8, 9, 10>>, <<9, 8>>}

MCInit == part \in {"series", "index"} /\ Init /\ IndexInit

MCNext ==
    \/ part = "series" /\ Next /\ UNCHANGED <<part, indexVars>>
    \/ part = "index" /\ IndexNext /\ UNCHANGED <<part, seriesVars>>

MCSpec == MCInit /\ [][MCNext]_<<part, seriesVars, indexVars>>

=============================================================================
