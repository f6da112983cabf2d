---------------------------- MODULE MCSpotDatasets ----------------------------
(***************************************************************************)
(* Two runs over an archive of one frame and one of two, each with a row   *)
(* that is too short, and over one with a price that cannot be read.       *)
(***************************************************************************)
EXTENDS SpotDatasets

CONSTANTS k1, k2, k3, linux, r1, r2

Row(key, price) == [fields |-> 5, readable |-> TRUE, key |-> key, product |-> linux, price |-> price]
Short == [fields |-> 3]
Garbled == [Row(k1, 1) EXCEPT !.readable = FALSE]

MCArchives ==
  {[rows |-> <<Row(k1, 2), Short, Row(k2, 3)>>, frame_ends |-> {3}],
   [rows |-> <<Row(k1, 2), Row(k2, 3), Row(k1, 1)>>, frame_ends |-> {2, 3}],
   [rows |-> <<Row(k1, 2), Garbled, Row(k1, 1)>>, frame_ends |-> {3}]}

SeriesOf(key) == [kind |-> "series", key |-> key]
TopTwo == [kind |-> "top", product |-> linux, min_points |-> 1, top_n |-> 2]

(* No archive has rows of the third key.                                   *)
MCJobs == {r1 :> SeriesOf(k1) @@ r2 :> TopTwo, r1 :> SeriesOf(k3) @@ r2 :> SeriesOf(k1)}

(* The one pass over the rows finds what a look at each series finds, for  *)
(* every archive of up to four rows.                                       *)
RowSets == UNION {[1 .. n -> {Row(k, v) : k \in {k1, k2}, v \in {0, 1, 2, 3}} \cup {Short}] : n \in 0 .. 4}

ScanFindsTheWidest(rows, want) ==
  LET listed == TopSeries(rows, want)
      prices(key) == {row.price : row \in ToSet(Series(rows, key))}
      relative(key) == <<Max(prices(key)) - Min(prices(key)), Min(prices(key))>>
      wider(a, b) == a[1] * b[2] > b[1] * a[2]
      eligible == {key \in {k1, k2} : Len(Series(rows, key)) >= want.min_points
                                      /\ 0 \notin prices(key)}
      found == {listed[i].key : i \in DOMAIN listed}
  IN /\ Len(listed) = Lesser(want.top_n, Cardinality(eligible)) /\ Len(listed) = Cardinality(found)
     /\ \A i \in DOMAIN listed :
          /\ listed[i].sample_count = Len(Series(rows, listed[i].key))
          /\ {listed[i].min_price, listed[i].max_price} \subseteq prices(listed[i].key)
          /\ \A v \in prices(listed[i].key) : listed[i].min_price <= v /\ v <= listed[i].max_price
     /\ \A key \in eligible \ found : \A other \in found : ~wider(relative(key), relative(other))
     /\ found \subseteq eligible

ASSUME ScanAssumption ==
  \A rows \in RowSets : \A m \in {1, 2} : \A n \in {0, 1, 2} :
    ScanFindsTheWidest(rows, [product |-> linux, min_points |-> m, top_n |-> n])
=============================================================================
