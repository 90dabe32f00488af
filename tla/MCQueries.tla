------------------------------ MODULE MCQueries ------------------------------
(***************************************************************************)
(* What questions to the catalog mean, by instants and places rather than  *)
(* by searches, buckets and documents.                                     *)
(*                                                                         *)
(* Bounded catalogs and requests for the granule routes, and documents.    *)
(***************************************************************************)
EXTENDS GranuleQuery, StacDocs, TLC

------------------------------------------------------------------------------
(* What a question means *)

InWindow(window, time) ==
  /\ window.start = None \/ window.start <= time
  /\ window.end = None \/ time <= window.end

\* A window of one instant, and a granule that is a tick later: what the
\* catalog finds in it is asked in MCDocuments, and is not what is documented.
Widened(window, items) ==
  window # None /\ window.start = window.end /\ \E i \in DOMAIN items : items[i].time = window.start + 1

\* Some place is in both boxes, neither of which crosses 180 degrees.
Share(a, b) ==
  \E x \in -180 .. 180 : a.west <= x /\ x <= a.east /\ b.west <= x /\ x <= b.east
                         /\ \E y \in -90 .. 90 : a.south <= y /\ y <= a.north /\ b.south <= y /\ y <= b.north

Shows(item, g) ==
  /\ item.id = g.id /\ ToTicks(item.datetime) = g.time /\ item.properties = g.properties
  /\ item.bbox = <<g.bbox.west, g.bbox.south, g.bbox.east, g.bbox.north>>

\* The pages that the next links lead to hold every granule of the filter,
\* once, the newest first, and no other; each says how many there are.
PagesListAll(items, filter, pages) ==
  LET listed == FoldLeft(LAMBDA acc, page : acc \o page.granules, <<>>, pages)
      there == {items[i] : i \in DOMAIN items}
      holds(g) == /\ filter.bbox = None \/ Share(g.bbox, filter.bbox)
                  /\ filter.datetime = None \/ InWindow(filter.datetime, g.time)
  IN /\ \A g \in there : holds(g) => \E i \in DOMAIN listed : Shows(listed[i], g)
     /\ \A i \in DOMAIN listed : \E g \in there : Shows(listed[i], g) /\ holds(g)
     /\ \A i, j \in DOMAIN listed :
          LET at(k) == ToTicks(listed[k].datetime)
          IN i < j => at(i) > at(j) \/ (at(i) = at(j) /\ listed[i].id > listed[j].id)
     /\ \A i \in DOMAIN pages : pages[i].matched = Len(listed) /\ pages[i].returned = Len(pages[i].granules)

------------------------------------------------------------------------------
Count(granules, P(_)) == Len(SelectSeq(granules, P))
TotalOf(numbers) == FoldFunction(LAMBDA a, b : a + b, 0, numbers)

\* Fields of the calendar that do not change within a bucket of this step,
\* and by which its first instant is known.
SameUnit(step, a, b) ==
  /\ step \in {"month", "year"} => a.year = b.year
  /\ step = "month" => a.month = b.month
FirstOf(step, at) ==
  /\ step # "hour" => at.tick = 0
  /\ step = "hour" => at.tick % TicksPerHour = 0
  /\ step \in {"month", "year"} => at.day = 1
  /\ step = "year" => at.month = 1

Whole(step, bucket) ==
  /\ FirstOf(step, FromTicks(bucket.start).value)
  /\ FirstOf(step, FromTicks(bucket.end).value)
  /\ \/ bucket.end = bucket.start + (CASE step = "hour" -> TicksPerHour [] step = "day" -> Day
                                       [] step = "week" -> 7 * Day [] OTHER -> 0)
     \/ /\ step \in {"month", "year"} /\ bucket.start < bucket.end
        /\ SameUnit(step, FromTicks(bucket.start).value, FromTicks(bucket.end - 1).value)

\* Buckets are whole units of the calendar, none of them empty, and part the
\* granules; weeks all start on one day, which is asked in MCDocuments and is
\* not the documented one.  The last month and year that four digits spell
\* have no end.
TimeBucketsPart(found, step, answer) ==
  LET open == {b \in answer.buckets : b.start = b.end}
  IN /\ \A b \in open : step \in {"month", "year"} /\ FromTicks(b.start).value.year = 9999
     /\ \A b \in answer.buckets \ open :
          /\ Whole(step, b) /\ b.count > 0
          /\ b.count = Count(found, LAMBDA g : b.start <= g.time /\ g.time < b.end)
     /\ step = "week" => \A b, c \in answer.buckets : (b.start - c.start) % (7 * Day) = 0
     /\ \A g \in {found[i] : i \in DOMAIN found} :
          Cardinality({b \in answer.buckets : b.start <= g.time /\ (b \in open \/ g.time < b.end)}) = 1
     /\ answer.total = Len(found)
     /\ answer.total = FoldSet(LAMBDA b, sum : b.count + sum, 0, answer.buckets)

\* The cell with this index, and the granules that lie in it: a footprint
\* that crosses 180 degrees lies where either half of it does.
LiesIn(west, east, bbox, size, cell) ==
  LET low(i) == Times(Num(i), size)
      meets(a, b, i) == AtMost(low(i), Num(b)) /\ Less(Num(a), low(i + 1))
  IN meets(west + 180, east + 180, cell[1]) /\ meets(bbox.south + 90, bbox.north + 90, cell[2])
Halves(bbox, size, cell) ==
  IF bbox.west <= bbox.east THEN IF LiesIn(bbox.west, bbox.east, bbox, size, cell) THEN 1 ELSE 0
  ELSE (IF LiesIn(bbox.west, 180, bbox, size, cell) THEN 1 ELSE 0)
       + (IF LiesIn(-180, bbox.east, bbox, size, cell) THEN 1 ELSE 0)

\* Every cell that a footprint meets counts it, and no other; a cell that
\* both halves of a footprint meet may count it twice.
CellBucketsCover(found, size, cells, answer) ==
  /\ answer.total = Len(found)
  /\ DOMAIN answer.buckets \subseteq cells
  /\ \A cell \in cells :
       LET counted == IF cell \in DOMAIN answer.buckets THEN answer.buckets[cell] ELSE 0
           lying == Count(found, LAMBDA g : Halves(g.bbox, size, cell) > 0)
       IN /\ lying <= counted /\ counted <= lying + Count(found, LAMBDA g : Halves(g.bbox, size, cell) = 2)
          /\ cell \in DOMAIN answer.buckets => counted > 0

\* Each key that some granule carries is a facet with the granules that carry
\* it; the values listed account for them, or are their most frequent.
FacetsAccount(found, answer) ==
  LET carriers(key) == SelectSeq(found, LAMBDA g : key \in DOMAIN g.properties)
      with(key, v) == Count(carriers(key), LAMBDA g : g.properties[key].of = v)
      seen(key) == {found[i].properties[key] : i \in {j \in DOMAIN found : key \in DOMAIN found[j].properties}}
      listed(facet) == {facet.values[i].value : i \in DOMAIN facet.values}
  IN /\ answer.total = Len(found)
     /\ DOMAIN answer.facets = UNION {DOMAIN found[i].properties : i \in DOMAIN found}
     /\ \A key \in DOMAIN answer.facets : LET facet == answer.facets[key] IN
          /\ facet.coverage = Len(carriers(key)) /\ facet.coverage > 0
          /\ \/ {facet.kind} = {v.kind : v \in seen(key)}
             \/ (facet.kind = "other" /\ Cardinality({v.kind : v \in seen(key)}) > 1)
          /\ facet.kind = "number" =>
               /\ {facet.min, facet.max} \subseteq {v.of : v \in seen(key)}
               /\ \A v \in seen(key) : facet.min <= v.of /\ v.of <= facet.max
          /\ facet.values # None =>
               /\ Len(facet.values) <= MaxFacetValues
               /\ \A i \in DOMAIN facet.values : facet.values[i].count = with(key, facet.values[i].value)
               /\ \A v \in {s.of : s \in seen(key)} \ listed(facet) :
                    facet.truncated /\ \A i \in DOMAIN facet.values : facet.values[i].count >= with(key, v)
               /\ ~facet.truncated =>
                    facet.coverage = FoldLeft(LAMBDA sum, v : sum + v.count, 0, facet.values)

------------------------------------------------------------------------------
\* A granule comes back as it was written, less what it carried under names
\* that Swath keeps for itself.
ReadsBack(granule, read) ==
  read = Answer([granule EXCEPT !.properties =
                   [key \in {k \in DOMAIN granule.properties :
                               k # "datetime" /\ k \notin {"swath:ingested_at", "swath:other"}} |->
                      granule.properties[key]]])

\* A document spoilt at one path is refused there or above, or is read as
\* the document that was written, as far as that part is not read at all.
RefusedAt(path, written, read) ==
  IF read.error = "none" THEN read = written
  ELSE \E n \in 0 .. Len(path) : read.path = SubSeq(path, 1, n) \/ SubSeq(read.path, 1, n) = path

\* A dataset to register in, the headers behind its assets, and the systems
\* that can be reprojected.
Registrar == [id |-> "hls", bands |-> <<"nir", "red">>]
Header(crs, rotation) ==
  [ crs |-> crs, width |-> 3, height |-> 2,
    transform |-> [origin_x |-> 10, origin_y |-> 20, pixel_width |-> 2, pixel_height |-> -3, row_rotation |-> rotation, col_rotation |-> rotation] ]
Headers ==
  [ href \in {"north.tif", "r.tif", "n.json", "turned.tif", "left.tif", "odd.tif", "gone.tif"} |->
      CASE href \in {"north.tif", "r.tif", "n.json"} -> Header("utm", 0)
        [] href = "turned.tif" -> Header("utm", 4)
        [] href = "left.tif" -> Header("utm", -9)
        [] href = "odd.tif" -> Header("local", 0)
        [] href = "gone.tif" -> None ]
Shifts == "utm" :> [dx |-> 5, dy |-> -7, west |-> 0]

\* A granule that is registered is what the request says, of the dataset and
\* its bands, and its document reads back as it; a footprint that was not
\* given is the least box around all the pixels of its first asset.  Nothing
\* but what is spoilt is refused.
RegistrationHolds(q, read) ==
  /\ q.spoilt = (read.error # "none")
  /\ read.error = "none" =>
       LET granule == read.value
           raster == Headers[granule.assets[q.body.first].href]
           seen == {ToWgs84(PixelToCrs(raster.transform, col, row), Shifts[raster.crs]) : col \in 0 .. raster.width, row \in 0 .. raster.height}
       IN /\ granule.dataset = Registrar.id /\ granule.ingested_at = None
          /\ DOMAIN granule.assets \subseteq ToSet(Registrar.bands)
          /\ ReadsBack(granule, GranuleFrom(ItemOf(granule)))
          /\ q.body.stac_item # None => ReadsBack([granule EXCEPT !.ingested_at = GranuleFrom(q.body.stac_item).value.ingested_at],
                                                  GranuleFrom(q.body.stac_item))
          /\ q.body.stac_item = None /\ q.body.bbox # None => granule.bbox = q.body.bbox
          /\ q.body.stac_item = None /\ q.body.bbox = None =>
               /\ \A p \in seen : /\ granule.bbox.west <= p[1] /\ p[1] <= granule.bbox.east
                                  /\ granule.bbox.south <= p[2] /\ p[2] <= granule.bbox.north
               /\ {granule.bbox.west, granule.bbox.east} \subseteq {p[1] : p \in seen}
               /\ {granule.bbox.south, granule.bbox.north} \subseteq {p[2] : p \in seen}

------------------------------------------------------------------------------
(* Questions *)

BoxFrom(w, s, e, n) == [west |-> w, south |-> s, east |-> e, north |-> n]
West == BoxFrom(-10, 0, -5, 5)
East == BoxFrom(3, -5, 8, 0)
Middle == BoxFrom(-6, -1, 4, 2)
Crossing == BoxFrom(170, 0, -170, 90)
Wide == BoxFrom(100, -90, 90, 0)
Edge == BoxFrom(-180, -90, 180, 90)

Value(kind, of) == [kind |-> kind, of |-> of]
Plain == [k \in {} |-> 0]

Granule(id, time, bbox, properties) == [id |-> id, time |-> time, bbox |-> bbox, properties |-> properties]

Pool == << Granule(1, 0, West, Plain), Granule(2, 1, East, Plain), Granule(3, 1, Middle, Plain),
           Granule(4, 2, West, Plain), Granule(5, 3, East, Plain) >>
Some(chosen) == SelectSeq(Pool, LAMBDA g : g.id \in chosen)

\* The instant of a tick, and parameters spelt with them.
At0(t) == FromTicks(t).value
Windows ==
  {<<At0(t)>> : t \in 0 .. 3} \cup {<<At0(a), At0(b)>> : a \in 0 .. 1, b \in 1 .. 2}
  \cup {<<At0(1), DotDot>>, <<DotDot, At0(1)>>}
WrongWindows ==
  {<<DotDot>>, <<Junk>>, <<DotDot, DotDot>>, <<At0(1), Junk>>, <<Junk, At0(1)>>, <<At0(0), At0(1), At0(2)>>,
   <<[At0(1) EXCEPT !.month = 13]>>, <<[year |-> 2023, month |-> 2, day |-> 29, tick |-> 0]>>}
Boxes == {<<-10, -5, -4, 5>>, <<-5, 0, 3, 0>>}
WrongBoxes == {<<1, 2, 3>>, <<1, 2, 3, 4, 5>>, <<0, 5, 1, -5>>, <<0, Junk, 1, 2>>, <<>>}

Raw(bbox, datetime, limit, offset) == [bbox |-> bbox, datetime |-> datetime, limit |-> limit, offset |-> offset]
All == Raw(None, None, None, None)

Listings ==
  [catalog : {[known |-> TRUE, items |-> Some(c)] : c \in SUBSET (1 .. 5)},
   raw : {Raw(b, w, l, None) : b \in Boxes \cup {None}, w \in Windows \cup {None}, l \in {1, 2, None}}]
WrongListings ==
  [catalog : {[known |-> k, items |-> Some({1, 3})] : k \in BOOLEAN},
   raw : {Raw(b, None, None, None) : b \in WrongBoxes} \cup {Raw(None, w, None, None) : w \in WrongWindows}
         \cup {Raw(None, None, l, None) : l \in {0, Junk, 5}} \cup {Raw(None, None, None, Junk), Raw(None, None, None, -1)}]

\* Ways to ask for buckets, in full, in part or not at all; and wrong ways.
Bucketings ==
  { <<>>, [by |-> "time"], [by |-> "time", step |-> "hour"], [step |-> "week"], [size |-> Junk],
    [by |-> "cell"], [by |-> "cell", size |-> Num(90)], [by |-> "cell", step |-> "fortnight"] }
WrongBucketings ==
  { [by |-> "day"], [step |-> "fortnight"], [by |-> "cell", size |-> Junk], [by |-> "cell", size |-> Num(0)],
    [by |-> "time", step |-> "Day", size |-> Num(1)] }

\* One filter, asked of the three routes.
Scopes ==
  [catalog : {[known |-> k, items |-> Pool] : k \in BOOLEAN},
   raw : {Raw(b, w, l, None) @@ by : b \in Boxes \cup {None}, w \in Windows \cup {<<Junk>>, None}, l \in {1, None},
            by \in Bucketings \cup WrongBucketings}]

\* The routes, and what their self links lead to.
AskedOnce(catalog, raw) ==
  [page |-> GranulePage(catalog, raw), counts |-> Counts(catalog, raw), facets |-> Facets(catalog, raw)]
SelfOf(answer, raw) == IF answer.error = "none" THEN answer.value.self ELSE raw
AskedAgain(catalog, raw, first) ==
  [page |-> GranulePage(catalog, SelfOf(first.page, raw)), counts |-> Counts(catalog, SelfOf(first.counts, raw)),
   facets |-> Facets(catalog, SelfOf(first.facets, raw))]
ScopeAnswer(catalog, raw, first) == [first |-> first, again |-> AskedAgain(catalog, raw, first)]
AskScope(q) == ScopeAnswer(q.catalog, q.raw, AskedOnce(q.catalog, q.raw))

CellsWithin(size) == (0 .. Floor(Over(Num(360), size))) \X (0 .. Floor(Over(Num(180), size)))

\* The buckets are of the step or of the size asked for; days, or cells of a
\* degree, where none is.
CountedAsAsked(raw, counts) ==
  LET step == IF "step" \in DOMAIN raw THEN raw.step ELSE "day"
      size == IF "size" \in DOMAIN raw THEN raw.size ELSE Num(1)
  IN /\ counts.overlapping <=> counts.by = "cell"
     /\ counts.by = (IF "by" \in DOMAIN raw THEN raw.by ELSE "time")
     /\ counts.by = "time" => \A b \in counts.buckets : Whole(step, b)
     /\ counts.by = "cell" => DOMAIN counts.buckets \subseteq CellsWithin(size)

\* The three agree on how many granules a filter has, whatever page is asked
\* for, and on what is wrong with it; each answers its self link as it did
\* the request; and a bucketing is counted by, or refused if it is wrong or
\* more than are answered.
ScopeHolds(raw, answer) ==
  LET first == answer.first
      ok(kind) == first[kind].error = "none"
      bucketing == [key \in DOMAIN raw \cap {"by", "step", "size"} |-> raw[key]]
  IN /\ answer.again = first
     /\ ok("page") <=> ok("facets")
     /\ ~ok("page") => first.facets = first.page
     /\ ok("page") => first.facets.value.total = first.page.value.matched
     /\ first.counts.error \in {"by", "step", "size"} => bucketing \in WrongBucketings
     /\ first.counts.error = "TooManyBuckets" =>
          "by" \in DOMAIN raw /\ raw.by = "cell" /\ "size" \notin DOMAIN raw /\ first.page.value.matched > 0
     /\ ~ok("counts") => first.counts = first.page \/ first.counts.error \in {"by", "step", "size", "TooManyBuckets"}
     /\ ok("counts") => /\ ok("page") /\ first.counts.value.total = first.page.value.matched
                        /\ bucketing \notin WrongBucketings /\ CountedAsAsked(raw, first.counts.value)

\* The pages that the next links lead to, until there is none or a refusal.
RECURSIVE PagesFrom(_, _)
Followed(catalog, page) ==
  IF page.error # "none" THEN <<page>>
  ELSE IF page.value.next = None THEN <<page>>
  ELSE <<page>> \o PagesFrom(catalog, page.value.next)
PagesFrom(catalog, raw) == Followed(catalog, GranulePage(catalog, raw))

------------------------------------------------------------------------------
\* Instants about the ends of months, years, weeks and the calendar.
Midnight(year, month, day) == DaysFromCivil(year, month, day) * Day
Moments ==
  UNION {{Midnight(d[1], d[2], d[3]) + k : k \in {-1, 0, 1}} :
           d \in {<<2024, 2, 29>>, <<2024, 3, 1>>, <<2025, 1, 1>>, <<1970, 1, 1>>, <<1900, 3, 1>>, <<2024, 6, 3>>}}
  \cup {Midnight(9999, 11, 30) + 3, Midnight(9999, 12, 1), Midnight(9999, 12, 31) + 3}
At1(times) == [i \in DOMAIN times |-> Granule(i, times[i], West, Plain)]
TimeCountings ==
  {[granules |-> At1(<<a, b, a + 1>>), bucketing |-> [by |-> "time", step |-> step]] :
     a, b \in Moments, step \in Steps}

CellSizes == {Num(90), Num(180), <<45, 1>>, <<125, 2>>}
Footprints == {West, Middle, Crossing, Wide, Edge, BoxFrom(0, 0, 0, 0), BoxFrom(170, 80, 180, 90)}
CellCountings ==
  {[granules |-> <<Granule(1, 0, a, Plain), Granule(2, 0, b, Plain)>>,
    bucketing |-> [by |-> "cell", size |-> size]] : a, b \in Footprints, size \in CellSizes}

Carried ==
  { Plain, "a" :> Value("number", 1), "a" :> Value("number", 0), "a" :> Value("string", 3),
    "b" :> Value("string", 1), "b" :> Value("string", 2), "b" :> Value("string", 3),
    "a" :> Value("other", 0) @@ "b" :> Value("string", 2), "a" :> Value("boolean", 1) }
Browsings == {<<Granule(1, 0, West, p), Granule(2, 1, West, q), Granule(3, 2, West, r), Granule(4, 3, West, s)>> :
                p, q, r, s \in Carried}

CatalogOf(granules) == [known |-> TRUE, items |-> granules]

------------------------------------------------------------------------------
Dataset0 ==
  [ id |-> "hls", title |-> "HLS", description |-> "", license |-> "free", bbox |-> West,
    start |-> "t1", end |-> "t2", bands |-> <<"red", "nir">>, layers |-> <<"ndvi">> ]
Datasets == {[Dataset0 EXCEPT !.start = s, !.end = e, !.layers = l, !.bands = b] :
               s, e \in {"t1", None}, l \in {<<>>, <<"ndvi", "true">>}, b \in {<<>>, <<"red">>}}
Granule0 ==
  [ id |-> "g1", dataset |-> "hls", bbox |-> Crossing, datetime |-> "t1", ingested_at |-> "t2",
    assets |-> "red" :> [href |-> "r.tif", kind |-> "raster"] @@ "nir" :> [href |-> "n.json", kind |-> "virtual_cube"],
    properties |-> "cloud" :> Number(3) ]
Acquired ==
  {[Granule0 EXCEPT !.ingested_at = i, !.assets = a, !.properties = p] :
     i \in {"t2", None}, a \in {Granule0.assets, [k \in {} |-> 0]},
     p \in {Plain, "cloud" :> Number(3), "datetime" :> Text("t0"), "swath:other" :> Text("x") @@ "cloud" :> Null}}

Gone == [json |-> "gone", of |-> None]
Odd == [json |-> "odd", of |-> None]
RECURSIVE Put(_, _, _)
Put(doc, path, value) ==
  IF path = <<>> THEN value
  ELSE IF Len(path) = 1 /\ value.json = "gone"
  THEN Object([k \in DOMAIN doc.of \ {path[1]} |-> doc.of[k]])
  ELSE Object([k \in DOMAIN doc.of |-> IF k = path[1] THEN Put(doc.of[k], Tail(path), value) ELSE doc.of[k]])

Spoil(path, value) == [path |-> path, value |-> value]
\* At each of these paths the value is missing, or of no kind expected.
Either(paths) ==
  [i \in 1 .. 2 * Len(paths) |-> Spoil(paths[(i + 1) \div 2], IF i % 2 = 0 THEN Gone ELSE Odd)]
CollectionSpoils ==
  Either(<< <<"type">>, <<"stac_version">>, <<"id">>, <<"title">>, <<"description">>, <<"license">>, <<"extent">>,
            <<"extent", "spatial">>, BoxAt, <<"extent", "temporal">>, IntervalAt, <<"bands">>, <<"layers">>, <<"links">> >>)
  \o << Spoil(<<>>, Odd), Spoil(<<"type">>, Text("Feature")), Spoil(<<"stac_version">>, Text("1.0.0")),
        Spoil(BoxAt, Array(<<>>)), Spoil(BoxAt, Array(<<Odd>>)), Spoil(BoxAt, Array(<<Array(<<Number(1)>>)>>)),
        Spoil(BoxAt, Array(<<Array(<<Number(1), Number(2), Odd, Number(3)>>)>>)),
        Spoil(IntervalAt, Array(<<>>)), Spoil(IntervalAt, Array(<<Array(<<Null>>)>>)),
        Spoil(IntervalAt, Array(<<Array(<<Text("t1"), Odd>>)>>)),
        Spoil(IntervalAt, Array(<<Array(<<Text("yesterday"), Null>>)>>)),
        Spoil(<<"bands">>, Array(<<Odd>>)), Spoil(<<"layers">>, Array(<<Text("unknown")>>)) >>
ItemSpoils ==
  Either(<< <<"type">>, <<"stac_version">>, <<"id">>, <<"collection">>, <<"bbox">>, <<"properties">>,
            <<"properties", "datetime">>, <<"assets">>, <<"assets", "red", "href">>, <<"geometry">> >>)
  \o << Spoil(<<>>, Odd), Spoil(<<"type">>, Text("Collection")), Spoil(<<"properties", "datetime">>, Text("yesterday")),
        Spoil(<<"properties", "swath:ingested_at">>, Odd), Spoil(<<"properties", "swath:ingested_at">>, Text("yesterday")),
        Spoil(<<"assets", "nir">>, Odd), Spoil(<<"assets", "nir", "swath:kind">>, Text("unknown")),
        Spoil(<<"assets", "nir", "swath:kind">>, Odd), Spoil(<<"bbox">>, Array(<<Number(1)>>)) >>

\* A spoil is asked for by its number; 0 is none.
Document(of, written, spoil) == [of |-> of, written |-> written, spoil |-> spoil]
Documents ==
  {Document("dataset", d, 0) : d \in Datasets} \cup {Document("granule", g, 0) : g \in Acquired}
  \cup {Document("dataset", Dataset0, n) : n \in DOMAIN CollectionSpoils}
  \cup {Document("granule", Granule0, n) : n \in DOMAIN ItemSpoils}
SpoilOf(q) == IF q.of = "dataset" THEN CollectionSpoils[q.spoil] ELSE ItemSpoils[q.spoil]

Stored(q) == IF q.of = "dataset" THEN CollectionOf(q.written) ELSE ItemOf(q.written)
ReadDocument(q) ==
  LET doc == IF q.spoil = 0 THEN Stored(q) ELSE Put(Stored(q), SpoilOf(q).path, SpoilOf(q).value)
  IN IF q.of = "dataset" THEN DatasetFrom(doc) ELSE GranuleFrom(doc)

\* Bodies, each right or spoilt in a way; with the first band of their assets.
Upload(band, href, kind) == [band |-> band, href |-> href, kind |-> kind]
ByFields == [stac_item |-> None, id |-> "g1", datetime |-> "t1", bbox |-> None, first |-> "nir",
          assets |-> <<Upload("nir", "turned.tif", None), Upload("red", "north.tif", "virtual_cube")>>]
Inline(granule) == [ByFields EXCEPT !.stac_item = ItemOf(granule), !.assets = None, !.first = "red"]
Right == {ByFields, [ByFields EXCEPT !.bbox = Crossing], [ByFields EXCEPT !.assets = <<Upload("nir", "north.tif", "raster")>>],
          [ByFields EXCEPT !.assets = <<Upload("nir", "odd.tif", None)>>, !.bbox = West]}
         \cup {Inline(g) : g \in {a \in Acquired : DOMAIN a.assets # {}}}
Wrong == {[ByFields EXCEPT !.id = None], [ByFields EXCEPT !.datetime = "yesterday"], [ByFields EXCEPT !.datetime = None], [ByFields EXCEPT !.assets = <<>>],
          [ByFields EXCEPT !.assets = None], [ByFields EXCEPT !.stac_item = ItemOf(Granule0)],
          [ByFields EXCEPT !.assets = <<Upload("nir", "odd.tif", None)>>], [ByFields EXCEPT !.assets = <<Upload("nir", "left.tif", None)>>],
          [ByFields EXCEPT !.assets = <<Upload("nir", "north.tif", None), Upload("red", "gone.tif", None)>>],
          [ByFields EXCEPT !.assets = <<Upload("blue", "north.tif", None)>>],
          Inline([Granule0 EXCEPT !.dataset = "other"]), Inline([Granule0 EXCEPT !.datetime = "yesterday"])}
Registrations == [body : Right, spoilt : {FALSE}] \cup [body : Wrong, spoilt : {TRUE}]
Register(q) == Registered(Registrar, q.body, Headers, Shifts)
==============================================================================
