------------------------------- MODULE StacDocs -------------------------------
(***************************************************************************)
(* The STAC documents that the catalog keeps (swath-core catalog/stac.rs): *)
(* a dataset written as a Collection, a granule as an Item, and the strict *)
(* way back.  A value of JSON has its kind and its contents; a path is the *)
(* sequence of the keys and names that the error spells with dots.  And    *)
(* the granule that a request registers, by an Item or by fields.          *)
(***************************************************************************)
EXTENDS Integers, Sequences, Functions, SequencesExt, Outcome

CONSTANTS Timestamps, Layers, AssetKinds

Object(fields) == [json |-> "object", of |-> fields]
Array(elements) == [json |-> "array", of |-> elements]
Text(s) == [json |-> "string", of |-> s]
Number(n) == [json |-> "number", of |-> n]
Null == [json |-> "null", of |-> <<>>]

Fault(error, path) == [error |-> error, path |-> path]
MissingField(path) == Fault("MissingField", path)
WrongType(path) == Fault("WrongType", path)
InvalidValue(path) == Fault("InvalidValue", path)

------------------------------------------------------------------------------
(* Writing *)

\* `to_array'.
BboxArray(box) == Array(<<Number(box.west), Number(box.south), Number(box.east), Number(box.north)>>)

InstantOrNull(t) == IF t = None THEN Null ELSE Text(t)

\* `dataset_to_stac_collection'.
CollectionOf(dataset) ==
  Object([ type |-> Text("Collection"), stac_version |-> Text("1.1.0"), id |-> Text(dataset.id),
           title |-> Text(dataset.title), description |-> Text(dataset.description),
           license |-> Text(dataset.license),
           extent |-> Object(
             [ spatial |-> Object([bbox |-> Array(<<BboxArray(dataset.bbox)>>)]),
               temporal |-> Object([interval |->
                 Array(<<Array(<<InstantOrNull(dataset.start), InstantOrNull(dataset.end)>>)>>)]) ]),
           links |-> Array(<<>>),
           bands |-> Array([i \in DOMAIN dataset.bands |-> Text(dataset.bands[i])]),
           layers |-> Array([i \in DOMAIN dataset.layers |-> Text(dataset.layers[i])]) ])

AssetDoc(asset) ==
  Object([key \in {"href"} \cup (IF asset.kind = "raster" THEN {} ELSE {"swath:kind"}) |->
            Text(IF key = "href" THEN asset.href ELSE asset.kind)])

\* The ring of a box, counterclockwise from its south-west corner.
RingOf(box) ==
  LET corner(x, y) == Array(<<Number(x), Number(y)>>)
  IN Array(<<corner(box.west, box.south), corner(box.east, box.south), corner(box.east, box.north),
             corner(box.west, box.north), corner(box.west, box.south)>>)

\* Variant: the instant of ingestion is left to the carried properties.
PropertiesDocStale(granule) ==
  Object([key \in DOMAIN granule.properties \cup {"datetime"} |->
            IF key = "datetime" THEN Text(granule.datetime) ELSE granule.properties[key]])

\* What is projected is written over what is carried.
PropertiesDoc(granule) ==
  LET projected == {"datetime"} \cup (IF granule.ingested_at = None THEN {} ELSE {"swath:ingested_at"})
  IN Object([key \in DOMAIN granule.properties \cup projected |->
               CASE key = "datetime" -> Text(granule.datetime)
                 [] key = "swath:ingested_at" /\ key \in projected -> Text(granule.ingested_at)
                 [] OTHER -> granule.properties[key]])

\* `granule_to_stac_item'.
ItemOf(granule) ==
  Object([ type |-> Text("Feature"), stac_version |-> Text("1.1.0"), id |-> Text(granule.id),
           collection |-> Text(granule.dataset),
           geometry |-> Object([type |-> Text("Polygon"), coordinates |-> Array(<<RingOf(granule.bbox)>>)]),
           bbox |-> BboxArray(granule.bbox), properties |-> PropertiesDoc(granule),
           assets |-> Object([band \in DOMAIN granule.assets |-> AssetDoc(granule.assets[band])]) ])

------------------------------------------------------------------------------
(* Reading: every failure names the path it is about *)

As(kind, read, path) ==
  IF read.error # "none" THEN read
  ELSE IF read.value.json # kind THEN WrongType(path) ELSE Answer(read.value.of)

\* `get_at': a member of an object that has been read.
Member(object, key, path) ==
  IF object.error # "none" THEN object
  ELSE IF key \notin DOMAIN object.value THEN MissingField(path) ELSE Answer(object.value[key])

\* The value at a path, each object on the way read as one.
At(doc, path) ==
  LET at[k \in 0 .. Len(path)] ==
        IF k = 0 THEN Answer(doc)
        ELSE Member(As("object", at[k - 1], SubSeq(path, 1, k - 1)), path[k], SubSeq(path, 1, k))
  IN at[Len(path)]

TextAt(doc, path) == As("string", At(doc, path), path)

\* `expect_const'.
Expected(read, expected, path) ==
  IF read.error # "none" THEN read
  ELSE IF read.value # expected THEN InvalidValue(path) ELSE read

\* `Datetime::new'.
Instant(read, path) ==
  IF read.error # "none" THEN read
  ELSE IF read.value \notin Timestamps THEN InvalidValue(path) ELSE read

\* `first_element'.
First(array, path) ==
  IF array.error # "none" THEN array
  ELSE IF array.value = <<>> THEN InvalidValue(path) ELSE Answer(array.value[1])

Sized(array, n, path) ==
  IF array.error # "none" THEN array
  ELSE IF Len(array.value) # n THEN InvalidValue(path) ELSE array

AllOf(kind, array, path) ==
  IF array.error # "none" THEN array
  ELSE IF \E i \in DOMAIN array.value : array.value[i].json # kind THEN WrongType(path)
  ELSE Answer([i \in DOMAIN array.value |-> array.value[i].of])

\* `bbox_from_value'.
BboxFrom(read, path) == AllOf("number", Sized(As("array", read, path), 4, path), path)

BoundFrom(value, path) ==
  IF value.json = "null" THEN Answer(None) ELSE Instant(As("string", Answer(value), path), path)

\* The values of a sequence of reads, or the first of them that failed.
AllRead(reads) ==
  LET failed == {i \in DOMAIN reads : reads[i].error # "none"}
  IN IF failed # {} THEN reads[CHOOSE i \in failed : \A j \in failed : i <= j]
     ELSE Answer([i \in DOMAIN reads |-> reads[i].value])

\* `time_range_from_value'.
TimeRangeFrom(read, path) ==
  LET array == Sized(As("array", read, path), 2, path)
  IN IF array.error # "none" THEN array
     ELSE AllRead(<<BoundFrom(array.value[1], Append(path, "start")),
                    BoundFrom(array.value[2], Append(path, "end"))>>)

LayersFrom(array, path) ==
  IF array.error # "none" THEN InvalidValue(path)
  ELSE IF \E i \in DOMAIN array.value : array.value[i].json # "string" \/ array.value[i].of \notin Layers
  THEN InvalidValue(path)
  ELSE Answer([i \in DOMAIN array.value |-> array.value[i].of])

BoxAt == <<"extent", "spatial", "bbox">>
IntervalAt == <<"extent", "temporal", "interval">>

\* The reads of a Collection, in their order.
CollectionReads(doc) ==
  << Expected(TextAt(doc, <<"type">>), "Collection", <<"type">>),
     Expected(TextAt(doc, <<"stac_version">>), "1.1.0", <<"stac_version">>),
     BboxFrom(First(As("array", At(doc, BoxAt), BoxAt), BoxAt), BoxAt \o <<"0">>),
     TimeRangeFrom(First(As("array", At(doc, IntervalAt), IntervalAt), IntervalAt), IntervalAt \o <<"0">>),
     AllOf("string", As("array", At(doc, <<"bands">>), <<"bands">>), <<"bands">>),
     LET layers == At(doc, <<"layers">>)
     IN IF layers.error # "none" THEN layers ELSE LayersFrom(As("array", layers, <<"layers">>), <<"layers">>),
     TextAt(doc, <<"id">>), TextAt(doc, <<"title">>), TextAt(doc, <<"description">>), TextAt(doc, <<"license">>) >>

BoxOf(numbers) == [west |-> numbers[1], south |-> numbers[2], east |-> numbers[3], north |-> numbers[4]]

\* `dataset_from_stac_collection'.
DatasetRead(read) ==
  IF read.error # "none" THEN read
  ELSE Answer([ bbox |-> BoxOf(read.value[3]), start |-> read.value[4][1], end |-> read.value[4][2],
                bands |-> read.value[5], layers |-> read.value[6], id |-> read.value[7],
                title |-> read.value[8], description |-> read.value[9], license |-> read.value[10] ])
DatasetFrom(doc) == DatasetRead(AllRead(CollectionReads(doc)))

\* `is_projected_property'.
IsProjected(key) == key \in {"datetime", "swath:ingested_at", "swath:other"}

IngestedAt == <<"properties", "swath:ingested_at">>
IngestedFrom(doc) ==
  LET read == At(doc, IngestedAt)
  IN IF read.error = "MissingField" THEN Answer(None) ELSE Instant(As("string", read, IngestedAt), IngestedAt)

KindFrom(asset, path) ==
  IF "swath:kind" \notin DOMAIN asset.of THEN Answer("raster")
  ELSE IF asset.of["swath:kind"].json # "string" \/ asset.of["swath:kind"].of \notin AssetKinds
  THEN InvalidValue(Append(path, "swath:kind"))
  ELSE Answer(asset.of["swath:kind"].of)

AssetFrom(doc, path) ==
  LET href == TextAt(doc, Append(path, "href"))
      kind == KindFrom(At(doc, path).value, path)
  IN IF href.error # "none" THEN href
     ELSE IF kind.error # "none" THEN kind
     ELSE Answer([href |-> href.value, kind |-> kind.value])

\* The assets by their bands, or the fault of one of them.
AllAssets(reads) ==
  IF \E band \in DOMAIN reads : reads[band].error # "none"
  THEN reads[CHOOSE band \in DOMAIN reads : reads[band].error # "none"]
  ELSE Answer([band \in DOMAIN reads |-> reads[band].value])
AssetsFrom(doc) ==
  LET assets == As("object", At(doc, <<"assets">>), <<"assets">>)
  IN IF assets.error # "none" THEN assets
     ELSE AllAssets([band \in DOMAIN assets.value |-> AssetFrom(doc, <<"assets", band>>)])

\* The reads of an Item, in their order.
ItemReads(doc) ==
  << Expected(TextAt(doc, <<"type">>), "Feature", <<"type">>),
     Expected(TextAt(doc, <<"stac_version">>), "1.1.0", <<"stac_version">>),
     BboxFrom(At(doc, <<"bbox">>), <<"bbox">>),
     Instant(TextAt(doc, <<"properties", "datetime">>), <<"properties", "datetime">>),
     IngestedFrom(doc), AssetsFrom(doc), TextAt(doc, <<"id">>), TextAt(doc, <<"collection">>) >>

\* Everything the item carries but what Swath projects.
CarriedFrom(properties) == [key \in {k \in DOMAIN properties : ~IsProjected(k)} |-> properties[key]]

\* `granule_from_stac_item'.
GranuleRead(doc, read) ==
  IF read.error # "none" THEN read
  ELSE Answer([ bbox |-> BoxOf(read.value[3]), datetime |-> read.value[4], ingested_at |-> read.value[5],
                assets |-> read.value[6], id |-> read.value[7], dataset |-> read.value[8],
                properties |-> CarriedFrom(doc.of.properties.of) ])
GranuleFrom(doc) == GranuleRead(doc, AllRead(ItemReads(doc)))

------------------------------------------------------------------------------
(* Registering a granule (swath-api datasets.rs): by fields, or by an Item *)

RefusedFor(about) == Fault("BadRequest", about)

\* `pixel_to_crs'.
PixelToCrs(t, col, row) ==
  << t.origin_x + (t.pixel_width * col) + (t.row_rotation * row), t.origin_y + (t.col_rotation * col) + (t.pixel_height * row) >>

\* The reprojection to longitude and latitude: here a shift, defined east of a
\* meridian.  None where there is none.
ToWgs84(point, shift) == IF point[1] < shift.west THEN None ELSE <<point[1] + shift.dx, point[2] + shift.dy>>

\* The smallest box around points.
BoxAround(points) ==
  LET xs == {p[1] : p \in points}
      ys == {p[2] : p \in points}
      least(vs) == CHOOSE v \in vs : \A w \in vs : v <= w
      most(vs) == CHOOSE v \in vs : \A w \in vs : w <= v
  IN [west |-> least(xs), south |-> least(ys), east |-> most(xs), north |-> most(ys)]

\* Variant: two opposite corners for all four.
DerivedBoxOfTwo(info, shifts) ==
  IF info = None \/ info.crs \notin DOMAIN shifts THEN RefusedFor(<<"bbox derivation">>)
  ELSE LET corners == {ToWgs84(PixelToCrs(info.transform, k[1], k[2]), shifts[info.crs]) : k \in {<<0, 0>>, <<info.width, info.height>>}}
       IN IF None \in corners THEN RefusedFor(<<"bbox derivation">>) ELSE Answer(BoxAround(corners))

\* `derived_bbox': of the four corners of the raster that a header describes.
DerivedBox(info, shifts) ==
  IF info = None \/ info.crs \notin DOMAIN shifts THEN RefusedFor(<<"bbox derivation">>)
  ELSE LET corners == {ToWgs84(PixelToCrs(info.transform, col, row), shifts[info.crs]) : col \in {0, info.width}, row \in {0, info.height}}
       IN IF None \in corners THEN RefusedFor(<<"bbox derivation">>) ELSE Answer(BoxAround(corners))

\* `into_asset'.
IntoAsset(asset) == [href |-> asset.href, kind |-> IF asset.kind = None THEN "raster" ELSE asset.kind]

\* `direct_granule': the assets in the order of their bands.
DirectGranule(dataset, body, headers, shifts) ==
  LET banded(band) == CHOOSE i \in DOMAIN body.assets : body.assets[i].band = band
      box == IF body.bbox # None THEN Answer(body.bbox) ELSE DerivedBox(headers[body.assets[1].href], shifts)
  IN IF body.id = None THEN RefusedFor(<<"id">>)
     ELSE IF body.datetime \notin Timestamps THEN RefusedFor(<<"datetime">>)
     ELSE IF body.assets = <<>> THEN RefusedFor(<<"assets">>)
     ELSE IF box.error # "none" THEN box
     ELSE Answer([ id |-> body.id, dataset |-> dataset, bbox |-> box.value, datetime |-> body.datetime, ingested_at |-> None,
                   properties |-> [k \in {} |-> 0],
                   assets |-> [band \in {body.assets[i].band : i \in DOMAIN body.assets} |->
                                 IntoAsset(body.assets[banded(band)])] ])

\* One form, exactly: an Item, or the fields.
GranuleOfBody(dataset, body, headers, shifts) ==
  IF body.stac_item # None /\ body.assets = None
  THEN LET read == GranuleFrom(body.stac_item) IN IF read.error # "none" THEN RefusedFor(<<"stac_item">>) ELSE read
  ELSE IF body.stac_item = None /\ body.assets # None THEN DirectGranule(dataset, body, headers, shifts)
  ELSE RefusedFor(<<"stac_item", "assets">>)

\* The granule that `create_granule' registers: of this dataset, in its bands,
\* each asset described first, and not by the way of an event.
Accepted(dataset, granule, headers) ==
  IF granule.dataset # dataset.id THEN RefusedFor(<<"stac_item", "collection">>)
  ELSE IF ~(DOMAIN granule.assets \subseteq ToSet(dataset.bands)) THEN RefusedFor(<<"assets", "band">>)
  ELSE IF \E band \in DOMAIN granule.assets : headers[granule.assets[band].href] = None THEN RefusedFor(<<"assets", "header">>)
  ELSE Answer([granule EXCEPT !.ingested_at = None])
AcceptedRead(dataset, read, headers) ==
  IF read.error # "none" THEN read ELSE Accepted(dataset, read.value, headers)
Registered(dataset, body, headers, shifts) ==
  AcceptedRead(dataset, GranuleOfBody(dataset.id, body, headers, shifts), headers)
===============================================================================
