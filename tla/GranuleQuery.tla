---------------------------- MODULE GranuleQuery -----------------------------
(***************************************************************************)
(* Asking for the granules of a dataset (swath-api granules.rs and         *)
(* temporal.rs over the pgstac adapter): the parameters, the search of the *)
(* catalog page by page, the page of the answer, the counts in buckets of  *)
(* time or cells, and the facets.                                          *)
(*                                                                         *)
(* A granule has an id (a number, in the order of the ids), ticks of       *)
(* acquisition, a bounding box and its properties.  A parameter is the     *)
(* sequence of its parts; Junk is a part that does not parse, DotDot an    *)
(* open bound.                                                             *)
(***************************************************************************)
EXTENDS Exact, Sequences, SequencesExt, FiniteSetsExt

CONSTANTS
  Junk, DotDot, DefaultLimit, MaxLimit, MaxBuckets, MaxFacetValues, PageLimit,
  TicksPerHour  \* ticks stand where the code counts milliseconds

------------------------------------------------------------------------------
(* Instants (swath-core catalog.rs): the civil fields that a timestamp spells *)

Day == 24 * TicksPerHour

\* `days_from_civil': years begin in March, eras are 400 of them.
DaysFromCivil(year, month, day) ==
  LET y == IF month <= 2 THEN year - 1 ELSE year
      yoe == y % 400
      doy == (153 * (IF month > 2 THEN month - 3 ELSE month + 9) + 2) \div 5 + day - 1
  IN (y \div 400) * 146097 + yoe * 365 + yoe \div 4 - yoe \div 100 + doy - 719468

\* The date of a day of a year that began in March.
DateInYear(y, doy) ==
  LET mp == (5 * doy + 2) \div 153
      month == IF mp < 10 THEN mp + 3 ELSE mp - 9
  IN [year |-> IF month <= 2 THEN y + 1 ELSE y, month |-> month,
      day |-> doy - (153 * mp + 2) \div 5 + 1]

DateInEra(era, doe) ==
  LET yoe == (doe - doe \div 1460 + doe \div 36524 - doe \div 146096) \div 365
  IN DateInYear(yoe + era * 400, doe - (365 * yoe + yoe \div 4 - yoe \div 100))

\* `civil_from_days'.
CivilFromDays(days) ==
  DateInEra((days + 719468) \div 146097, (days + 719468) % 146097)

IsLeap(year) == year % 4 = 0 /\ (year % 100 # 0 \/ year % 400 = 0)

DaysInMonth(year, month) ==
  CASE month = 2 -> IF IsLeap(year) THEN 29 ELSE 28
    [] month \in {4, 6, 9, 11} -> 30
    [] OTHER -> 31

\* `is_rfc3339_utc' of well-spelt fields: date and tick are there to be read.
IsInstant(at) ==
  /\ at.month \in 1 .. 12
  /\ at.tick \in 0 .. Day - 1
  /\ at.day \in 1 .. DaysInMonth(at.year, at.month)

\* `to_unix_millis'.
ToTicks(at) == DaysFromCivil(at.year, at.month, at.day) * Day + at.tick

\* `from_unix_millis': four digits spell the years 0 to 9999 only.
FromTicks(t) ==
  LET date == CivilFromDays(t \div Day)
  IN IF date.year \notin 0 .. 9999 THEN Failure("InvalidDatetime")
     ELSE Answer([year |-> date.year, month |-> date.month, day |-> date.day, tick |-> t % Day])

BadRequest(parameter) == Failure(parameter)

------------------------------------------------------------------------------
(* Parameters *)

\* `parse_bbox': west, south, east, north; only the latitudes are ordered.
ParseBbox(parts) ==
  IF Len(parts) # 4 \/ \E i \in DOMAIN parts : parts[i] = Junk THEN BadRequest("bbox")
  ELSE IF parts[2] > parts[4] THEN BadRequest("bbox")
  ELSE Answer([west |-> parts[1], south |-> parts[2], east |-> parts[3], north |-> parts[4]])

\* A bound of the grammar, in ticks; None is open.
BoundOf(part) ==
  IF part = DotDot THEN Answer(None)
  ELSE IF part = Junk THEN BadRequest("datetime")
  ELSE IF ~IsInstant(part) THEN BadRequest("datetime")
  ELSE Answer(ToTicks(part))

ParamOf(form, start, end) ==
  IF start.error # "none" THEN start
  ELSE IF end.error # "none" THEN end
  ELSE IF start.value = None /\ end.value = None THEN BadRequest("datetime")
  ELSE Answer([form |-> form, start |-> start.value, end |-> end.value])

\* `parse_datetime_param': an instant, or an interval open on one side at most.
ParseDatetimeParam(parts) ==
  IF Len(parts) = 1 THEN ParamOf("instant", BoundOf(parts[1]), BoundOf(parts[1]))
  ELSE ParamOf("interval", BoundOf(parts[1]),
               IF Len(parts) = 2 THEN BoundOf(parts[2]) ELSE BadRequest("datetime"))

\* `window': on the tiles route an instant admits whatever was before it.
TileWindow(param) ==
  [start |-> IF param.form = "instant" THEN None ELSE param.start, end |-> param.end]

ParseCount(raw, default, least, most, name) ==
  IF raw = None THEN Answer(default)
  ELSE IF raw = Junk THEN BadRequest(name)
  ELSE IF raw < least \/ (most # None /\ raw > most) THEN BadRequest(name)
  ELSE Answer(raw)

\* The parameters as parsed, or the first of them that is refused.
FirstRefused(bbox, datetime, limit, offset) ==
  LET parsed == <<bbox, datetime, limit, offset>>
      refused == {i \in DOMAIN parsed : parsed[i].error # "none"}
  IN IF refused # {} THEN parsed[Min(refused)]
     ELSE Answer([filter |-> [bbox |-> bbox.value, datetime |-> datetime.value],
                  limit |-> limit.value, offset |-> offset.value])

\* `GranulesParams::parse'.
ParseParams(raw) ==
  FirstRefused(IF raw.bbox = None THEN Answer(None) ELSE ParseBbox(raw.bbox),
               IF raw.datetime = None THEN Answer(None) ELSE ParseDatetimeParam(raw.datetime),
               ParseCount(raw.limit, DefaultLimit, 1, MaxLimit, "limit"),
               ParseCount(raw.offset, 0, 0, None, "offset"))

------------------------------------------------------------------------------
(* The search of the catalog *)

\* Variant: a window of one instant is sent as it is.
FilterTextVerbatim(range) == [start |-> range.start, end |-> range.end]

\* `datetime_filter': the end of a one-instant window is a tick later, as far
\* as there is such a tick.
FilterText(range) ==
  [start |-> range.start,
   end |-> IF range.end = None \/ range.start # range.end \/ FromTicks(range.end + 1).error # "none"
           THEN range.end ELSE range.end + 1]

\* pgstac: an interval without width holds nothing, any other both its ends.
HeldBy(text, time) ==
  /\ text.start = None \/ text.end = None \/ text.start # text.end
  /\ text.start = None \/ text.start <= time
  /\ text.end = None \/ time <= text.end

\* pgstac: the boxes meet, as they are drawn; one that crosses the meridian of
\* 180 degrees is drawn the other way around.
Meets(a, b) ==
  LET drawn(box) == Min({box.west, box.east}) .. Max({box.west, box.east})
  IN drawn(a) \cap drawn(b) # {} /\ a.south <= b.north /\ b.south <= a.north

NewestFirst(g, h) == g.time > h.time \/ (g.time = h.time /\ g.id > h.id)

\* pgstac: what a search selects, the newest first.
Selected(items, filter) ==
  SortSeq(SelectSeq(items, LAMBDA g :
                      /\ filter.bbox = None \/ Meets(g.bbox, filter.bbox)
                      /\ filter.datetime = None \/ HeldBy(FilterText(filter.datetime), g.time)),
          NewestFirst)

\* pgstac: a page of it after a token, and the token of the next one if any.
SearchPage(selected, token) ==
  [features |-> SubSeq(selected, token + 1, Min({token + PageLimit, Len(selected)})),
   next |-> IF token + PageLimit < Len(selected) THEN token + PageLimit ELSE None]

AllPages(selected) ==
  LET from[token \in 0 .. Len(selected)] ==
        LET page == SearchPage(selected, token)
        IN page.features \o (IF page.next = None THEN <<>> ELSE from[page.next])
  IN from[0]

\* `find_granules': all pages of a search, in a catalog nobody changes.
FindGranules(items, filter) == AllPages(Selected(items, filter))

\* The three routes look the dataset up before they ask for its granules.
Found(catalog, params) ==
  IF params.error # "none" THEN params
  ELSE IF ~catalog.known THEN Failure("NotFound")
  ELSE Answer(FindGranules(catalog.items, params.value.filter))

------------------------------------------------------------------------------
(* The page *)

\* `page_url': the request of the page from this offset on, the filter as it
\* was spelt; and `filter_query', the request of the filter alone.
PageUrl(raw, params, offset) ==
  [bbox |-> raw.bbox, datetime |-> raw.datetime, limit |-> params.limit, offset |-> offset]
FilterQuery(raw) == [bbox |-> raw.bbox, datetime |-> raw.datetime, limit |-> None, offset |-> None]

\* A granule as it is listed.
GranuleItem(g) ==
  [id |-> g.id, bbox |-> <<g.bbox.west, g.bbox.south, g.bbox.east, g.bbox.north>>,
   datetime |-> FromTicks(g.time).value, properties |-> g.properties]

\* The page, and the request of itself and of the next one.
PageOf(found, params, raw) ==
  LET returned == SubSeq(found, params.offset + 1, Min({params.offset + params.limit, Len(found)}))
  IN [granules |-> [i \in DOMAIN returned |-> GranuleItem(returned[i])],
      matched |-> Len(found), returned |-> Len(returned), self |-> PageUrl(raw, params, params.offset),
      next |-> IF params.offset + Len(returned) < Len(found)
               THEN PageUrl(raw, params, params.offset + params.limit) ELSE None]

\* `granules': the newest first, whatever order the catalog has them in.
GranulePage(catalog, raw) ==
  LET found == Found(catalog, ParseParams(raw))
  IN IF found.error # "none" THEN found
     ELSE Answer(PageOf(SortSeq(found.value, NewestFirst), ParseParams(raw).value, raw))

------------------------------------------------------------------------------
(* Counts *)

FloorTo(t, size) == (t \div size) * size

\* `calendar_floor': the first instant of the month or of the year.
CalendarFloor(t, step) ==
  LET at == FromTicks(t)
  IN IF at.error # "none" THEN t
     ELSE ToTicks([year |-> at.value.year, month |-> IF step = "year" THEN 1 ELSE at.value.month,
                   day |-> 1, tick |-> 0])

\* The first instant of a month; `or' where four digits cannot spell it.
MonthStart(year, month, or) ==
  IF year > 9999 THEN or ELSE ToTicks([year |-> year, month |-> month, day |-> 1, tick |-> 0])

\* `calendar_next'.
CalendarNext(start, step) ==
  LET at == FromTicks(start)
  IN IF at.error # "none" THEN start
     ELSE IF step = "year" \/ at.value.month = 12 THEN MonthStart(at.value.year + 1, 1, start)
     ELSE MonthStart(at.value.year, at.value.month + 1, start)

\* Variant: a week is not shifted back by all it was shifted forth.
BucketStartUnshifted(t, step) ==
  CASE step = "hour" -> FloorTo(t, TicksPerHour)
    [] step = "day" -> FloorTo(t, Day)
    [] step = "week" -> FloorTo(t + 4 * Day, 7 * Day) - 3 * Day
    [] OTHER -> CalendarFloor(t, step)

\* `bucket_start' and `bucket_end'.
BucketStart(t, step) ==
  CASE step = "hour" -> FloorTo(t, TicksPerHour)
    [] step = "day" -> FloorTo(t, Day)
    [] step = "week" -> FloorTo(t + 4 * Day, 7 * Day) - 4 * Day
    [] OTHER -> CalendarFloor(t, step)

BucketEnd(start, step) ==
  CASE step = "hour" -> start + TicksPerHour
    [] step = "day" -> start + Day
    [] step = "week" -> start + 7 * Day
    [] OTHER -> CalendarNext(start, step)

\* One more in each of the buckets, of which there may be too many.
Bumped(counts, keys) ==
  LET all == DOMAIN counts \cup keys
  IN IF Cardinality(all) > MaxBuckets THEN Failure("TooManyBuckets")
     ELSE Answer([k \in all |-> (IF k \in DOMAIN counts THEN counts[k] ELSE 0)
                                + (IF k \in keys THEN 1 ELSE 0)])

Bump(acc, keys) == IF acc.error # "none" THEN acc ELSE Bumped(acc.value, keys)
NoCounts == Answer([k \in {} |-> 0])

\* `render_instant': the bounds of a bucket must be spelt.
RenderInstants(counts, step) ==
  LET spelt(t) == FromTicks(t).error = "none"
  IN IF \E start \in DOMAIN counts : ~spelt(start) \/ ~spelt(BucketEnd(start, step))
     THEN Failure("Internal")
     ELSE Answer({[start |-> start, end |-> BucketEnd(start, step), count |-> counts[start]] :
                    start \in DOMAIN counts})

\* `time_buckets'.
TimeBuckets(granules, step) ==
  LET counts == FoldLeft(LAMBDA acc, g : Bump(acc, {BucketStart(g.time, step)}), NoCounts, granules)
  IN IF counts.error # "none" THEN counts ELSE RenderInstants(counts.value, step)

LatticeIndex(offset, size) == Floor(Over(Num(offset), size))

\* The cells of a box, by column and row of the lattice at (-180, -90).
CellsOf(west, east, bbox, size) ==
  (LatticeIndex(west + 180, size) .. LatticeIndex(east + 180, size))
    \X (LatticeIndex(bbox.south + 90, size) .. LatticeIndex(bbox.north + 90, size))

\* `cell_buckets': the two halves of a box that crosses the meridian of 180
\* degrees are counted one after the other.
CellBuckets(granules, size) ==
  LET bump(acc, box) ==
        IF box.west > box.east
        THEN Bump(Bump(acc, CellsOf(box.west, 180, box, size)), CellsOf(-180, box.east, box, size))
        ELSE Bump(acc, CellsOf(box.west, box.east, box, size))
  IN FoldLeft(LAMBDA acc, g : bump(acc, g.bbox), NoCounts, granules)

Steps == {"hour", "day", "week", "month", "year"}

Given(raw, key, default) == IF key \in DOMAIN raw THEN raw[key] ELSE default

\* Variant: a step that is not given is that of a month.
ParseBucketingByMonth(raw) ==
  IF DOMAIN raw \cap {"by", "step", "size"} = {} THEN Answer([by |-> "time", step |-> "month"]) ELSE Answer(raw)

\* `parse_bucketing': by days, or by cells of a degree, where nothing else is
\* given.
ParseBucketing(raw) ==
  LET by == Given(raw, "by", "time")
      step == Given(raw, "step", "day")
      size == Given(raw, "size", Num(1))
  IN IF by = "time" THEN IF step \in Steps THEN Answer([by |-> by, step |-> step]) ELSE BadRequest("step")
     ELSE IF by = "cell"
     THEN IF size # Junk /\ Less(Num(0), size) /\ AtMost(size, Num(180))
          THEN Answer([by |-> by, size |-> size]) ELSE BadRequest("size")
     ELSE BadRequest("by")

\* Variant: the self link keeps the scope and forgets the bucketing.
CountsQueryOfScope(raw) == FilterQuery(raw)

\* `counts_query': the scope, and the bucketing as it was spelt.
CountsQuery(raw) == FilterQuery(raw) @@ [key \in DOMAIN raw \cap {"by", "step", "size"} |-> raw[key]]

CountsIn(buckets, found, bucketing, self) ==
  IF buckets.error # "none" THEN buckets
  ELSE Answer([total |-> Len(found), by |-> bucketing.by, overlapping |-> bucketing.by = "cell",
               buckets |-> buckets.value, self |-> self])
CountsOf(found, bucketing, self) ==
  CountsIn(IF bucketing.by = "time" THEN TimeBuckets(found, bucketing.step) ELSE CellBuckets(found, bucketing.size),
           found, bucketing, self)

\* `counts'.
Counts(catalog, raw) ==
  LET params == ParseParams(raw)
      bucketing == ParseBucketing(raw)
      found == Found(catalog, params)
  IN IF params.error # "none" THEN params
     ELSE IF bucketing.error # "none" THEN bucketing
     ELSE IF found.error # "none" THEN found
     ELSE CountsOf(found.value, bucketing.value, CountsQuery(raw))

------------------------------------------------------------------------------
(* Facets *)

\* `facet_kind': what all values of a key are.
FacetKind(values) ==
  IF \A i \in DOMAIN values : values[i].kind = values[1].kind THEN values[1].kind ELSE "other"

\* `tally': the values with their counts, the most frequent first, cut.
Tally(values) ==
  LET count(v) == Cardinality({i \in DOMAIN values : values[i].of = v})
      all == SetToSortSeq({[value |-> v, count |-> count(v)] : v \in {values[i].of : i \in DOMAIN values}},
                          LAMBDA a, b : a.count > b.count \/ (a.count = b.count /\ a.value < b.value))
  IN [list |-> SubSeq(all, 1, Min({MaxFacetValues, Len(all)})), truncated |-> Len(all) > MaxFacetValues]

FacetOf(values, kind) ==
  LET numbers == {values[i].of : i \in DOMAIN values}
      facet(list, truncated, min, max) ==
        [kind |-> kind, coverage |-> Len(values), values |-> list, truncated |-> truncated,
         min |-> min, max |-> max]
  IN CASE kind = "number" -> facet(None, FALSE, Min(numbers), Max(numbers))
       [] kind \in {"string", "boolean"} -> facet(Tally(values).list, Tally(values).truncated, None, None)
       [] OTHER -> facet(None, FALSE, None, None)

\* `discover_facets': every key some granule carries.
DiscoverFacets(granules) ==
  LET keys == UNION {DOMAIN granules[i].properties : i \in DOMAIN granules}
      values(key) == FoldLeft(LAMBDA acc, g : IF key \in DOMAIN g.properties
                                              THEN Append(acc, g.properties[key]) ELSE acc,
                              <<>>, granules)
      facet(vs) == FacetOf(vs, FacetKind(vs))
  IN [key \in keys |-> facet(values(key))]

\* `facets'.
Facets(catalog, raw) ==
  LET found == Found(catalog, ParseParams(raw))
  IN IF found.error # "none" THEN found
     ELSE Answer([total |-> Len(found.value), facets |-> DiscoverFacets(found.value), self |-> FilterQuery(raw)])
==============================================================================
