------------------------------- MODULE MCTiles -------------------------------
(***************************************************************************)
(* What a tile is meant to show, without the reads: every band's raster at *)
(* the level the trace names, warped whole; and bounded requests for the   *)
(* tiler and the planner. And buffers good and bad, and tiles through a    *)
(* module of the guest kit.                                                *)
(***************************************************************************)
EXTENDS Tiler, UdfWire, TLC

------------------------------------------------------------------------------
(* What a tile means *)

\* A directory of an object as a buffer of the warp: all of it.
WholeRaster(object, level) ==
  LET info == RasterInfo(object)
      ifd == DirectoryOf(object, level)
  IN [window |-> [col |-> 0, row |-> 0, width |-> ifd.width, height |-> ifd.height],
      grid |-> IF level = None THEN info ELSE GridOf(info, ifd),
      samples |-> [px \in DOMAIN ifd.pixels |-> ifd.pixels[px][1]], nodata |-> info.nodata]

\* The kernel of the warp reaches no further than the margin that is read, as
\* it does for every tile the margin of 4 is chosen for (tiler.rs:288-292).
WithinReach(request, source) ==
  LET extent == SourceExtent(request.grid, source, request.to)
      shape == KernelShape(request.grid, extent, source, 1)
  IN extent = None \/ shape = None \/
     Max({shape.radius_x, shape.radius_y}) <= WindowMargin([kernel |-> "bilinear"])

\* The tile is that of whole rasters: which windows and which blocks of them
\* were read cannot be seen, as long as the kernel stays within the margin.
TileAsFromWhole(request, objects, answer) ==
  LET object(i) == objects[request.bands[request.plan.inputs[i].name]]
      level == answer.value.factor
      whole == [i \in DOMAIN request.plan.inputs |->
                  WarpTo(WholeRaster(object(i), level), request.to, request.grid, request.resampling)]
  IN answer.error = "none" =>
       \/ /\ request.resampling.kernel = "bilinear"
          /\ \E i \in DOMAIN request.plan.inputs : ~WithinReach(request, WholeRaster(object(i), level).grid)
       \/ answer.value.rgba = Evaluated(request.plan, whole, request.grid).value

\* A pixel of the raster contains the center of one of the target, its upper
\* and left edges with it, and has data.
OverData(request, source, center) ==
  LET place == CrsToPixel(source.grid.transform, Transform(request.to, center[1], center[2]))
  IN \E px \in DOMAIN source.samples :
       /\ AtMost(Num(px[1]), place.row) /\ Less(place.row, Num(px[1] + 1))
       /\ AtMost(Num(px[2]), place.col) /\ Less(place.col, Num(px[2] + 1))
       /\ source.samples[px] # source.nodata

\* The values of a warp lie between the samples with data, each over a pixel
\* that has data, and the strict policy only takes pixels away.
BetweenSamples(request, source, lenient, strict, data) ==
  \A px \in DOMAIN lenient :
    /\ lenient[px] # None =>
         /\ AtMost(Num(Min(data)), lenient[px]) /\ AtMost(lenient[px], Num(Max(data)))
         /\ OverData(request, source, PixelCenter(request.grid, px[1], px[2]))
    /\ strict[px] # None => strict[px] = lenient[px]

\* A warp invents nothing, of any band and whatever the policy.
NothingFabricated(request, objects, level) ==
  \A name \in DOMAIN request.bands :
    LET source == WholeRaster(objects[request.bands[name]], level)
        warp(policy) == WarpTo(source, request.to, request.grid, [kernel |-> "bilinear", policy |-> policy])
        data == {source.samples[px] : px \in DOMAIN source.samples} \ {source.nodata}
    IN BetweenSamples(request, source, warp("exclude").pixels, warp("propagate").pixels, data)

------------------------------------------------------------------------------
(* Requests *)

Square(n) == [width |-> n, height |-> n]

\* Pixels told apart by place and by directory, with holes of nodata 0.
Ifd(width, height, reduced, salt) ==
  [width |-> width, height |-> height, reduced |-> reduced, layout |-> "tiled",
   tile_width |-> 4, tile_height |-> 3, padding |-> <<99, 99>>,
   pixels |-> [px \in Pixels(width, height) |-> <<(px[1] * 5 + px[2] * 3 + px[1] * px[2] + salt) % 7, 50>>]]

Object(ifds) ==
  [fault |-> "none", crs |-> "utm", band_count |-> 2, bytes |-> 2, nodata |-> 0, ifds |-> ifds,
   transform |-> [origin_x |-> Num(0), origin_y |-> Num(ifds[1].height), pixel_width |-> Num(1),
                  pixel_height |-> Num(-1), row_rotation |-> Num(0), col_rotation |-> Num(0)]]

Objects ==
  [ plain |-> Object(<<Ifd(11, 9, FALSE, 1)>>),
    pyramid |-> Object(<<Ifd(11, 9, FALSE, 2), Ifd(6, 5, TRUE, 3), Ifd(3, 3, TRUE, 4)>>),
    deep |-> Object(<<Ifd(36, 36, FALSE, 5), Ifd(18, 18, TRUE, 6), Ifd(9, 9, TRUE, 4)>>),
    masked |-> Object(<<Ifd(11, 9, FALSE, 2), Ifd(11, 9, FALSE, 0), Ifd(6, 5, TRUE, 3)>>),
    full |-> [Object(<<Ifd(11, 9, FALSE, 1)>>) EXCEPT !.nodata = None],
    striped |-> Object(<<[Ifd(11, 9, FALSE, 1) EXCEPT !.layout = "striped"]>>),
    gone |-> [Object(<<Ifd(11, 9, FALSE, 1)>>) EXCEPT !.fault = "NotFound"],
    abroad |-> [Object(<<Ifd(11, 9, FALSE, 1)>>) EXCEPT !.crs = "sinu"],
    flat |-> [Object(<<Ifd(11, 9, FALSE, 1)>>) EXCEPT !.transform.pixel_height = Num(0)] ]

Grid(x, y, side, n) ==
  [min_x |-> x, min_y |-> y, max_x |-> x + side, max_y |-> y + side, width |-> n, height |-> n]

Grids == {Grid(x, y, side, 2) : x \in {-3, 0, 2, 7}, y \in {-2, 1, 4}, side \in {1, 3, 6, 9}}
Wide == {Grid(x, y, side, n) : x \in {0, 12, 20}, y \in {9, 12}, side \in {4, 7, 12}, n \in {1, 2}}

Here == [west |-> -100, dx |-> Num(0), dy |-> Num(0)]
There == [west |-> 1, dx |-> <<1, 2>>, dy |-> <<-1, 4>>]

Budget == [cache |-> TRUE, oversample |-> <<6, 5>>, ceiling |-> None]

Red == <<"red">>
Nir == <<"nir">>
Gray1 == PlanFor([shape |-> "math", expr |-> Band(Red), rescale |-> <<Num(0), Num(7)>>, colormap |-> "grayscale"])
Composite == PlanFor([shape |-> "composite", bands |-> <<Nir, Red, Nir>>, rescale |-> <<Num(0), Num(7)>>])
Degenerate == PlanFor([shape |-> "math", expr |-> Band(Red), rescale |-> <<Num(3), Num(3)>>, colormap |-> "magma"])
NoInput == PlanFor([shape |-> "math", expr |-> Const(Num(1)), rescale |-> None, colormap |-> "grayscale"])

Bilinear(policy) == [kernel |-> "bilinear", policy |-> policy]
Samplers == {[kernel |-> "nearest"], Bilinear("exclude"), Bilinear("propagate")}

Request(plan, bands, grid, to, resampling, budget) ==
  [plan |-> plan, bands |-> bands, grid |-> grid, to |-> to, resampling |-> resampling, budget |-> budget]

OneBand ==
  {Request(Gray1, Red :> asset, grid, to, kernel, Budget) :
     asset \in {"plain", "pyramid", "full", "masked"}, grid \in Grids, to \in {Here, There}, kernel \in Samplers}
DeepBand ==
  {Request(Gray1, Red :> "deep", grid, Here, kernel, [Budget EXCEPT !.oversample = o]) :
     grid \in Wide, kernel \in Samplers, o \in {<<6, 5>>, <<1, 10>>}}
TwoBands ==
  {Request(Composite, Red :> a @@ Nir :> b, grid, Here, Bilinear("exclude"), Budget) :
     a \in {"plain", "pyramid"}, b \in {"pyramid", "full"}, grid \in Grids}
Faulty ==
  {Request(plan, bands, Grid(0, 1, 3, 2), to, Bilinear("exclude"), budget) :
     plan \in {Composite, Degenerate, NoInput},
     bands \in {Red :> a @@ Nir :> b : a \in {"plain", "striped", "gone", "abroad", "flat"}, b \in {"pyramid", "abroad", "striped"}}
               \cup {Red :> "plain"},
     to \in {Here, None}, budget \in {Budget, [Budget EXCEPT !.ceiling = 20]}}

Renders == OneBand \cup DeepBand \cup TwoBands \cup Faulty

Probes == {[probe |-> "not_configured"], [probe |-> "miss"], [probe |-> "hit", bytes |-> 40]}
BandWindows ==
  {[cols |-> c, rows |-> r, bytes |-> 2, overviews |-> o] :
     c \in {<<5, 1>>, <<17, 2>>, <<0, 1>>}, r \in {<<5, 1>>, <<10, 1>>}, o \in {<<>>, <<2, 4>>, <<1, 4, 2>>}}
PlanQuestions ==
  {[budget |-> [cache |-> cache, oversample |-> over, ceiling |-> ceiling], probe |-> probe,
    tileSize |-> size, bands |-> bands] :
     cache \in BOOLEAN, over \in {<<6, 5>>, <<1, 1>>}, ceiling \in {None, 50, 80, 100}, probe \in Probes,
     size \in {0, 2, 3}, bands \in {<<>>} \cup {<<b>> : b \in BandWindows} \cup {<<a, b>> : a, b \in BandWindows}}

------------------------------------------------------------------------------
(* What goes to a user module and comes back *)

Plane(values, validity) == [values |-> values, validity |-> validity]
Plane1 == Plane(<<5, 0>>, <<1, 0>>)
Plane2 == Plane(<<7, 8>>, <<1, 1>>)
Short == Plane(<<7>>, <<1, 1>>)

\* Headers of up to four fields, each with payloads about the right length.
Fields ==
  {Field("abi", 1), Field("abi", 2), Field("width", 2), Field("width", None), Field("height", 1),
   Field("planes", 1), Field("planes", 0), Field("tile", 1)}
Headers == UNION {[1..n -> Fields] : n \in 2..4}
Payloads == {SubSeq(EncodePlanes(<<Plane1, Plane2>>), 1, n) : n \in {3, 4, 5}}
Framed == {Frame(h) \o p : h \in Headers, p \in Payloads}

\* A good buffer cut short, or with one atom gone, doubled or another.
GoodBuffer == EncodeRequest(2, 1, <<Plane1, Plane2>>).value
Atoms == {Mark("{"), Mark("}"), Mark(","), Mark("?"), Field("width", 1), Field("height", SideMax + 1), Field("planes", 2)}
Spoilt ==
  {SubSeq(GoodBuffer, 1, n) : n \in 0..Len(GoodBuffer)}
  \cup {RemoveAt(GoodBuffer, i) : i \in 2..Len(GoodBuffer)}
  \cup {InsertAt(GoodBuffer, i, GoodBuffer[i]) : i \in 2..Len(GoodBuffer)}
  \cup {[GoodBuffer EXCEPT ![i] = a] : i \in 2..10, a \in Atoms}
  \cup {[GoodBuffer EXCEPT ![1] = Prefix(n)] : n \in 0..30}

\* A module of the kit answers some planes, or none, or fails.
Answers == {None, <<>>, <<Plane1>>, <<Plane(<<9, 0>>, <<2, 0>>), Plane2>>, <<Plane2, Short>>}
Tiles ==
  [width : {0, 1, 2}, height : {1}, inputs : {<<>>, <<Plane1>>, <<Plane2, Plane1>>, <<Plane1, Short>>},
   planes : Answers, declared : {1, 2}]

Lengths == {-1, 0, 1, 8, 13, 40}
Rows == UNION {[1..n -> Lengths] : n \in 1..4}
Unused == [next |-> 0, pages |-> PagesOf(HeapBase), given |-> 0]

Wires ==
  << [ask : {"buffer"}, of : Framed \cup Spoilt], [ask : {"tile"}, of : Tiles], [ask : {"heap"}, of : Rows] >>

Outputs(t, out) ==
  IF out = None THEN Failure("GuestFailure") ELSE DecodeOutputs(t.width, t.height, t.declared, out)
RunOn(t, request) ==
  IF request.error # "none" THEN request
  ELSE Outputs(t, KitRun(request.value, [inputs \in {t.inputs} |-> t.planes]))
TileOf(t) == RunOn(t, EncodeInputs(t.width, t.height, t.inputs))

HeapsOf(row) == FoldLeft(LAMBDA heaps, len : Append(heaps, Alloc(Last(heaps), len)), <<Unused>>, row)

WireAnswer(q) ==
  CASE q.ask = "buffer" -> DecodeRequest(q.of)
    [] q.ask = "tile" -> TileOf(q.of)
    [] q.ask = "heap" -> HeapsOf(q.of)

------------------------------------------------------------------------------
\* The fields between the marks of a header, however ill it is formed.
FieldsOf(buf) == SelectSeq(buf, LAMBDA atom : atom.t = "field")
KeysOf(buf) == [i \in DOMAIN FieldsOf(buf) |-> FieldsOf(buf)[i].key]
Names == {"abi", "width", "height", "planes"}

\* A buffer whose header states this version and its own payload's size, each
\* field once and nothing else.
WellFormed(buf) ==
  /\ buf # <<>> /\ buf[1].n = 9 /\ Len(buf) >= 10
  /\ LET header == SubSeq(buf, 2, 10)
         fields == FieldsOf(header)
         value == [key \in ToSet(KeysOf(header)) |->
                     (CHOOSE f \in ToSet(fields) : f.key = key).value]
     IN /\ \A i \in 1..9 : header[i] = CASE i = 1 -> Mark("{") [] i = 9 -> Mark("}")
                                         [] (i % 2) = 1 -> Mark(",") [] OTHER -> header[i]
        /\ Len(fields) = 4 /\ ToSet(KeysOf(header)) = Names
        /\ None \notin {fields[i].value : i \in 1..4}
        /\ value["abi"] = 1 /\ 0 \notin {value["width"], value["height"], value["planes"]}
        /\ value["width"] <= SideMax /\ value["height"] <= SideMax
        /\ 2 * value["width"] * value["height"] * value["planes"] = Len(buf) - 10

\* A buffer is read exactly if it is well-formed, into planes that make up
\* its payload again; what it is refused for is true of it.
BufferRead(buf, answer) ==
  LET keys == KeysOf(buf) IN
  CASE answer.error = "none" ->
         WellFormed(buf) /\ EncodePlanes(answer.value.planes) = SubSeq(buf, 11, Len(buf))
    [] answer.error = "UnknownField" -> ~(ToSet(keys) \subseteq Names)
    [] answer.error = "DuplicateField" -> ~IsInjective(keys)
    [] answer.error = "MissingField" -> ~(Names \subseteq ToSet(keys))
    [] OTHER -> ~WellFormed(buf)

Fits(planes, pixels) ==
  \A p \in DOMAIN planes : Len(planes[p].values) = pixels /\ Len(planes[p].validity) = pixels

\* A tile is what its module answers to the planes it was given.
TileAnswered(t, answer) ==
  LET pixels == t.width * t.height IN
  IF pixels = 0 \/ t.inputs = <<>> \/ ~Fits(t.inputs, pixels) THEN answer = Failure("InvalidRequest")
  ELSE IF t.planes \in {None, <<>>} THEN answer = Failure("GuestFailure")
  ELSE IF ~Fits(t.planes, pixels) THEN answer = Failure("GuestFailure")
  ELSE IF Len(t.planes) # t.declared THEN answer = Failure("OutputPlanes")
  ELSE answer = Answer([p \in DOMAIN t.planes |->
         [values |-> t.planes[p].values, valid |-> [i \in 1..pixels |-> t.planes[p].validity[i] # 0]]])

\* What the guest is given lies in its memory, aligned, apart from its data
\* and from all it was given before; it is refused only what cannot fit.
HeapApart(row, heaps) ==
  LET given(i) == heaps[i + 1].given
      region(i) == given(i) .. given(i) + row[i] - 1
  IN \A i \in DOMAIN row :
       IF given(i) # 0
       THEN /\ (given(i) % 8) = 0
            /\ region(i) \subseteq HeapBase .. heaps[i + 1].pages * PageSize - 1
            /\ heaps[i + 1].pages <= PageCap
            /\ \A j \in 1..(i - 1) : given(j) # 0 => region(i) \cap region(j) = {}
       ELSE \/ row[i] <= 0
            \/ Max({heaps[i].next, HeapBase}) + 7 + row[i] > PageCap * PageSize

WireSound(q, answer) ==
  CASE q.ask = "buffer" -> BufferRead(q.of, answer)
    [] q.ask = "tile" -> TileAnswered(q.of, answer)
    [] q.ask = "heap" -> HeapApart(q.of, answer)
===============================================================================
