----------------------------- MODULE PyramidLevels -----------------------------
(***************************************************************************)
(* The pixels of an overview pyramid: how a level is aggregated from a     *)
(* finer grid, cut into chunks and recorded, and how a window of it is     *)
(* read back (swath-pyramid-objectstore).                                  *)
(*                                                                         *)
(* Pyramid models who writes and reads when; here a run has the store to   *)
(* itself.  A raster is [info, full, embedded]: what describes it, and its *)
(* samples by <<column, row>>, at full resolution and for each factor it   *)
(* embeds.  A store is [doc, arrays, chunks, fault]: the group's document  *)
(* or None, the document of each level, samples by <<factor, row, column>> *)
(* of the chunk, and whether calls go through ("none", "readonly", "down").*)
(***************************************************************************)
EXTENDS Exact, Sequences, SequencesExt, FiniteSetsExt

CONSTANTS
  NaN,            \* the float that is no number
  LayoutVersion,  \* LAYOUT_VERSION
  Chunk,          \* CHUNK: the side of a chunk
  MinDim          \* MIN_DIM

CeilDiv(a, b) == (a + b - 1) \div b

------------------------------------------------------------------------------
(* Grids and windows *)

LevelDims(info, f) == <<CeilDiv(info.width, f), CeilDiv(info.height, f)>>

\* The grid of a level: the whole extent in fewer and larger pixels.
LevelInfo(full, f) ==
  LET dims == LevelDims(full, f)
  IN [full EXCEPT !.width = dims[1], !.height = dims[2], !.overviews = {},
        !.pixel = <<Times(@[1], <<full.width, dims[1]>>), Times(@[2], <<full.height, dims[2]>>)>>]

WindowRequest(col, row, width, height) == [col |-> col, row |-> row, width |-> width, height |-> height]

\* A window of the full grid on another, covering it.
ToGrid(w, full, grid) ==
  LET start(v, n, of) == Floor(<<v * n, of>>)
      end(v, n, of) == Ceil(<<v * n, of>>)
      col == start(w.col, grid.width, full.width)
      row == start(w.row, grid.height, full.height)
  IN WindowRequest(col, row, end(w.col + w.width, grid.width, full.width) - col,
            end(w.row + w.height, grid.height, full.height) - row)

Intersection(a, b) ==
  LET col == Max({a.col, b.col})
      row == Max({a.row, b.row})
      endCol == Min({a.col + a.width, b.col + b.width})
      endRow == Min({a.row + a.height, b.row + b.height})
  IN IF col < endCol /\ row < endRow THEN WindowRequest(col, row, endCol - col, endRow - row) ELSE None

Cells(w) == (w.col .. (w.col + w.width - 1)) \X (w.row .. (w.row + w.height - 1))

\* A window on a grid, cut to it; one beyond the grid is empty.
Clip(w, full, grid) ==
  LET request == ToGrid(w, full, grid)
      inside == Intersection(request, WindowRequest(0, 0, grid.width, grid.height))
  IN IF inside # None THEN inside
     ELSE WindowRequest(Min({request.col, grid.width}), Min({request.row, grid.height}), 0, 0)

------------------------------------------------------------------------------
(* Documents *)

ZarrTypes ==
  [uint8 |-> "|u1", int16 |-> "<i2", uint16 |-> "<u2", int32 |-> "<i4", float32 |-> "<f4", float64 |-> "<f8"]
TypeFromZarr(name) ==
  IF name \in Range(ZarrTypes) THEN CHOOSE t \in DOMAIN ZarrTypes : ZarrTypes[t] = name ELSE None

\* What some other program left under the path of the document.
Foreign == [foreign |-> TRUE]

NewMeta(info, source, spec) ==
  [layout_version |-> LayoutVersion, source |-> source, width |-> info.width, height |-> info.height,
   dtype |-> ZarrTypes[info.dtype], nodata |-> info.nodata, pixel |-> info.pixel, chunk |-> spec.chunk,
   resampling |-> spec.resampling, completed |-> {}]

\* The documents of a group as they are written: the levels for a reader of
\* Zarr, and the pyramid.  JSON has no NaN, and the null in its place is read
\* as no nodata.
GroupDocs(meta) ==
  [multiscales |-> [name |-> meta.source, resampling |-> meta.resampling, datasets |-> meta.completed],
   pyramid |-> [meta EXCEPT !.nodata = IF @ = NaN THEN None ELSE @]]

Truncated(v) == IF v[1] < 0 THEN Num(-Floor(<<-v[1], v[2]>>)) ELSE Num(Floor(v))

\* What stands for a chunk that is not there.
FillValue(dtype, nodata) ==
  LET value == IF nodata = None THEN Num(0) ELSE nodata
  IN IF value = NaN THEN None ELSE IF dtype \in {"float32", "float64"} THEN value ELSE Truncated(value)

\* The document of a level; its chunks are of the built-in size.
Zarray(info, f) ==
  LET dims == LevelDims(info, f)
  IN [shape |-> <<dims[2], dims[1]>>, chunks |-> <<Chunk, Chunk>>, dtype |-> ZarrTypes[info.dtype],
      fill_value |-> FillValue(info.dtype, info.nodata)]

\* The pyramid that a server takes to be there: none in what it cannot read.
LoadAttrs(store) ==
  IF store.fault = "down" THEN Failure("Io")
  ELSE Answer(IF store.doc \in {None, Foreign} THEN None ELSE store.doc.pyramid)

\* One that a run takes up: it writes over nothing that it cannot read.
LoadAttrsStrict(store) ==
  IF store.fault = "down" THEN Failure("Store")
  ELSE IF store.doc = Foreign THEN Failure("Conflict")
  ELSE Answer(IF store.doc = None THEN None ELSE store.doc.pyramid)

Matches(meta, source, info) ==
  /\ meta.layout_version = LayoutVersion /\ meta.source = source
  /\ meta.width = info.width /\ meta.height = info.height /\ meta.dtype = ZarrTypes[info.dtype]

\* The full grid, out of the document.
FullInfo(meta) ==
  [width |-> meta.width, height |-> meta.height, dtype |-> TypeFromZarr(meta.dtype), nodata |-> meta.nodata,
   pixel |-> meta.pixel, overviews |-> {}, bands |-> 1]

------------------------------------------------------------------------------
(* Reading *)

\* Samples in a window of a grid.
WindowData(w, grid, pixels, nodata) ==
  [window |-> w, width |-> grid.width, height |-> grid.height, pixels |-> pixels, nodata |-> nodata]

\* A raster of its own: its full grid, or a level that it embeds.
InnerRead(raster, w, factor) ==
  LET grid == IF factor = 1 THEN raster.info ELSE LevelInfo(raster.info, factor)
      samples == IF factor = 1 THEN raster.full ELSE raster.embedded[factor]
      clip == Clip(w, raster.info, grid)
  IN IF factor # 1 /\ factor \notin raster.info.overviews THEN Failure("OverviewNotFound")
     ELSE Answer(WindowData(clip, grid, [at \in Cells(clip) |-> samples[at]], raster.info.nodata))

ChunkRect(meta, k) == WindowRequest(k[3] * meta.chunk, k[2] * meta.chunk, meta.chunk, meta.chunk)

\* Variant: a chunk is taken to begin where the window does.
BlitFromCorner(chunk, rect, clip) ==
  [at \in Cells(Intersection(clip, rect)) |-> chunk[<<(at[1] - clip.col) % rect.width, (at[2] - clip.row) % rect.height>>]]

\* What a chunk gives of a window.
Blit(chunk, rect, clip) ==
  [at \in Cells(Intersection(clip, rect)) |-> chunk[<<at[1] - rect.col, at[2] - rect.row>>]]

\* A level that is recorded, out of its chunks, each of which must be there
\* and whole.
ReadLevel(store, meta, factor, w) ==
  LET full == FullInfo(meta)
      grid == LevelInfo(full, factor)
      clip == Clip(w, full, grid)
      chunkOf(at) == <<factor, at[2] \div meta.chunk, at[1] \div meta.chunk>>
      whole(k) == k \in DOMAIN store.chunks /\ Cardinality(DOMAIN store.chunks[k]) = meta.chunk * meta.chunk
      sample(k, at) == Blit(store.chunks[k], ChunkRect(meta, k), clip)[at]
  IN IF full.dtype = None \/ \E at \in Cells(clip) : ~whole(chunkOf(at)) THEN Failure("Format")
     ELSE Answer(WindowData(clip, grid, [at \in Cells(clip) |-> sample(chunkOf(at), at)], meta.nodata))

\* `describe': the levels the raster embeds, and those recorded of it.
Describe(raster, store) ==
  LET attrs == LoadAttrs(store)
  IN IF raster.info = None THEN Failure("NotFound")
     ELSE IF attrs.error # "none" THEN attrs
     ELSE IF attrs.value # None /\ Matches(attrs.value, raster.source, raster.info)
     THEN Answer([raster.info EXCEPT !.overviews = @ \cup {f \in attrs.value.completed : f > 1}])
     ELSE Answer(raster.info)

\* `read_window' of the first band, through the overlay.
ReadWindow(raster, store, w, factor) ==
  LET attrs == LoadAttrs(store)
  IN IF factor = 1 THEN InnerRead(raster, w, factor)
     ELSE IF attrs.error # "none" THEN attrs
     ELSE IF attrs.value # None /\ factor \in attrs.value.completed THEN ReadLevel(store, attrs.value, factor, w)
     ELSE InnerRead(raster, w, factor)

------------------------------------------------------------------------------
(* Building *)

\* Powers of two up to the first level that fits, without the embedded ones.
Ladder(info, minDim) ==
  LET side(f) == Max({LevelDims(info, f)[1], LevelDims(info, f)[2]})
  IN {f \in {2, 4, 8, 16} \ info.overviews : side(f \div 2) > minDim}

IsValid(v, nodata) == IF nodata = NaN THEN v # NaN ELSE v # nodata

Sum(values) == FoldLeft(LAMBDA total, v : IF NaN \in {total, v} THEN NaN ELSE Plus(total, v), Num(0), values)

\* The mean of what is valid in a block.
Average(block, samples, nodata, fill) ==
  LET valid == SelectSeq(SetToSeq(block), LAMBDA at : at \in DOMAIN samples /\ IsValid(samples[at], nodata))
      total == Sum([i \in DOMAIN valid |-> samples[valid[i]]])
  IN IF valid = <<>> THEN fill ELSE IF total = NaN THEN NaN ELSE Lowest(Over(total, Num(Len(valid))))

\* One pixel of a level, from the block under it; or the block's first sample.
Aggregate(data, at, q, fill, resampling) ==
  LET across == (at[1] * q) .. (Min({(at[1] + 1) * q, data.width}) - 1)
      down == (at[2] * q) .. (Min({(at[2] + 1) * q, data.height}) - 1)
      first == <<at[1] * q, at[2] * q>>
  IN IF resampling = "average" THEN Average(across \X down, data.pixels, data.nodata, fill)
     ELSE IF first \in DOMAIN data.pixels THEN data.pixels[first] ELSE fill

Bounds == [uint8 |-> <<0, 255>>, int16 |-> <<-32768, 32767>>, uint16 |-> <<0, 65535>>]

\* A sample as it is stored: whole numbers rounded, halves away from zero,
\* and held to the type.
Encode(v, dtype) ==
  LET rounded == IF v[1] < 0 THEN -Nearest(<<-v[1], v[2]>>) ELSE Nearest(v)
  IN IF dtype \notin DOMAIN Bounds THEN v
     ELSE IF v = NaN THEN Num(0)
     ELSE Clamp(Num(rounded), Num(Bounds[dtype][1]), Num(Bounds[dtype][2]))

\* The grid a level is made from: the coarsest at hand that divides it.
Base(info, meta, factor) ==
  Max({s \in {1} \cup info.overviews \cup meta.completed : s < factor /\ factor % s = 0})

\* The full-resolution rows that the rows `from' to `to' of a base grid cover.
StripWindow(info, grid, from, to) ==
  LET first == Floor(<<from * info.height, grid.height>>)
  IN WindowRequest(0, first, info.width, Min({Ceil(<<to * info.height, grid.height>>), info.height}) - first)

\* What can become of a run, and how one begins: it counts the chunks that it
\* writes and those it finds.
MaterializeErrors == {"Source", "Store", "Conflict", "Unsupported"}
NewReport(store, meta) ==
  [error |-> "none", store |-> store, meta |-> meta, already |-> <<>>, made |-> <<>>, written |-> 0, skipped |-> 0]
Refused(store, error) == [NewReport(store, None) EXCEPT !.error = error]

\* The chunks of one row: those missing are aggregated from what the overlay
\* reads of the base, and padded with the fill.
ChunkRow(raster, spec, factor, run, row) ==
  LET base == Base(raster.info, run.meta, factor)
      q == factor \div base
      dims == LevelDims(raster.info, factor)
      grid == IF base = 1 THEN raster.info ELSE LevelInfo(raster.info, base)
      to == Min({(row + 1) * spec.chunk, dims[2]})
      read == ReadWindow(raster, run.store,
                StripWindow(raster.info, grid, row * spec.chunk * q, Min({to * q, grid.height})), base)
      fill == IF raster.info.nodata = None THEN Num(0) ELSE raster.info.nodata
      all == {<<factor, row, x>> : x \in 0..(CeilDiv(dims[1], spec.chunk) - 1)}
      missing == all \ DOMAIN run.store.chunks
      found == run.skipped + Cardinality(all) - Cardinality(missing)
      pixel(data, at) == Encode(IF at[1] < dims[1] /\ at[2] < dims[2]
                                THEN Aggregate(data, at, q, fill, spec.resampling) ELSE fill, raster.info.dtype)
      side == 0..(spec.chunk - 1)
      made(data) == [k \in missing |->
                       [at \in side \X side |-> pixel(data, <<k[3] * spec.chunk + at[1], row * spec.chunk + at[2]>>)]]
  IN IF run.error # "none" THEN run
     ELSE IF missing = {} THEN [run EXCEPT !.skipped = found]
     ELSE IF read.error # "none" THEN [run EXCEPT !.skipped = found, !.error = "Source"]
     ELSE [run EXCEPT !.skipped = found, !.written = @ + Cardinality(missing), !.store.chunks = made(read.value) @@ @]

\* A level of which every chunk is there is recorded in the document the run
\* holds.
Recorded(run, factor) ==
  LET meta == [run.meta EXCEPT !.completed = @ \cup {factor}]
  IN IF run.error # "none" THEN run
     ELSE [run EXCEPT !.meta = meta, !.store.doc = GroupDocs(meta), !.made = Append(@, factor)]

\* One level: its document, its rows of chunks, then the record of it.
BuildLevel(raster, spec, run, factor) ==
  LET rows == CeilDiv(LevelDims(raster.info, factor)[2], spec.chunk)
      opened == [run EXCEPT !.store.arrays = (factor :> Zarray(raster.info, factor)) @@ @]
  IN IF run.error # "none" THEN run
     ELSE IF factor \in run.meta.completed THEN [run EXCEPT !.already = Append(@, factor)]
     ELSE IF run.store.fault # "none" THEN [run EXCEPT !.error = "Store"]
     ELSE Recorded(FoldLeft(LAMBDA r, n : ChunkRow(raster, spec, factor, r, n - 1), opened, [n \in 1..rows |-> n]), factor)

\* A run over a store: it resumes what matches, and refuses what does not.
Materialize(raster, store, spec) ==
  LET attrs == LoadAttrsStrict(store)
      stored == IF attrs.value = None THEN NewMeta(raster.info, raster.source, spec) ELSE attrs.value
      levels == SetToSortSeq(Ladder(raster.info, spec.min_dim), <)
  IN IF raster.info = None THEN Refused(store, "Source")
     ELSE IF raster.info.bands # 1 THEN Refused(store, "Unsupported")
     ELSE IF attrs.error # "none" THEN Refused(store, attrs.error)
     ELSE IF \/ ~Matches(stored, raster.source, raster.info)
             \/ stored.chunk # spec.chunk \/ stored.resampling # spec.resampling
     THEN Refused(store, "Conflict")
     ELSE FoldLeft(LAMBDA run, factor : BuildLevel(raster, spec, run, factor), NewReport(store, stored), levels)

------------------------------------------------------------------------------
(* `swath materialize' *)

\* A pyramid takes its aggregation from its layer's resampling.
PyramidResampling(resampling) == IF resampling = "nearest" THEN "nearest" ELSE "average"
SpecWith(resampling, minDim) ==
  [chunk |-> Chunk, min_dim |-> IF minDim = None THEN MinDim ELSE minDim, resampling |-> PyramidResampling(resampling)]

\* What can go wrong before anything is written, and then.
CommandErrors == {"Config", "Serve", "Catalog", "Resolve", "NoSuchLayer", "ResamplingConflict", "Materialize"}

Chosen(layers, only) == SelectSeq(layers, LAMBDA l : only \in {None, l.id})
AssetsOf(layers) ==
  FlattenSeq([i \in DOMAIN layers |->
    [k \in DOMAIN layers[i].assets |-> [asset |-> layers[i].assets[k], resampling |-> layers[i].resampling]]])

\* Variant: the layer that is named last has its way.
CollectAssetsLast(pairs) ==
  Answer(FoldLeft(LAMBDA assets, pair : (pair.asset :> PyramidResampling(pair.resampling)) @@ assets, <<>>, pairs))

\* Each asset once, with the resampling that all its layers agree on.
CollectAssets(pairs) ==
  LET take(assets, pair) ==
        IF assets.error # "none" THEN assets
        ELSE IF pair.asset \notin DOMAIN assets.value
        THEN Answer((pair.asset :> PyramidResampling(pair.resampling)) @@ assets.value)
        ELSE IF assets.value[pair.asset] # PyramidResampling(pair.resampling) THEN Failure("ResamplingConflict")
        ELSE assets
  IN FoldLeft(take, Answer(<<>>), pairs)

StaticAssets(layers, only) ==
  IF only # None /\ Chosen(layers, only) = <<>> THEN Failure("NoSuchLayer")
  ELSE CollectAssets(AssetsOf(Chosen(layers, only)))

\* The layers of a catalog have the assets of the latest granule: the first
\* without one ends the run.
CatalogAssets(layers, only) ==
  LET chosen == Chosen(layers, only)
  IN IF only # None /\ chosen = <<>> THEN Failure("NoSuchLayer")
     ELSE IF \E i \in DOMAIN chosen : chosen[i].assets = None THEN Failure("Resolve")
     ELSE CollectAssets(AssetsOf(chosen))

\* One asset after the other, until one fails.
MaterializeEach(rasters, stores, assets, minDim) ==
  LET ended(all, asset, run) ==
        [error |-> IF run.error = "none" THEN "none" ELSE "Materialize", stores |-> [all.stores EXCEPT ![asset] = run.store],
         reports |-> Append(all.reports, [asset |-> asset, run |-> run])]
      step(all, asset) ==
        IF all.error # "none" THEN all
        ELSE ended(all, asset, Materialize(rasters[asset], all.stores[asset], SpecWith(assets[asset], minDim)))
  IN FoldLeft(step, [error |-> "none", stores |-> stores, reports |-> <<>>], SetToSortSeq(DOMAIN assets, <))

\* The command, with what its configuration comes to.
MaterializeAll(cfg, rasters, stores, only, minDim) ==
  LET assets == IF cfg.mode = "static" THEN StaticAssets(cfg.layers, only) ELSE CatalogAssets(cfg.layers, only)
      ended(error) == [error |-> error, stores |-> stores, reports |-> <<>>]
  IN IF cfg.fault # "none" THEN ended(cfg.fault)
     ELSE IF assets.error # "none" THEN ended(assets.error)
     ELSE MaterializeEach(rasters, stores, assets.value, minDim)

------------------------------------------------------------------------------
(* What a level is for *)

\* The grid a level comes down to: what the asset itself holds.
Origin(raster, factor) == Max({s \in {1} \cup raster.info.overviews : s < factor /\ factor % s = 0})
OriginSamples(raster, factor) ==
  IF Origin(raster, factor) = 1 THEN raster.full ELSE raster.embedded[Origin(raster, factor)]
BlockOf(raster, factor, at) ==
  LET q == factor \div Origin(raster, factor)
  IN {c \in DOMAIN OriginSamples(raster, factor) :
        /\ c[1] \in (at[1] * q) .. ((at[1] + 1) * q - 1) /\ c[2] \in (at[2] * q) .. ((at[2] + 1) * q - 1)}

\* A pixel between the least and the greatest valid sample under it, to the
\* rounding of its type; without any it is nodata; or the first sample.
PixelFromBlock(raster, spec, factor, at, v) ==
  LET samples == OriginSamples(raster, factor)
      block == BlockOf(raster, factor, at)
      valid == {samples[c] : c \in {d \in block : IsValid(samples[d], raster.info.nodata)}}
      q == factor \div Origin(raster, factor)
  IN IF spec.resampling = "nearest" THEN v = samples[<<at[1] * q, at[2] * q>>]
     ELSE IF valid = {} THEN v = raster.info.nodata
     ELSE v # NaN /\ (\E s \in valid : AtMost(s, v)) /\ (\E s \in valid : AtMost(v, s))

\* A window of a level is the request's on its grid, and its pixels are made
\* of the samples under them.
WindowShowsBlocks(raster, spec, factor, w, read) ==
  LET grid == LevelInfo(raster.info, factor)
      touched == {at \in (0..(grid.width - 1)) \X (0..(grid.height - 1)) :
                    Intersection(WindowRequest(at[1] * raster.info.width, at[2] * raster.info.height,
                                        raster.info.width, raster.info.height),
                                 WindowRequest(w.col * grid.width, w.row * grid.height,
                                        w.width * grid.width, w.height * grid.height)) # None}
  IN /\ read.error = "none" /\ touched = DOMAIN read.value.pixels
     /\ \A at \in touched : PixelFromBlock(raster, spec, factor, at, read.value.pixels[at])
==============================================================================
