-------------------------------- MODULE Tiler --------------------------------
(***************************************************************************)
(* The render of one tile: reading a window of a cloud-optimized GeoTIFF   *)
(* (swath-source-cog), and the tile made of such windows (swath-render     *)
(* tiler.rs): describe the bands, agree on one CRS, see what each band has *)
(* under the tile, plan, read every band at the planned level, warp,       *)
(* evaluate.  Composes Planner, Warp and RenderIR.                         *)
(*                                                                         *)
(* An object is a sequence of image directories, the first of them the     *)
(* full-resolution image; parsing and decoding are left out, what they     *)
(* refuse is the object's fault or the directory's layout.  The encoder,   *)
(* timings and the trace's wording are left out; what the trace says of    *)
(* the reads is kept.                                                      *)
(***************************************************************************)
EXTENDS Warp, RenderIR, Planner

------------------------------------------------------------------------------
(* Windows of an object *)

OverviewNotFound == "OverviewNotFound"

\* The decimation factor of a directory, rounded on the widths.
FactorOf(object, ifd) == Nearest(<<object.ifds[1].width, ifd.width>>)

Overviews(object) == {i \in 2 .. Len(object.ifds) : object.ifds[i].reduced}

\* `raster_info': the grid of the full image and the factors of its overviews.
RasterInfo(object) ==
  [crs |-> object.crs, width |-> object.ifds[1].width, height |-> object.ifds[1].height,
   transform |-> object.transform, band_count |-> object.band_count, bytes |-> object.bytes,
   nodata |-> object.nodata,
   overview_levels |-> SetToSortSeq({FactorOf(object, object.ifds[i]) : i \in Overviews(object)}, <)]

\* `describe'.
Describe(object) ==
  IF object.fault # "none" THEN Failure(object.fault) ELSE Answer(RasterInfo(object))

\* `overview_info': the same ground in the pixels of a directory.
GridOf(info, ifd) ==
  [info EXCEPT !.width = ifd.width, !.height = ifd.height, !.overview_levels = <<>>,
     !.transform.pixel_width = Times(@, <<info.width, ifd.width>>),
     !.transform.pixel_height = Times(@, <<info.height, ifd.height>>)]

\* `to_grid': a full-resolution window on a directory's grid, covering it.
ToGrid(window, info, ifd) ==
  LET start(v, full, n) == Floor(<<v * n, full>>)
      end(v, full, n) == Ceil(<<v * n, full>>)
      col == start(window.col, info.width, ifd.width)
      row == start(window.row, info.height, ifd.height)
  IN [col |-> col, row |-> row,
      width |-> end(window.col + window.width, info.width, ifd.width) - col,
      height |-> end(window.row + window.height, info.height, ifd.height) - row]

\* `intersection' with the grid; None when nothing of it is there.
Clipped(window, grid) ==
  LET endCol == Min({window.col + window.width, grid.width})
      endRow == Min({window.row + window.height, grid.height})
  IN IF endCol <= window.col \/ endRow <= window.row THEN None
     ELSE [window EXCEPT !.width = endCol - window.col, !.height = endRow - window.row]

\* `TilePlan::for_window': the tiles a clip touches, <<x, y>>.
TilesOf(clip, ifd) ==
  ((clip.col \div ifd.tile_width) .. ((clip.col + clip.width - 1) \div ifd.tile_width))
    \X ((clip.row \div ifd.tile_height) .. ((clip.row + clip.height - 1) \div ifd.tile_height))

\* A decoded tile: the samples of its pixels, padding past the image's edge.
Decoded(ifd, tile) ==
  [px \in Pixels(ifd.tile_width, ifd.tile_height) |->
     LET at == <<tile[2] * ifd.tile_height + px[1], tile[1] * ifd.tile_width + px[2]>>
     IN IF at \in DOMAIN ifd.pixels THEN ifd.pixels[at] ELSE ifd.padding]

\* `copy_tile': the overlap of a tile and the clip, one band of it.
CopyTile(samples, ifd, tile, clip, band) ==
  LET decoded == Decoded(ifd, tile)
      within(px) == <<px[1] + clip.row - tile[2] * ifd.tile_height,
                      px[2] + clip.col - tile[1] * ifd.tile_width>>
  IN [px \in DOMAIN samples |->
        IF within(px) \in DOMAIN decoded THEN decoded[within(px)][band + 1] ELSE samples[px]]

\* The directory a level names, None if no overview has the factor.
DirectoryOf(object, level) ==
  LET found == {i \in Overviews(object) : FactorOf(object, object.ifds[i]) = level}
  IN IF level = None THEN object.ifds[1]
     ELSE IF found = {} THEN None ELSE object.ifds[Min(found)]

\* The tiles of a clip, fetched and copied; outside of the image there are none.
ReadClip(object, ifd, grid, band, request, clip) ==
  LET zeroed == [px \in Pixels(clip.width, clip.height) |-> 0]
      data(w, samples, tiles) ==
        Answer([window |-> w, grid |-> grid, samples |-> samples, nodata |-> object.nodata,
                tiles |-> tiles])
  IN IF clip = None
     THEN data([col |-> Min({request.col, grid.width}), row |-> Min({request.row, grid.height}),
                width |-> 0, height |-> 0], <<>>, {})
     ELSE IF ifd.layout # "tiled" THEN Failure("Unsupported")
     ELSE data(clip, FoldSet(LAMBDA tile, samples : CopyTile(samples, ifd, tile, clip, band),
                             zeroed, TilesOf(clip, ifd)), TilesOf(clip, ifd))

ReadOn(object, ifd, grid, band, request) ==
  ReadClip(object, ifd, grid, band, request, Clipped(request, grid))

\* The window on the grid of the directory that the level names.
ReadLevel(object, info, window, band, level, ifd) ==
  IF ifd = None THEN Failure(OverviewNotFound)
  ELSE ReadOn(object, ifd, IF level = None THEN info ELSE GridOf(info, ifd), band,
              ToGrid(window, info, ifd))

\* `read_window': the window that was read, the grid it lies on, its samples.
ReadWindow(object, window, band, level) ==
  IF object.fault # "none" THEN Failure(object.fault)
  ELSE IF band >= object.band_count THEN Failure("BandOutOfRange")
  ELSE ReadLevel(object, RasterInfo(object), window, band, level, DirectoryOf(object, level))

------------------------------------------------------------------------------
(* A tile *)

FullRes == None

\* `window_margin': full-resolution pixels read around a band's extent.
WindowMargin(resampling) == IF resampling.kernel = "nearest" THEN 1 ELSE 4

\* `describe_bands': the inputs in order, with their rasters; the first that
\* has no asset or cannot be described ends it.
DescribeBands(request, objects) ==
  LET describe(acc, input) ==
        IF acc.error # "none" THEN acc
        ELSE IF input.name \notin DOMAIN request.bands THEN Failure("MissingBand")
        ELSE LET asset == request.bands[input.name]
                 info == Describe(objects[asset])
             IN IF info.error # "none" THEN Failure("Source")
                ELSE [acc EXCEPT !.value = Append(@, [asset |-> asset, info |-> info.value])]
  IN FoldLeft(describe, Answer(<<>>), request.plan.inputs)

\* `availability': the bands that have pixels under the tile.
Availability(bands, extents) ==
  LET window(i) == [cols |-> Minus(extents[i].max_col, extents[i].min_col),
                    rows |-> Minus(extents[i].max_row, extents[i].min_row),
                    bytes |-> bands[i].info.bytes, overviews |-> bands[i].info.overview_levels]
  IN FoldLeft(LAMBDA acc, i : IF extents[i] = None THEN acc ELSE Append(acc, window(i)),
              <<>>, [i \in DOMAIN bands |-> i])

Nothing(grid) == [error |-> "none", pixels |-> [px \in Pixels(grid.width, grid.height) |-> None],
                  read |-> <<>>]

WarpedFrom(asset, level, data, warped) ==
  [error |-> IF warped.error = "none" THEN "none" ELSE "Warp", pixels |-> warped.pixels,
   read |-> <<[asset |-> asset, level |-> level, tiles |-> data.tiles]>>]

\* The window of a band at a level, read and warped to the tile.
ReadAndWarpWindow(request, object, asset, window, level) ==
  LET data == ReadWindow(object, window, 0, level)
  IN IF window = None THEN Nothing(request.grid)
     ELSE IF data.error # "none" THEN [error |-> "Source", pixels |-> None, read |-> <<>>]
     ELSE WarpedFrom(asset, level, data.value,
                     WarpTo(data.value, request.to, request.grid, request.resampling))

\* Variant: the margin is not widened with the factor of an overview.
ReadAndWarpNarrow(request, objects, band, extent, factor) ==
  IF extent = None THEN Nothing(request.grid)
  ELSE ReadAndWarpWindow(request, objects[band.asset], band.asset,
         ClipToRaster(extent, WindowMargin(request.resampling), band.info), factor)

\* `read_and_warp': one band at the planned level, the margin in its pixels.
ReadAndWarp(request, objects, band, extent, factor) ==
  LET margin == WindowMargin(request.resampling) * (IF factor = None THEN 1 ELSE factor)
  IN IF extent = None THEN Nothing(request.grid)
     ELSE ReadAndWarpWindow(request, objects[band.asset], band.asset,
            ClipToRaster(extent, margin, band.info), factor)

\* Pixel ops: every pixel of the tile from that pixel of the buffers.
Evaluated(plan, buffers, grid) ==
  LET sample(v) == IF v = None THEN Invalid ELSE Sample(v)
      at(px) == EvalPlan(plan, [i \in DOMAIN buffers |-> sample(buffers[i].pixels[px])], <<>>)
      pixels == [px \in Pixels(grid.width, grid.height) |-> at(px)]
  IN IF \E px \in DOMAIN pixels : pixels[px].error # "none" THEN Failure("Plan")
     ELSE Answer([px \in DOMAIN pixels |-> pixels[px].rgba])

\* The tile of the warped bands, and what its trace says of the reads.
TileFrom(request, warped, decision, factor) ==
  LET failed == {i \in DOMAIN warped : warped[i].error # "none"}
      tile == Evaluated(request.plan, warped, request.grid)
  IN IF failed # {} THEN Failure(warped[Min(failed)].error)
     ELSE IF tile.error # "none" THEN tile
     ELSE Answer([rgba |-> tile.value, decision |-> decision, factor |-> factor,
                  reads |-> FlattenSeq([i \in DOMAIN warped |-> warped[i].read])])

\* The planned reads; the level is that of an overview, or full resolution.
RenderAsPlanned(request, objects, bands, extents, plan) ==
  LET factor == IF plan.choice = "overview" THEN plan.factor ELSE FullRes
  IN IF plan.choice = "refuse" THEN Failure("BudgetExceeded")
     ELSE TileFrom(request, [i \in DOMAIN bands |->
                               ReadAndWarp(request, objects, bands[i], extents[i], factor)],
                   plan.choice, factor)

RenderExtents(request, objects, probe, bands, extents) ==
  RenderAsPlanned(request, objects, bands, extents,
    Plan(request.budget, probe, request.grid.width, Availability(bands, extents)))

\* The bands agree on a CRS that reprojects to the tile's.
RenderBands(request, objects, probe, bands) ==
  IF bands = <<>> THEN Failure("NoBands")
  ELSE IF \E i \in DOMAIN bands : bands[i].info.crs # bands[1].info.crs THEN Failure("MixedCrs")
  ELSE IF request.to = None THEN Failure("Reproject")
  ELSE IF \E i \in DOMAIN bands : Determinant(bands[i].info.transform)[1] = 0 THEN Failure("Warp")
  ELSE RenderExtents(request, objects, probe, bands,
         [i \in DOMAIN bands |-> SourceExtent(request.grid, bands[i].info, request.to)])

\* `render_planned': the tile and what its trace says, or the first failure.
RenderPlanned(request, objects, probe) ==
  LET described == DescribeBands(request, objects)
  IN IF described.error # "none" THEN described
     ELSE RenderBands(request, objects, probe, described.value)
==============================================================================
