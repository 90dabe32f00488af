-------------------------------- MODULE Warp --------------------------------
(***************************************************************************)
(* The warp kernel (swath-warp): which source pixels a target grid needs,  *)
(* and what inverse mapping makes of them, nearest and bilinear, with      *)
(* GDAL's source window, anti-aliasing scales and nodata rules.            *)
(*                                                                         *)
(* Coordinates are exact, so that GDAL's slacks (1e-6, 1e-10, 1e-5) have   *)
(* nothing to absorb and are left out; its cut-offs (0.95, 0.9, 0.05) are  *)
(* kept.  Samples are integers.  Pixels are <<row, col>>, counted from 0.  *)
(***************************************************************************)
EXTENDS Exact, FiniteSetsExt

CONSTANT BoundarySamplesPerEdge

\* A box is walked along both ends of each edge at least.
SamplesAssumption == BoundarySamplesPerEdge \in Nat /\ BoundarySamplesPerEdge > 1

Pixels(width, height) == (0 .. height - 1) \X (0 .. width - 1)
Between(v, lo, hi) == IF v < lo THEN lo ELSE IF v > hi THEN hi ELSE v

------------------------------------------------------------------------------
(* Grids *)

\* The transform of the reprojection port: here a shift, defined east of a
\* meridian.  No point where it is undefined.
Transform(to, x, y) ==
  IF Less(x, Num(to.west)) THEN None ELSE <<Plus(x, to.dx), Plus(y, to.dy)>>

Determinant(gt) ==
  Minus(Times(gt.pixel_width, gt.pixel_height), Times(gt.row_rotation, gt.col_rotation))

\* `crs_to_pixel' for a geotransform with a determinant.
CrsToPixel(gt, p) ==
  LET dx == Minus(p[1], gt.origin_x)
      dy == Minus(p[2], gt.origin_y)
      weigh(k, a, l, b) == Lowest(Over(Minus(Times(k, a), Times(l, b)), Determinant(gt)))
  IN [col |-> weigh(gt.pixel_height, dx, gt.row_rotation, dy),
      row |-> weigh(gt.pixel_width, dy, gt.col_rotation, dx)]

\* `pixel_center'.
PixelCenter(grid, row, col) ==
  LET along(lo, hi, n, k) == Plus(Num(lo), <<(hi - lo) * (2 * k + 1), 2 * n>>)
  IN <<along(grid.min_x, grid.max_x, grid.width, col),
       along(grid.max_y, grid.min_y, grid.height, row)>>

------------------------------------------------------------------------------
(* The source window *)

Boundary(grid) ==
  UNION {LET along(lo, hi) == <<lo * (BoundarySamplesPerEdge - 1) + i * (hi - lo),
                                BoundarySamplesPerEdge - 1>>
             x == along(grid.min_x, grid.max_x)
             y == along(grid.min_y, grid.max_y)
         IN {<<x, Num(grid.max_y)>>, <<x, Num(grid.min_y)>>, <<Num(grid.min_x), y>>, <<Num(grid.max_x), y>>} :
           i \in 0 .. BoundarySamplesPerEdge - 1}

\* `source_extent': the box of the boundary in source pixels, None where no
\* point of it has a source.
SourceExtent(grid, source, to) ==
  LET mapped == {Transform(to, p[1], p[2]) : p \in Boundary(grid)} \ {None}
      places == {CrsToPixel(source.transform, p) : p \in mapped}
      least(vs) == CHOOSE v \in vs : \A w \in vs : AtMost(v, w)
      most(vs) == CHOOSE v \in vs : \A w \in vs : AtMost(w, v)
      cols == {p.col : p \in places}
      rows == {p.row : p \in places}
  IN IF places = {} THEN None
     ELSE [min_col |-> least(cols), max_col |-> most(cols),
           min_row |-> least(rows), max_row |-> most(rows)]

\* `clip_to_raster': a margin around the extent, whole pixels, on the raster.
ClipToRaster(ext, margin, source) ==
  LET lo(v) == Floor(v) - margin
      hi(v) == Ceil(v) + margin
      col == Between(lo(ext.min_col), 0, source.width)
      row == Between(lo(ext.min_row), 0, source.height)
      endCol == Between(hi(ext.max_col), 0, source.width)
      endRow == Between(hi(ext.max_row), 0, source.height)
  IN IF endCol <= col \/ endRow <= row THEN None
     ELSE [col |-> col, row |-> row, width |-> endCol - col, height |-> endRow - row]

------------------------------------------------------------------------------
(* GDAL's resampling geometry, one axis at a time *)

\* A quotient a/b is below 0.95.
Decimates(a, b) == 20 * a < 19 * b

\* The window of an axis: padded by the filter's reach, and the whole axis
\* when it is most of it.
AxisWindow(dst, min, max, raster, filter) ==
  LET span == Minus(max, min)
      reach == IF Less(Num(20 * dst), Times(Num(19), span))
               THEN Ceil(Times(Num(filter), Over(Lesser(span, Num(1000 * dst)), Num(dst))))
               ELSE filter
      west == IF Floor(min) < 0 THEN 0 ELSE Floor(min)
      east == IF Ceil(max) > raster THEN raster ELSE Ceil(max)
      off == Between(west - reach, 0, raster)
      size == Max({0, Min({raster - off, east - off + reach})})
  IN IF 10 * (east - west) > 9 * raster THEN [off |-> 0, size |-> raster]
     ELSE [off |-> off, size |-> size]

\* The scale of an axis as <<num, den>>, its reciprocal snapped to a whole.
KernelScale(dst, size) ==
  IF size <= 0 \/ size = dst THEN <<1, 1>>
  ELSE LET n == Nearest(<<size, dst>>)
           off == size - n * dst
       IN IF dst < size /\ 20 * (IF off < 0 THEN -off ELSE off) < dst THEN <<1, n>>
          ELSE <<dst, size>>

\* The scales of both axes: an axis that is read at its size or finer keeps 1.
Scales(x, y, sx, sy, filter) ==
  LET plain == ~Decimates(sx[1], sx[2]) /\ ~Decimates(sy[1], sy[2])
      scale(s) == IF plain \/ s[1] >= s[2] THEN <<1, 1>> ELSE s
      radius(s) == Ceil(<<filter * s[2], s[1]>>)
  IN [x |-> x, y |-> y, scale_x |-> scale(sx), scale_y |-> scale(sy),
      radius_x |-> radius(scale(sx)), radius_y |-> radius(scale(sy))]

ShapeOf(grid, x, y, filter) ==
  Scales(x, y, KernelScale(grid.width, x.size), KernelScale(grid.height, y.size), filter)

\* `KernelShape::compute'; None where the target is off the raster.
KernelShape(grid, ext, source, filter) ==
  LET off(lo, hi, n) == Less(Num(n), lo) \/ Less(hi, Num(0))
  IN IF off(ext.min_col, ext.max_col, source.width) \/ off(ext.min_row, ext.max_row, source.height)
     THEN None
     ELSE ShapeOf(grid, AxisWindow(grid.width, ext.min_col, ext.max_col, source.width, filter),
                  AxisWindow(grid.height, ext.min_row, ext.max_row, source.height, filter), filter)

\* Variant: the far edges of the window belong to it.
InShapeClosed(shape, p) ==
  LET within(v, axis) == AtMost(Num(axis.off), v) /\ AtMost(v, Num(axis.off + axis.size))
  IN within(p.col, shape.x) /\ within(p.row, shape.y)

\* `contains': a place in the kernel's window, whose far edges do not belong
\* to it (the slack there keeps even what lies short of them by 1e-10 out).
InShape(shape, p) ==
  LET within(v, axis) == AtMost(Num(axis.off), v) /\ Less(v, Num(axis.off + axis.size))
  IN within(p.col, shape.x) /\ within(p.row, shape.y)

------------------------------------------------------------------------------
(* Sampling: a result is a rational, or None where there is no data *)

\* The sample of a buffer at a window-local pixel, None outside or nodata.
At(source, row, col) ==
  IF <<row, col>> \in Pixels(source.window.width, source.window.height)
  THEN LET s == source.samples[row, col] IN IF s = source.nodata THEN None ELSE s
  ELSE None

SampleNearest(source, p) ==
  LET s == At(source, Floor(p.row), Floor(p.col)) IN IF s = None THEN None ELSE Num(s)

\* `triangle' of the distance of tap i, over the common denominator of its axis.
Weight(i, frac, scale) ==
  LET d == i * frac[2] - frac[1]
  IN Max({0, frac[2] * scale[2] - (IF d < 0 THEN -d ELSE d) * scale[1]})

\* The taps of an axis around a coordinate: offsets with their weights.
Taps(v, radius, scale) ==
  LET u == Minus(v, <<1, 2>>)
      frac == Minus(u, Num(Floor(u)))
      reach == {i \in -radius .. radius : Weight(i, frac, scale) > 0}
  IN [i \in {Floor(u) + k : k \in reach} |-> Weight(i - Floor(u), frac, scale)]

Sum(f(_, _), rows, cols) ==
  MapThenSumSet(LAMBDA r : MapThenSumSet(LAMBDA c : f(r, c), cols), rows)

\* `sample_bilinear': the weighted mean of the taps that have data.
SampleBilinear(source, p, shape, policy) ==
  LET rows == Taps(p.row, shape.radius_y, shape.scale_y)
      cols == Taps(p.col, shape.radius_x, shape.scale_x)
      present(r, c) == At(source, r, c) # None
      weight(r, c) == IF present(r, c) THEN rows[r] * cols[c] ELSE 0
      worth(r, c) == IF present(r, c) THEN rows[r] * cols[c] * At(source, r, c) ELSE 0
      total == Sum(weight, DOMAIN rows, DOMAIN cols)
      whole == \A r \in DOMAIN rows, c \in DOMAIN cols : present(r, c)
  IN IF total = 0 \/ (policy = "propagate" /\ ~whole) THEN None
     ELSE Lowest(<<Sum(worth, DOMAIN rows, DOMAIN cols), total>>)

------------------------------------------------------------------------------
(* The warp of one buffer: window, grid it was read from, samples, nodata *)

\* The pixel of the source that contains the point holds nodata.
OnNodata(source, p) ==
  LET px == <<Floor(p.row), Floor(p.col)>>
  IN /\ px \in Pixels(source.window.width, source.window.height)
     /\ source.samples[px] = source.nodata

\* A place on the raster, in the pixels of the window.
LocalTo(window, place) ==
  [col |-> Minus(place.col, Num(window.col)), row |-> Minus(place.row, Num(window.row))]

\* Variant: a bilinear result may come from the neighbours of a nodata pixel.
SampleAtUngated(source, resampling, shape, place, local) ==
  IF ~InShape(shape, place) THEN None
  ELSE IF resampling.kernel = "nearest" THEN SampleNearest(source, local)
  ELSE SampleBilinear(source, local, shape, resampling.policy)

\* The sample at a place: none outside the source window or on nodata.
SampleAt(source, resampling, shape, place, local) ==
  IF ~InShape(shape, place) \/ OnNodata(source, local) THEN None
  ELSE IF resampling.kernel = "nearest" THEN SampleNearest(source, local)
  ELSE SampleBilinear(source, local, shape, resampling.policy)

WarpPlace(source, resampling, shape, place) ==
  SampleAt(source, resampling, shape, place, LocalTo(source.window, place))

WarpPixel(source, to, grid, resampling, shape, px) ==
  LET center == PixelCenter(grid, px[1], px[2])
      point == Transform(to, center[1], center[2])
  IN IF point = None THEN None
     ELSE WarpPlace(source, resampling, shape, CrsToPixel(source.grid.transform, point))

\* The pixels of the target that has an extent on the source.
WarpExtent(source, to, grid, resampling, extent) ==
  LET shape == KernelShape(grid, extent, source.grid, IF resampling.kernel = "nearest" THEN 0 ELSE 1)
      pixels == Pixels(grid.width, grid.height)
  IN IF source.window.width * source.window.height = 0 \/ extent = None \/ shape = None
     THEN [px \in pixels |-> None]
     ELSE [px \in pixels |-> WarpPixel(source, to, grid, resampling, shape, px)]

\* `warp': a rational or None for every pixel of the target.
WarpTo(source, to, grid, resampling) ==
  IF Determinant(source.grid.transform)[1] = 0 THEN [error |-> "NonInvertibleTransform", pixels |-> None]
  ELSE [error |-> "none",
        pixels |-> WarpExtent(source, to, grid, resampling, SourceExtent(grid, source.grid, to))]
=============================================================================
