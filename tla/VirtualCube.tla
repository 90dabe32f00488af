----------------------------- MODULE VirtualCube -----------------------------
(***************************************************************************)
(* Legacy granules served in place: the referencer (swath-referencer) that *)
(* describes an HDF5 file by byte ranges, the manifest (swath-manifest),   *)
(* and the source that reads windows through it (swath-source-virtual).    *)
(*                                                                         *)
(* A file is a tree of groups; a dataset has its shape, its type, its      *)
(* filters in the order of the pipeline, and either the index of its       *)
(* allocated chunks or the address of all of it.  What lies at an address  *)
(* is a run of samples with the filters that were really applied to it.    *)
(*                                                                         *)
(* The same manifests committed to an Icechunk repository, and read back   *)
(* from it (swath-icechunk).  A repository is the sequence of its          *)
(* snapshots, `main' at the last; a snapshot has its arrays by name, each  *)
(* with its Zarr metadata and its table of references.  And the command    *)
(* `swath ingest reference', which writes the one and commits the other.   *)
(***************************************************************************)
EXTENDS Integers, Sequences, SequencesExt, FiniteSets, TLC, Outcome

CONSTANT Scrambled

------------------------------------------------------------------------------
(* HDF-EOS grids *)

\* The first value of a key in the block.
Field(fields, key) ==
  LET at == {i \in DOMAIN fields : fields[i].key = key}
  IN IF at = {} THEN None ELSE fields[CHOOSE i \in at : \A j \in at : i <= j].value

\* The grid of a block that names all it needs; a corner is a pair of numbers.
GridOf(name, xdim, ydim, ul, lr, origin, projection, radius) ==
  IF name = None \/ xdim = None \/ ydim = None \/ xdim = 0 \/ ydim = 0 \/ ul = None \/ lr = None \/ origin = None
  THEN Failure("Malformed")
  ELSE IF origin # "HE5_HDFE_GD_UL" THEN Failure("Unsupported")
  ELSE IF projection = None THEN Failure("Malformed")
  ELSE IF projection # "HE5_GCTP_SNSOID" THEN Failure("Unsupported")
  ELSE IF radius = None \/ radius <= 0 \/ ul[1] = lr[1] \/ ul[2] = lr[2] THEN Failure("Malformed")
  ELSE Answer([ name |-> name, xdim |-> xdim, ydim |-> ydim, crs |-> <<"sinu", radius>>,
                transform |-> [origin_x |-> ul[1], origin_y |-> ul[2],
                               pixel_width |-> <<lr[1] - ul[1], xdim>>, pixel_height |-> <<lr[2] - ul[2], ydim>>] ])

\* `grid_from_fields'.
GridFromFields(fields) ==
  GridOf(Field(fields, "GridName"), Field(fields, "XDim"), Field(fields, "YDim"), Field(fields, "UpperLeftPointMtrs"),
         Field(fields, "LowerRightMtrs"), Field(fields, "GridOrigin"), Field(fields, "Projection"), Field(fields, "ProjParams"))

WithGrid(state, grid) ==
  IF grid.error # "none" THEN [state EXCEPT !.error = grid.error]
  ELSE [state EXCEPT !.grids = Append(@, grid.value), !.block = None]

\* A line opens a block, closes the one that is open, or is a field of it.
AfterLine(state, line) ==
  IF state.error # "none" THEN state
  ELSE CASE line.is = "group" -> IF state.block = None THEN [state EXCEPT !.block = [id |-> line.id, fields |-> <<>>]] ELSE state
         [] line.is = "end" -> IF state.block = None THEN state
                               ELSE IF state.block.id # line.id THEN [state EXCEPT !.error = "Malformed"]
                               ELSE WithGrid(state, GridFromFields(state.block.fields))
         [] OTHER -> IF state.block = None THEN state ELSE [state EXCEPT !.block.fields = Append(@, line)]

\* `parse_grids'.
ParseGrids(lines) ==
  LET end == FoldLeft(AfterLine, [error |-> "none", grids |-> <<>>, block |-> None], lines)
  IN IF end.error # "none" THEN Failure(end.error) ELSE Answer(end.grids)

------------------------------------------------------------------------------
(* The referencer *)

\* `numpy_dtype': big-endian, compound and other types have none.
NumpyDtype == [i1 |-> "int8", i2 |-> "int16", i8 |-> "int64", u1 |-> "uint8", f4 |-> "float32", text |-> "|S"]

\* `filter_codec': filters in the words of the manifest, in their order.
FilterCodec(filter) == IF filter = "deflate" THEN "zlib" ELSE filter

ChunkRef(ds, chunk, source) ==
  [key |-> [d \in DOMAIN ds.chunk |-> chunk.offset[d] \div ds.chunk[d]], path |-> source,
   offset |-> chunk.addr, length |-> chunk.size]

WholeRef(ds, source) ==
  IF ds.addr = None THEN <<>>
  ELSE <<[key |-> [d \in DOMAIN ds.shape |-> 0], path |-> source, offset |-> ds.addr, length |-> ds.size]>>

\* `array_of': chunked, one reference to each allocated chunk; contiguous,
\* one to the whole of it, if there is any.
ArrayOf(ds, source) ==
  IF ds.type \notin DOMAIN NumpyDtype THEN Failure("Unsupported")
  ELSE Answer([ name |-> ds.name, shape |-> ds.shape, dtype |-> NumpyDtype[ds.type], georef |-> None,
                codecs |-> [i \in DOMAIN ds.filters |-> FilterCodec(ds.filters[i])],
                chunks |-> IF ds.chunk = None THEN ds.shape ELSE ds.chunk,
                refs |-> IF ds.chunk = None THEN WholeRef(ds, source)
                         ELSE [i \in DOMAIN ds.index |-> ChunkRef(ds, ds.index[i], source)] ])

\* `walk_group': the datasets of a group, then its groups.
RECURSIVE DatasetsOf(_)
DatasetsOf(group) == group.datasets \o FlattenSeq([i \in DOMAIN group.groups |-> DatasetsOf(group.groups[i])])

Under(name, grid) == Len(name) > 3 /\ SubSeq(name, 1, 3) = <<"HDFEOS", "GRIDS", grid>>

\* `attach_georefs': to the two-dimensional fields of a grid, of its size.
WithGeoref(array, fill, grids) ==
  LET fits == {i \in DOMAIN grids : Under(array.name, grids[i].name) /\ array.shape = <<grids[i].ydim, grids[i].xdim>>}
      grid == grids[CHOOSE i \in fits : \A j \in fits : i <= j]
  IN IF fits = {} THEN array
     ELSE [array EXCEPT !.georef = [crs |-> grid.crs, transform |-> grid.transform, nodata |-> fill,
                                    band |-> array.name[Len(array.name)]]]

ManifestOf(source, datasets, arrays, grids) ==
  Answer([source |-> source, arrays |-> [i \in DOMAIN arrays |-> WithGeoref(arrays[i].value, datasets[i].fill, grids)]])

FirstFailed(answers) == CHOOSE i \in DOMAIN answers :
  answers[i].error # "none" /\ \A j \in 1 .. i - 1 : answers[j].error = "none"

Generated(file, datasets, arrays) ==
  IF \E i \in DOMAIN arrays : arrays[i].error # "none" THEN arrays[FirstFailed(arrays)]
  ELSE IF arrays = <<>> THEN Failure("Malformed")
  ELSE LET grids == IF file.structure = None THEN Answer(<<>>) ELSE ParseGrids(file.structure)
       IN IF grids.error # "none" THEN grids ELSE ManifestOf(file.path, datasets, arrays, grids.value)

\* `generate'.
Generate(file) ==
  LET datasets == DatasetsOf(file.root)
  IN Generated(file, datasets, [i \in DOMAIN datasets |-> ArrayOf(datasets[i], file.path)])

------------------------------------------------------------------------------
(* Equivalence of manifests *)

Named(manifest, name) ==
  LET at == {i \in DOMAIN manifest.arrays : manifest.arrays[i].name = name}
  IN IF at = {} THEN None ELSE manifest.arrays[CHOOSE i \in at : \A j \in at : i <= j]

Keyed(array, key) ==
  LET at == {i \in DOMAIN array.refs : array.refs[i].key = key}
  IN IF at = {} THEN None ELSE array.refs[CHOOSE i \in at : \A j \in at : i >= j]

SameGrid(a, b) == a.shape = b.shape /\ a.chunks = b.chunks /\ a.dtype = b.dtype /\ a.codecs = b.codecs

\* Variant: a chunk that the other manifest lacks is no mismatch.
SameChunksKnown(a, b) ==
  \A i \in DOMAIN a.refs : LET there == Keyed(b, a.refs[i].key)
                           IN there = None \/ (there.offset = a.refs[i].offset /\ there.length = a.refs[i].length)

SameChunks(a, b) ==
  /\ Len(a.refs) = Len(b.refs)
  /\ \A i \in DOMAIN a.refs : LET there == Keyed(b, a.refs[i].key)
                              IN there # None /\ there.offset = a.refs[i].offset /\ there.length = a.refs[i].length

\* `compare' and `equivalent'.
Equivalent(a, b) ==
  /\ Len(a.arrays) = Len(b.arrays)
  /\ \A i \in DOMAIN a.arrays :
       LET there == Named(b, a.arrays[i].name)
       IN there # None /\ SameGrid(a.arrays[i], there) /\ SameChunks(a.arrays[i], there)

------------------------------------------------------------------------------
(* Reading windows *)

\* `dtype_of'.
Served == {"uint8", "int16", "uint16", "int32", "float32", "float64"}

\* `array_raster_info'.
RasterInfoOf(array) ==
  IF Len(array.shape) # 2 \/ array.dtype \notin Served THEN Failure("Unsupported")
  ELSE Answer([ crs |-> array.georef.crs, height |-> array.shape[1], width |-> array.shape[2],
                transform |-> array.georef.transform, dtype |-> array.dtype, nodata |-> array.georef.nodata,
                overviews |-> <<>> ])

\* `split' and `load_array'.
Selected(manifest, name) ==
  IF Named(manifest, name) = None THEN Failure("Format")
  ELSE IF Named(manifest, name).georef = None THEN Failure("Unsupported")
  ELSE Answer(Named(manifest, name))
LoadArray(manifests, asset) ==
  IF asset.array = None THEN Failure("Format")
  ELSE IF asset.key \notin DOMAIN manifests THEN Failure("NotFound")
  ELSE IF manifests[asset.key] = None THEN Failure("Format")
  ELSE Selected(manifests[asset.key], asset.array)

Lesser(a, b) == IF b < a THEN b ELSE a
Greater(a, b) == IF a < b THEN b ELSE a

\* The part of a window that lies on the raster; None is no part.
Intersection(w, info) ==
  LET right == Lesser(w.col_off + w.width, info.width)
      below == Lesser(w.row_off + w.height, info.height)
  IN IF w.col_off >= right \/ w.row_off >= below THEN None
     ELSE [col_off |-> w.col_off, row_off |-> w.row_off, width |-> right - w.col_off, height |-> below - w.row_off]

\* Variant: the row after the last one is still looked for.
ChunksTouchingPast(clip, rows, cols) ==
  LET row0 == clip.row_off \div rows
      col0 == clip.col_off \div cols
      wide == (clip.col_off + clip.width - 1) \div cols - col0 + 1
      high == (clip.row_off + clip.height - 1) \div rows - row0
  IN [i \in 1 .. wide * high |-> <<row0 + ((i - 1) \div wide), col0 + ((i - 1) % wide)>>]

\* `chunks_touching': the positions in the grid of chunks, row after row.
ChunksTouching(clip, rows, cols) ==
  LET row0 == clip.row_off \div rows
      col0 == clip.col_off \div cols
      wide == (clip.col_off + clip.width - 1) \div cols - col0 + 1
      high == (clip.row_off + clip.height - 1) \div rows - row0 + 1
  IN [i \in 1 .. wide * high |-> <<row0 + ((i - 1) \div wide), col0 + ((i - 1) % wide)>>]

\* One codec undone: inflating what was not deflated fails, unshuffling what
\* was not shuffled scrambles it.
Undone(stored, codec) ==
  IF stored.error # "none" THEN stored
  ELSE IF codec \notin {"zlib", "shuffle"} THEN Failure("Unsupported")
  ELSE IF stored.value.applied # <<>> /\ Last(stored.value.applied) = codec
  THEN Answer([stored.value EXCEPT !.applied = Front(@)])
  ELSE IF codec = "zlib" THEN Failure("Format")
  ELSE Answer([stored.value EXCEPT !.samples = [i \in DOMAIN @ |-> Scrambled]])

\* `decode': the codecs undone in reverse; a short chunk is corrupt.
Decode(array, stored) ==
  LET decoded == FoldLeft(Undone, Answer(stored), Reverse(array.codecs))
  IN IF decoded.error # "none" THEN decoded
     ELSE IF Len(decoded.value.samples) # array.chunks[1] * array.chunks[2] THEN Failure("Format")
     ELSE Answer(decoded.value.samples)

\* `get_range' of the object store.
GetRange(files, ref) ==
  IF ref.path \notin DOMAIN files THEN Failure("NotFound")
  ELSE IF <<ref.offset, ref.length>> \notin DOMAIN files[ref.path] THEN Failure("Io")
  ELSE Answer(files[ref.path][<<ref.offset, ref.length>>])

\* `copy_chunk': the samples of a chunk that lie in the window.
CopyChunk(out, samples, array, chunk) ==
  [px \in DOMAIN out |->
     IF px[1] \div array.chunks[1] = chunk[1] /\ px[2] \div array.chunks[2] = chunk[2]
     THEN samples[((px[1] % array.chunks[1]) * array.chunks[2]) + (px[2] % array.chunks[2]) + 1] ELSE out[px]]

Copied(out, samples, array, chunk, ref) ==
  IF samples.error # "none" THEN samples
  ELSE Answer([pixels |-> CopyChunk(out.pixels, samples.value, array, chunk), provenance |-> Append(out.provenance, ref)])

Fetched(out, raw, array, chunk, ref) ==
  IF raw.error # "none" THEN raw ELSE Copied(out, Decode(array, raw.value), array, chunk, ref)

\* A chunk without a reference leaves the fill where it is.
AfterChunk(acc, array, files, chunk, ref) ==
  IF acc.error # "none" \/ ref = None THEN acc ELSE Fetched(acc.value, GetRange(files, ref), array, chunk, ref)

\* `fill_bytes': nodata, or zero where none is declared.
FillOf(info) == IF info.nodata = None THEN 0 ELSE info.nodata

WindowData(window, info, read) ==
  IF read.error # "none" THEN read
  ELSE Answer([window |-> window, info |-> info, pixels |-> read.value.pixels, provenance |-> read.value.provenance])

\* Keyed by a position in two dimensions, or no chunk reader is made.
ReadClip(array, files, info, clip) ==
  IF Len(array.chunks) # 2 \/ 0 \in {array.chunks[i] : i \in DOMAIN array.chunks} THEN Failure("Format")
  ELSE IF \E i \in DOMAIN array.refs : Len(array.refs[i].key) # 2 THEN Failure("Format")
  ELSE WindowData(clip, info,
         FoldLeft(LAMBDA acc, chunk : AfterChunk(acc, array, files, chunk, Keyed(array, chunk)),
                  Answer([pixels |-> [px \in (clip.row_off .. clip.row_off + clip.height - 1)
                                              \X (clip.col_off .. clip.col_off + clip.width - 1) |-> FillOf(info)],
                          provenance |-> <<>>]),
                  ChunksTouching(clip, array.chunks[1], array.chunks[2])))

Nowhere(w, info) ==
  [col_off |-> Lesser(w.col_off, info.width), row_off |-> Lesser(w.row_off, info.height), width |-> 0, height |-> 0]

ReadOn(array, files, info, window, clip) ==
  IF clip = None
  THEN WindowData(Nowhere(window, info), info, Answer([pixels |-> [px \in {} |-> 0], provenance |-> <<>>]))
  ELSE ReadClip(array, files, info, clip)

\* `read_array_window': there are no overviews, and one band, number 0.
ReadArrayWindow(array, files, window, band, overview) ==
  LET info == RasterInfoOf(array)
  IN IF info.error # "none" THEN info
     ELSE IF overview # None THEN Failure("OverviewNotFound")
     ELSE IF band # 0 THEN Failure("BandOutOfRange")
     ELSE ReadOn(array, files, info.value, window, Intersection(window, info.value))

\* `read_window' of the virtual source.
ReadWindow(manifests, files, asset, window, band, overview) ==
  LET array == LoadArray(manifests, asset)
  IN IF array.error # "none" THEN array ELSE ReadArrayWindow(array.value, files, window, band, overview)

------------------------------------------------------------------------------
(* The versioned repository *)

------------------------------------------------------------------------------
(* Committing *)

\* `representable': what has a Zarr data type and Zarr codecs.
ZarrTypes == {"int8", "uint8", "int16", "uint16", "int32", "uint32", "int64", "uint64", "float32", "float64"}
Representable(array) == array.dtype \in ZarrTypes /\ ToSet(array.codecs) \subseteq {"zlib", "shuffle"}

\* `names' of PhonyDims: by size, and by occurrence of it in the array.
NamedDims(dims, shape) ==
  LET key(d) == <<shape[d], Cardinality({e \in 1 .. d - 1 : shape[e] = shape[d]})>>
      with(known, d) == IF key(d) \in DOMAIN known THEN known
                        ELSE [k \in DOMAIN known \cup {key(d)} |->
                                IF k \in DOMAIN known THEN known[k] ELSE Cardinality(DOMAIN known)]
      all == FoldLeft(with, dims, [d \in DOMAIN shape |-> d])
  IN [dims |-> all, names |-> [d \in DOMAIN shape |-> all[key(d)]]]

\* `chunk_location': a file that is there, below the root of the container.
Located(path, disk) == path \in disk.present /\ path \in disk.below

\* `parse_key' against the rank of the array, then the location.
RefFault(ref, array, disk) ==
  IF Len(ref.key) # Len(array.shape) THEN "Manifest"
  ELSE IF ~Located(ref.path, disk) THEN "SourcePath" ELSE "none"

RefsFault(array, disk) ==
  LET faulty == {i \in DOMAIN array.refs : RefFault(array.refs[i], array, disk) # "none"}
  IN IF faulty = {} THEN "none"
     ELSE RefFault(array.refs[CHOOSE i \in faulty : \A j \in faulty : i <= j], array, disk)

\* `write_array': the metadata, and the references over those that the
\* repository has of an array of this name.
Written(snapshot, array, names) ==
  [name \in DOMAIN snapshot \cup {array.name} |->
     IF name # array.name THEN snapshot[name]
     ELSE [ shape |-> array.shape, chunks |-> array.chunks, dtype |-> array.dtype, georef |-> array.georef,
            codecs |-> <<"bytes">> \o array.codecs, names |-> names,
            refs |-> [key \in {array.refs[i].key : i \in DOMAIN array.refs}
                              \cup (IF name \in DOMAIN snapshot THEN DOMAIN snapshot[name].refs ELSE {}) |->
                        IF Keyed(array, key) # None
                        THEN [path |-> Keyed(array, key).path, offset |-> Keyed(array, key).offset,
                              length |-> Keyed(array, key).length]
                        ELSE snapshot[name].refs[key]] ]]

AfterArray(acc, array, disk) ==
  IF acc.error # "none" THEN acc
  ELSE IF RefsFault(array, disk) # "none" THEN Failure(RefsFault(array, disk))
  ELSE LET dims == NamedDims(acc.value.dims, array.shape)
       IN Answer([dims |-> dims.dims, arrays |-> Written(acc.value.arrays, array, dims.names)])

\* A repository that was not there is made before anything can fail.
Opened(repo) == IF repo = <<>> THEN <<[name \in {} |-> 0]>> ELSE repo

Committed(repo, arrays, disk, skipped) ==
  LET written == FoldLeft(LAMBDA acc, array : AfterArray(acc, array, disk),
                          Answer([dims |-> [k \in {} |-> 0], arrays |-> Last(repo)]), arrays)
  IN IF arrays = <<>> THEN [repo |-> repo, outcome |-> Failure("NothingToCommit")]
     ELSE IF written.error # "none" THEN [repo |-> repo, outcome |-> written]
     ELSE [repo |-> Append(repo, written.value.arrays),
           outcome |-> Answer([snapshot |-> Len(repo) + 1, skipped |-> skipped,
                               committed |-> [i \in DOMAIN arrays |-> arrays[i].name]])]

\* `CommitError', and the failure of the store itself.
CommitErrors == {"Manifest", "SourcePath", "NothingToCommit", "Icechunk"}

\* `commit_manifest': all arrays that can be represented, in one snapshot.
\* Before a repository is opened the root must resolve (`file_url').
CommitManifest(repo, manifest, disk) ==
  LET skipped == SelectSeq(manifest.arrays, LAMBDA a : ~Representable(a))
  IN IF ~disk.rooted THEN [repo |-> repo, outcome |-> Failure("SourcePath")]
     ELSE Committed(Opened(repo), SelectSeq(manifest.arrays, Representable), disk,
                    [i \in DOMAIN skipped |-> skipped[i].name])

------------------------------------------------------------------------------
(* Reading back *)

\* `manifest_codecs': the chain without its first stage.
ManifestCodecs(codecs) == SelectSeq(codecs, LAMBDA c : c # "bytes")

\* `grid_positions': of the chunks that cover the array, row after row.
GridPositions(shape, chunks) ==
  IF Len(shape) < 2 \/ Len(chunks) < 2 THEN <<>>
  ELSE IF chunks[1] = 0 \/ chunks[2] = 0 THEN <<>>
  ELSE LET wide == (shape[2] + chunks[2] - 1) \div chunks[2]
           high == (shape[1] + chunks[1] - 1) \div chunks[1]
       IN [i \in 1 .. wide * high |-> <<(i - 1) \div wide, (i - 1) % wide>>]

\* The array that a snapshot holds under a name, its table of references
\* read position by position.
Rebuilt(name, stored) ==
  LET keys == SelectSeq(GridPositions(stored.shape, stored.chunks), LAMBDA key : key \in DOMAIN stored.refs)
  IN [ name |-> name, shape |-> stored.shape, chunks |-> stored.chunks, dtype |-> stored.dtype,
       codecs |-> ManifestCodecs(stored.codecs), georef |-> stored.georef,
       refs |-> [i \in DOMAIN keys |-> [key |-> keys[i], path |-> stored.refs[keys[i]].path,
                                        offset |-> stored.refs[keys[i]].offset,
                                        length |-> stored.refs[keys[i]].length]] ]

InSnapshot(arrays, name) ==
  IF name \notin DOMAIN arrays THEN Failure("NotFound")
  ELSE IF arrays[name].georef = None THEN Failure("Unsupported")
  ELSE Answer(Rebuilt(name, arrays[name]))

\* `load_array': a branch serves its tip, anything else must be the id of a
\* snapshot.
LoadCommitted(repo, asset) ==
  IF asset.array = None THEN Failure("Format")
  ELSE IF repo = <<>> THEN Failure("Io")
  ELSE IF asset.version = "main" THEN InSnapshot(Last(repo), asset.array)
  ELSE IF asset.version # "snapshot" THEN Failure("Format")
  ELSE IF asset.id \notin DOMAIN repo THEN Failure("Io")
  ELSE InSnapshot(repo[asset.id], asset.array)

ReadCommitted(repo, files, asset, window, band, overview) ==
  LET array == LoadCommitted(repo, asset)
  IN IF array.error # "none" THEN array ELSE ReadArrayWindow(array.value, files, window, band, overview)

------------------------------------------------------------------------------
(* GRIB2 messages, and the choice of a generator *)

\* `packing_codec': how the samples of a message are packed.
PackingCodec(template) ==
  CASE template = 0 -> "grib2:simple"
    [] template = 2 -> "grib2:complex"
    [] template = 3 -> "grib2:complex-spatial-diff"
    [] template = 4 -> "grib2:ieee-float"
    [] template = 40 -> "grib2:jpeg2000"
    [] template = 41 -> "grib2:png"
    [] template = 42 -> "grib2:aec"
    [] OTHER -> "grib2:template"

\* An array to a message, of one chunk that is all of the message; a variable
\* that comes again is numbered.
MessageArray(message, base, earlier, source) ==
  [ name |-> IF earlier = 0 THEN <<base>> ELSE <<base, earlier>>, shape |-> message.grid, chunks |-> message.grid,
    dtype |-> "float64", codecs |-> <<PackingCodec(message.template)>>, georef |-> None,
    refs |-> <<[key |-> <<0, 0>>, path |-> source, offset |-> message.offset, length |-> message.length]>> ]

AfterMessage(arrays, message, source) ==
  IF arrays.error # "none" THEN arrays
  ELSE IF message.length = 0 \/ ~message.legible THEN Failure("Malformed")
  ELSE LET earlier == {i \in DOMAIN arrays.value : arrays.value[i].name[1] = message.variable}
       IN Answer(Append(arrays.value, MessageArray(message, message.variable, Cardinality(earlier), source)))

\* `generate' of a GRIB2 file; None cannot be read.
GenerateGrib(file) ==
  IF file = None THEN Failure("Backend")
  ELSE LET arrays == FoldLeft(LAMBDA acc, message : AfterMessage(acc, message, file.path), Answer(<<>>), file.messages)
       IN IF arrays.error # "none" THEN arrays
          ELSE IF arrays.value = <<>> THEN Failure("Malformed")
          ELSE Answer([source |-> file.path, arrays |-> arrays.value])

HdfExtensions == {"h5", "hdf5", "nc", "nc4"}
GribExtensions == {"grib2", "grb2", "grib"}

\* `ReferencerError', which the shim of the server maps variant for variant.
ReferencerErrors == {"Unsupported", "Malformed", "Backend"}

\* `handles': what ingest routes here; HDF5 only where it is built in.
Handles(extension, hdf5) == extension \in GribExtensions \/ (hdf5 /\ extension \in HdfExtensions)

\* `generate' of SwathReferencer.
GenerateBy(extension, file, hdf5) ==
  IF hdf5 /\ extension \in HdfExtensions THEN IF file = None THEN Failure("Malformed") ELSE Generate(file)
  ELSE IF extension \in GribExtensions THEN GenerateGrib(file)
  ELSE Failure("Unsupported")

------------------------------------------------------------------------------
(* `swath ingest reference' *)

\* The manifest goes to the path that is given, or beside the granule.
OutputOf(args, granule) == IF args.output # None THEN args.output ELSE <<granule.path, "vmanifest.json">>

\* The root of the container is the directory of the granule; the parent of a
\* bare name is the empty path, which does not resolve.
DiskOf(granule) ==
  [ present |-> {granule.path}, below |-> IF granule.linked THEN {} ELSE {granule.path}, rooted |-> ~granule.bare ]

\* The manifests on the disk, by path; one whose write was cut short is None.
WithManifest(world, path, manifest) ==
  [world EXCEPT !.manifests = [p \in DOMAIN @ \cup {path} |-> IF p = path THEN manifest ELSE @[p]]]

\* `commit_icechunk', after the manifest was written.
CommitIcechunk(world, manifest, granule) ==
  LET commit == CommitManifest(world.repo, manifest, DiskOf(granule))
  IN [ world |-> [world EXCEPT !.repo = commit.repo],
       outcome |-> IF commit.outcome.error = "none" THEN "none" ELSE "Icechunk" ]

\* `run' of the command: what it leaves behind, and its error.  A write may be
\* refused, or begun and not finished.
Ingest(args, granule, world, hdf5) ==
  LET manifest == GenerateBy(granule.extension, granule.file, hdf5)
      out == OutputOf(args, granule)
      written == WithManifest(world, out, manifest.value)
  IN IF manifest.error # "none" THEN [world |-> world, outcome |-> "Reference"]
     ELSE IF args.write = "refused" THEN [world |-> world, outcome |-> "Write"]
     ELSE IF args.write = "cut" THEN [world |-> WithManifest(world, out, None), outcome |-> "Write"]
     ELSE IF ~args.icechunk THEN [world |-> written, outcome |-> "none"]
     ELSE CommitIcechunk(written, manifest.value, granule)
==============================================================================
