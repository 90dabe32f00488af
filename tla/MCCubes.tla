------------------------------- MODULE MCCubes -------------------------------
(***************************************************************************)
(* What a legacy granule holds, pixel by pixel, as the library of its      *)
(* format would read it, and what may be served of it; small granules,     *)
(* windows of them, and pairs of manifests.                                *)
(***************************************************************************)
EXTENDS VirtualCube

------------------------------------------------------------------------------
(* What a granule holds *)

\* The sample at a position, by the dataset itself: stored, or never written.
StoredAt(ds, blobs, row, col) ==
  IF ds.chunk = None
  THEN IF ds.addr = None THEN None ELSE blobs[<<ds.addr, ds.size>>].samples[row * ds.shape[2] + col + 1]
  ELSE LET holds(c) == /\ c.offset[1] <= row /\ row < c.offset[1] + ds.chunk[1]
                       /\ c.offset[2] <= col /\ col < c.offset[2] + ds.chunk[2]
           at == {i \in DOMAIN ds.index : holds(ds.index[i])}
           chunk == ds.index[CHOOSE i \in at : TRUE]
       IN IF at = {} THEN None
          ELSE blobs[<<chunk.addr, chunk.size>>].samples[(row - chunk.offset[1]) * ds.chunk[2] + col - chunk.offset[2] + 1]

ValueAt(ds, blobs, row, col) ==
  IF StoredAt(ds, blobs, row, col) # None THEN StoredAt(ds, blobs, row, col)
  ELSE IF ds.fill = None THEN 0 ELSE ds.fill

Inside(ds, window) ==
  {px \in (0 .. ds.shape[1] - 1) \X (0 .. ds.shape[2] - 1) :
     /\ window.row_off <= px[1] /\ px[1] < window.row_off + window.height
     /\ window.col_off <= px[2] /\ px[2] < window.col_off + window.width}

\* A window that is read has the samples of the dataset, and its provenance
\* is the ranges that hold them, each fetched once.
WindowAsInFile(ds, file, window, data) ==
  /\ DOMAIN data.pixels = Inside(ds, window)
  /\ \A px \in DOMAIN data.pixels : data.pixels[px] = ValueAt(ds, file.blobs, px[1], px[2])
  /\ \A i, j \in DOMAIN data.provenance : i # j => data.provenance[i] # data.provenance[j]
  /\ \A i \in DOMAIN data.provenance :
       LET ref == data.provenance[i]
       IN /\ ref.path = file.path
          /\ ds.chunk # None => \E px \in Inside(ds, window) :
               \E k \in DOMAIN ds.index : /\ <<ds.index[k].addr, ds.index[k].size>> = <<ref.offset, ref.length>>
                                          /\ ds.index[k].offset = [d \in 1 .. 2 |-> px[d] - (px[d] % ds.chunk[d])]

\* Datasets that cannot be served as rasters, or hold a chunk to which not
\* all filters of the pipeline were applied.
Spoilt(ds, file) ==
  \/ Len(ds.shape) # 2 \/ ds.type \notin {"u1", "i2", "f4"} \/ ~(ToSet(ds.filters) \subseteq {"deflate", "shuffle"})
  \/ \E at \in DOMAIN file.blobs : file.blobs[at].applied # [i \in DOMAIN ds.filters |-> FilterCodec(ds.filters[i])]
  \/ 0 \in ToSet(ds.shape)

\* A window reaches a chunk that the dataset does not have and that an earlier
\* commit of it had.  The repository keeps the earlier reference, although
\* source.rs:4-20 has it serve what the manifest does, byte for byte:
\* MCDocuments asks.
GoneKept(earlier, ds, file, window) ==
  earlier = "fuller" /\ \E px \in Inside(ds, window) : StoredAt(ds, file.blobs, px[1], px[2]) = None

\* A window read by the manifest is that of the file, and so is the same
\* window by the repository; neither is refused but for a reason.
ReadsAsFile(ds, file, window, earlier, direct, committed) ==
  /\ direct.error = "none" => Spoilt(ds, file) \/ WindowAsInFile(ds, file, window, direct.value)
  /\ direct = committed \/ Spoilt(ds, file) \/ GoneKept(earlier, ds, file, window)
  /\ direct.error # "none" => Spoilt(ds, file)

\* A grid lies between its corners: its last pixel ends at the lower right.
PlacedAtCorners(grid, ul, lr) ==
  LET t == grid.transform
  IN /\ t.origin_x = ul[1] /\ t.origin_y = ul[2]
     /\ (lr[1] - t.origin_x) * t.pixel_width[2] = grid.xdim * t.pixel_width[1]
     /\ (lr[2] - t.origin_y) * t.pixel_height[2] = grid.ydim * t.pixel_height[1]

\* Manifests are equivalent if they hold the same arrays with the same ranges,
\* in whatever order.
SameRanges(a, b) ==
  LET ranges(m) == {[name |-> x.name, shape |-> x.shape, chunks |-> x.chunks, dtype |-> x.dtype, codecs |-> x.codecs,
                     refs |-> {[key |-> r.key, offset |-> r.offset, length |-> r.length] : r \in ToSet(x.refs)}] :
                      x \in ToSet(m.arrays)}
  IN ranges(a) = ranges(b)

\* Within an array no two dimensions share a name, and over all arrays a name
\* has one size.
DimsApart(snapshot) ==
  \A n, m \in DOMAIN snapshot : \A d \in DOMAIN snapshot[n].shape, e \in DOMAIN snapshot[m].shape :
    snapshot[n].names[d] = snapshot[m].names[e] =>
      /\ snapshot[n].shape[d] = snapshot[m].shape[e]
      /\ n = m => d = e

\* A commit keeps or names every array of the manifest.
CommitAccounts(manifest, outcome) ==
  outcome.error = "none" =>
    ToSet(outcome.value.committed) \cup ToSet(outcome.value.skipped) = {x.name : x \in ToSet(manifest.arrays)}

\* An array of the snapshot before had a chunk that the manifest's has not: the
\* reference that GoneKept speaks of.
Outgrown(array, snapshot) ==
  array.name \in DOMAIN snapshot /\ \E key \in DOMAIN snapshot[array.name].refs : Keyed(array, key) = None

\* What every array of a manifest says is in the snapshot that a commit of it
\* made upon another, as a reader takes it back out of it.
CommittedWhole(manifest, earlier, snapshot) ==
  \A i \in DOMAIN manifest.arrays :
    LET array == manifest.arrays[i]
        back == Rebuilt(array.name, snapshot[array.name])
    IN Representable(array) =>
         /\ array.name \in DOMAIN snapshot
         /\ Len(array.shape) = 2 => /\ ToSet(array.refs) \subseteq ToSet(back.refs)
                                    /\ ToSet(back.refs) \subseteq ToSet(array.refs) \/ Outgrown(array, earlier)
                                    /\ back = [array EXCEPT !.refs = back.refs]

\* A granule that is named without its directory: its commit fails, although
\* ingest.rs:37-39 and :132-134 resolve its chunks against the directory it is
\* in, the working one.  MCDocuments asks.
NamedBare(q) == q.granule.bare /\ q.args.icechunk

\* Arrays are told apart by their names, and no message is left out.
MessagesApart(file, manifest) ==
  /\ Len(manifest.arrays) = Len(file.messages)
  /\ \A i, j \in DOMAIN manifest.arrays : i # j => manifest.arrays[i].name # manifest.arrays[j].name

\* The command leaves nothing behind of a granule it cannot reference; the
\* manifest it writes is that of the granule, by itself or again; a failed
\* write never leaves another; and only a commit that succeeds makes a
\* snapshot, one, which holds all of the manifest that can be held.  A commit
\* fails for a granule with nothing to commit (`NothingToCommit'), and for one
\* whose chunks do not resolve under its directory (`SourcePath'), as it was
\* reached by a link from another.
IngestSound(q, runs) ==
  LET manifest == GenerateBy(q.granule.extension, q.granule.file, q.hdf5)
      out == OutputOf(q.args, q.granule)
  IN \A i \in DOMAIN runs :
       LET before == IF i = 1 THEN q.world ELSE runs[i - 1].world
           after == runs[i].world
           error == runs[i].outcome
       IN /\ error = "Reference" <=> manifest.error # "none"
          /\ ~Handles(q.granule.extension, q.hdf5) => manifest = Failure("Unsupported")
          /\ manifest.error \in ReferencerErrors \cup {"none"}
          /\ error = "Reference" => after = before
          /\ manifest.error = "none" /\ q.granule.extension \in GribExtensions => MessagesApart(q.granule.file, manifest.value)
          /\ error = "Write" => after.repo = before.repo /\ (after = before \/ after.manifests[out] = None)
          /\ error \in {"none", "Icechunk"} => Equivalent(after.manifests[out], manifest.value)
          /\ \A path \in DOMAIN before.manifests \ {out} : after.manifests[path] = before.manifests[path]
          /\ IF error = "none" /\ q.args.icechunk
             THEN /\ Len(after.repo) = Greater(1, Len(before.repo)) + 1
                  /\ CommittedWhole(manifest.value, Last(Opened(before.repo)), Last(after.repo))
                  /\ \A j \in DOMAIN before.repo : after.repo[j] = before.repo[j]
             ELSE after.repo \in {before.repo, Opened(before.repo)}
          /\ error = "Icechunk" <=> /\ manifest.error = "none" /\ q.args.write = "done" /\ q.args.icechunk
                                    /\ \/ q.granule.linked \/ NamedBare(q)
                                       \/ \A k \in DOMAIN manifest.value.arrays : ~Representable(manifest.value.arrays[k])

------------------------------------------------------------------------------
(* GranuleFiles, windows and manifests *)

Name(field) == <<"HDFEOS", "GRIDS", "Grid_1km", "Data Fields", field>>

\* Three by two chunks of two by three samples cover five rows, four columns.
Corner(n) == <<2 * ((n - 1) \div 2), 3 * ((n - 1) % 2)>>
Address(n) == 100 + 10 * n
Index(chunks) == [i \in DOMAIN chunks |-> [offset |-> Corner(chunks[i]), addr |-> Address(chunks[i]), size |-> 6]]
Samples(n, count) == [i \in 1 .. count |-> 10 * n + i]

Chunked(allocated, filters, type, fill) ==
  [ name |-> Name("M1"), shape |-> <<5, 4>>, type |-> type, filters |-> filters, fill |-> fill,
    chunk |-> <<2, 3>>, index |-> Index(allocated), addr |-> None, size |-> 0 ]
Contiguous(addr, shape, fill) ==
  [ name |-> Name("M2"), shape |-> shape, type |-> "i2", filters |-> <<>>, fill |-> fill,
    chunk |-> None, index |-> <<>>, addr |-> addr, size |-> 20 ]

Blobs(applied, count) ==
  [at \in {<<Address(n), 6>> : n \in 1 .. 6} \cup {<<500, 20>>} |->
     [applied |-> applied, samples |-> IF at[1] = 500 THEN Samples(50, 20) ELSE Samples(at[1], count)]]

Line(key, value) == [is |-> "field", key |-> key, value |-> value]
GridLines(id, name, xdim, ydim, ul, lr) ==
  << [is |-> "group", id |-> id], Line("GridName", name), Line("XDim", xdim), Line("YDim", ydim),
     Line("UpperLeftPointMtrs", ul), Line("LowerRightMtrs", lr), Line("Projection", "HE5_GCTP_SNSOID"),
     Line("ProjParams", 6371), Line("GridOrigin", "HE5_HDFE_GD_UL"),
     Line("XDim", 99), [is |-> "end", id |-> id] >>
Structure == GridLines("1", "Grid_1km", 4, 5, <<10, 40>>, <<22, 20>>) \o GridLines("2", "Grid_500m", 8, 10, <<10, 40>>, <<22, 20>>)
\* The metadata as written, and spoilt in one line: kept in a sequence, as the
\* values of its lines are of different kinds.
Structures ==
  << Structure, Structure \o <<Line("GridName", "late")>>, [Structure EXCEPT ![11].id = "2"],
     [Structure EXCEPT ![6].value = <<10, 20>>], [Structure EXCEPT ![7].value = "other"],
     [Structure EXCEPT ![9].value = "other"], [Structure EXCEPT ![8].value = -1] >>
  \o [i \in 1 .. 8 |-> [Structure EXCEPT ![i + 1] = Line("Nothing", 0)]]
  \o [i \in 1 .. 2 |-> [Structure EXCEPT ![i + 2].value = 0]]

Other == [Contiguous(None, <<3>>, None) EXCEPT !.name = <<"lat">>]
File(ds, applied, count) ==
  [ path |-> "g.h5", structure |-> Structure, blobs |-> Blobs(applied, count),
    root |-> [datasets |-> <<Other>>,
              groups |-> <<[datasets |-> <<ds>>, groups |-> <<>>],
                           [datasets |-> <<[Contiguous(500, <<5, 5>>, None) EXCEPT !.name = <<"square">>]>>, groups |-> <<>>]>>] ]

Packed == <<"shuffle", "deflate">>
Allocations == {<<1, 2, 3, 4, 5, 6>>, <<>>, <<1, 4, 5>>, <<6, 2>>}
CubeFiles ==
  {[ds |-> Chunked(a, Packed, "i2", f), applied |-> <<"shuffle", "zlib">>, count |-> 6] : a \in Allocations, f \in {None, -1}}
  \cup {[ds |-> Chunked(<<1, 2, 3, 4, 5, 6>>, f, t, None), applied |-> p, count |-> c] :
          f \in {<<>>, Packed, <<"deflate">>, <<"szip">>}, t \in {"u1", "i8"},
          p \in {<<>>, <<"shuffle", "zlib">>, <<"zlib">>, <<"shuffle">>}, c \in {6}}
  \cup {[ds |-> Contiguous(a, <<5, 4>>, f), applied |-> <<>>, count |-> 6] : a \in {500, None}, f \in {None, -1}}

Windows ==
  {[col_off |-> x, row_off |-> y, width |-> w, height |-> h] :
     x \in {0, 2, 3, 7}, y \in {0, 1, 4, 6}, w \in {1, 3}, h \in {1, 4}}
CubeReads == [file : CubeFiles, window : Windows, earlier : {"other", "fuller"}]

\* The dataset with all its chunks stored.
Fuller(ds) == IF ds.chunk = None THEN [ds EXCEPT !.addr = 500] ELSE [ds EXCEPT !.index = Index(<<1, 2, 3, 4, 5, 6>>)]

Disk == [present |-> {"g.h5"}, below |-> {"g.h5"}, rooted |-> TRUE]

\* The manifest of a file, and what a window of its dataset reads as by the
\* manifest, and by a repository to which another manifest was committed first:
\* of another array, or of this one when all its chunks were stored.
ReadBoth(q) ==
  LET file == File(q.file.ds, q.file.applied, q.file.count)
      manifest == Generate(file)
      files == "g.h5" :> file.blobs
  IN IF manifest.error # "none" THEN manifest
     ELSE LET earlier == IF q.earlier = "other" THEN [manifest.value EXCEPT !.arrays = <<Last(@)>>]
                         ELSE Generate(File(Fuller(q.file.ds), q.file.applied, q.file.count)).value
              first == CommitManifest(<<>>, earlier, Disk)
              second == CommitManifest(first.repo, manifest.value, Disk)
          IN Answer([ manifest |-> manifest.value, repo |-> second.repo, outcome |-> second.outcome,
                      direct |-> ReadWindow("m" :> manifest.value, files, [key |-> "m", array |-> q.file.ds.name],
                                            q.window, 0, None),
                      committed |-> ReadCommitted(second.repo, files,
                                                  [version |-> "main", id |-> 0, array |-> q.file.ds.name],
                                                  q.window, 0, None) ])

\* Manifests that differ in the order or in the contents of their arrays.
Ref(key, offset) == [key |-> key, path |-> "g.h5", offset |-> offset, length |-> 6]
Array0 == [name |-> <<"a">>, shape |-> <<5, 4>>, chunks |-> <<2, 3>>, dtype |-> "int16", codecs |-> <<"zlib">>,
           georef |-> None, refs |-> <<Ref(<<0, 0>>, 1), Ref(<<0, 1>>, 2)>>]
Arrays ==
  {Array0, [Array0 EXCEPT !.refs = <<Ref(<<0, 1>>, 2), Ref(<<0, 0>>, 1)>>], [Array0 EXCEPT !.refs = <<Ref(<<0, 0>>, 1)>>],
   [Array0 EXCEPT !.refs = <<Ref(<<0, 0>>, 1), Ref(<<0, 1>>, 3)>>], [Array0 EXCEPT !.refs = <<Ref(<<0, 0>>, 1), Ref(<<1, 0>>, 2)>>],
   [Array0 EXCEPT !.codecs = <<>>], [Array0 EXCEPT !.name = <<"b">>]}
Manifests ==
  {[source |-> "g.h5", arrays |-> <<>>]} \cup {[source |-> "g.h5", arrays |-> <<x>>] : x \in Arrays}
  \cup {[source |-> "g.h5", arrays |-> <<x, y>>] : x \in Arrays, y \in {[z EXCEPT !.name = <<"c">>] : z \in Arrays}}
  \cup {[source |-> "g.h5", arrays |-> <<[x EXCEPT !.name = <<"c">>], y>>] : x \in {Array0}, y \in Arrays}

\* Files of messages: of one variable twice, of another, spoilt, and none.
Message(variable, template, length, legible) ==
  [variable |-> variable, template |-> template, grid |-> <<2, 3>>, offset |-> 0, length |-> length, legible |-> legible]
MessageFiles ==
  {[path |-> "g.grib2", messages |-> messages] :
     messages \in {<<>>, <<Message("t", 0, 9, TRUE)>>, <<Message("t", 3, 9, TRUE), Message("u10", 40, 9, TRUE), Message("t", 7, 9, TRUE)>>,
                   <<Message("t", 0, 9, TRUE), Message("u10", 0, 0, TRUE)>>, <<Message("t", 0, 9, FALSE)>>}}
Granule(extension, file, bare, linked) ==
  [path |-> "g.h5", extension |-> extension, file |-> file, bare |-> bare, linked |-> linked]
CubeFile == File(Chunked(<<1, 4, 5>>, Packed, "i2", -1), <<"shuffle", "zlib">>, 6)
Unmapped == File(Chunked(<<1>>, Packed, "blob", None), <<"shuffle", "zlib">>, 6)
TextOnly == [CubeFile EXCEPT !.structure = None,
                             !.root = [datasets |-> <<[Other EXCEPT !.type = "text"]>>, groups |-> <<>>]]
GranuleFiles ==
  {Granule("h5", f, b, l) : f \in {CubeFile, Unmapped, TextOnly, None}, b \in BOOLEAN, l \in BOOLEAN}
  \cup {Granule("grib2", f, FALSE, FALSE) : f \in MessageFiles \cup {None}}
  \cup {Granule(e, CubeFile, FALSE, FALSE) : e \in {"nc", "tif", "none"}}
\* Nothing there yet, or an older manifest and a repository with a snapshot,
\* of another granule or of one with more chunks.
Worlds ==
  LET after(older) == [ manifests |-> <<"g.h5", "vmanifest.json">> :> older @@ <<"other.json">> :> older,
                        repo |-> CommitManifest(<<>>, older, Disk).repo ]
  IN {[manifests |-> <<>>, repo |-> <<>>]}
     \cup {after(Generate(File(ds, <<>>, 6)).value) :
             ds \in {Contiguous(500, <<5, 4>>, None), Fuller(Chunked(<<>>, Packed, "i2", -1))}}
Ingests ==
  [granule : GranuleFiles, hdf5 : BOOLEAN, world : Worlds,
   args : [output : {None, <<"out.json">>}, icechunk : BOOLEAN, write : {"done", "refused", "cut"}]]

\* The command, and the same once more.
IngestAgain(q, first) == <<first, Ingest(q.args, q.granule, first.world, q.hdf5)>>
IngestTwice(q) ==
  IngestAgain(q, Ingest(q.args, q.granule, q.world, q.hdf5))
==============================================================================
