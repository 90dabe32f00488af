----------------------------- MODULE ObjectStores -----------------------------
(***************************************************************************)
(* What a server keeps as objects: the frame that a cached tile is stored  *)
(* in, and the modules of `run_udf', fetched when their graph is published *)
(* and found under the hash of their bytes ever after.                     *)
(*                                                                         *)
(* A store is [objects, fault]: the objects by their path, which is the    *)
(* sequence of its segments, and whether calls go through.  A hash is the  *)
(* sequence of its pairs of digits; the bytes of a module are their length *)
(* and their hash, which no other bytes have.                              *)
(***************************************************************************)
EXTENDS Integers, Sequences, SequencesExt, FiniteSetsExt, Outcome

CONSTANTS
  ByteMax,    \* the greatest u8
  ModuleMax   \* MODULE_MAX_BYTES

Readable(store) == store.fault # "down"
Writable(store) == store.fault = "none"

With(store, path, object) ==
  [store EXCEPT !.objects = [p \in DOMAIN store.objects \cup {path} |->
                               IF p = path THEN object ELSE store.objects[p]]]

\* What can go wrong at each of the ports.
CacheErrors == {"Io", "Corrupt"}
ModuleStoreErrors == {"Io", "Corrupt", "TooLarge"}
ModuleFetchErrors == {"Unsupported", "NotFound", "TooLarge", "Transport"}
RehydrateErrors == ModuleStoreErrors \cup {"ModuleMissing"}
ServeErrors == {"Config", "Store", "Bind", "Serve", "Catalog"}

------------------------------------------------------------------------------
(* The roots *)

\* A root names a bucket, and maybe a prefix in it, or a directory that has
\* to be there; `reach' are the ones that can be opened.
BuildStore(root, reach) ==
  IF root.place \notin reach THEN Failure("Store")
  ELSE Answer([place |-> root.place, prefix |-> IF root.s3 THEN root.prefix ELSE None])

\* Modules are offered over a configured store, by a build with a runtime,
\* on a host that can run it.
UdfPublish(root, build, reach) ==
  IF root = None \/ ~build.wasm \/ ~build.host THEN Answer(None) ELSE BuildStore(root, reach)

\* The end of a start-up: the store, the cache and the port, in this order.
RunServer(cfg, udf, reach) ==
  LET store == BuildStore(cfg.store_root, reach)
      cache == IF cfg.cache = None THEN Answer(None) ELSE BuildStore(cfg.cache, reach)
  IN IF store.error # "none" THEN store
     ELSE IF cache.error # "none" THEN cache
     ELSE IF "port" \notin reach THEN Failure("Bind")
     ELSE Answer([udf |-> udf, store |-> store.value, cache |-> cache.value])

\* A server of a catalog reaches it first, and the module store before it
\* registers anything there; static layers run no module.
Serve(cfg, build, reach) ==
  LET udf == UdfPublish(cfg.udf_store, build, reach)
  IN IF ~cfg.catalog THEN RunServer(cfg, None, reach)
     ELSE IF "catalog" \notin reach THEN Failure("Catalog")
     ELSE IF udf.error # "none" THEN udf
     ELSE RunServer(cfg, udf.value, reach)

------------------------------------------------------------------------------
(* Tiles *)

FrameVersion == 1

\* The nth pair of a hash as a segment of a path: none of a hash too short.
Shard(hash, n) == IF n \in DOMAIN hash THEN <<hash[n]>> ELSE <<>>

TilePath(key) == <<"tiles">> \o Shard(key, 1) \o Shard(key, 2) \o <<key>>

\* Byte ByteMax stands for those that no text has.
Utf8(bytes) == ByteMax \notin Range(bytes)

Encode(tile) ==
  IF Len(tile.type) > ByteMax THEN Failure("Corrupt")
  ELSE Answer(<<FrameVersion, Len(tile.type)>> \o tile.type \o tile.bytes)

Decode(frame) ==
  IF Len(frame) < 2 \/ frame[1] # FrameVersion \/ Len(frame) < 2 + frame[2] THEN Failure("Corrupt")
  ELSE LET type == SubSeq(frame, 3, 2 + frame[2])
       IN IF ~Utf8(type) THEN Failure("Corrupt")
          ELSE Answer([type |-> type, bytes |-> SubSeq(frame, 3 + frame[2], Len(frame))])

GetTile(store, key) ==
  IF ~Readable(store) THEN Failure("Io")
  ELSE IF TilePath(key) \notin DOMAIN store.objects THEN Answer(None)
  ELSE Decode(store.objects[TilePath(key)])

PutTile(store, key, tile) ==
  LET frame == Encode(tile)
  IN IF frame.error # "none" THEN [store |-> store, error |-> frame.error]
     ELSE IF ~Writable(store) THEN [store |-> store, error |-> "Io"]
     ELSE [store |-> With(store, TilePath(key), frame.value), error |-> "none"]

\* The bytes that the key of a tile is the hash of: each field behind its
\* length, so that none can pass for a part of its neighbour.
Field(bytes) == <<Len(bytes)>> \o bytes
Word(n) == [i \in 1..4 |-> (n \div (ByteMax + 1)^(i - 1)) % (ByteMax + 1)]

\* Variant: the fields are joined without their lengths.
HashedUnprefixed(of) ==
  of.layer \o of.version \o of.plan \o of.tms \o <<of.coord.z>> \o Word(of.coord.x) \o Word(of.coord.y)
    \o Word(of.tile_size)

Hashed(of) ==
  Field(of.layer) \o Field(of.version) \o Field(of.plan) \o Field(of.tms) \o Field(<<of.coord.z>>)
    \o Field(Word(of.coord.x)) \o Field(Word(of.coord.y)) \o Field(Word(of.tile_size))

------------------------------------------------------------------------------
(* Modules *)

CodeHash(bytes) == bytes.hash

ModulePath(hash) == <<"udf">> \o Shard(hash, 1) \o Shard(hash, 2) \o <<Append(hash, ".wasm")>>

\* Variant: what lies under a hash is taken for it.
GetModuleTrusting(store, hash) ==
  IF ~Readable(store) THEN Failure("Io")
  ELSE IF ModulePath(hash) \notin DOMAIN store.objects THEN Answer(None)
  ELSE Answer(store.objects[ModulePath(hash)])

GetModule(store, hash) ==
  IF ~Readable(store) THEN Failure("Io")
  ELSE IF ModulePath(hash) \notin DOMAIN store.objects THEN Answer(None)
  ELSE IF CodeHash(store.objects[ModulePath(hash)]) # hash THEN Failure("Corrupt")
  ELSE Answer(store.objects[ModulePath(hash)])

\* What lies under the hash of the bytes is left alone, whatever it is.
PutModule(store, bytes) ==
  LET hash == CodeHash(bytes)
  IN IF bytes.len > ModuleMax THEN [store |-> store, reply |-> Failure("TooLarge")]
     ELSE IF ~Readable(store) THEN [store |-> store, reply |-> Failure("Io")]
     ELSE IF ModulePath(hash) \in DOMAIN store.objects THEN [store |-> store, reply |-> Answer(hash)]
     ELSE IF ~Writable(store) THEN [store |-> store, reply |-> Failure("Io")]
     ELSE [store |-> With(store, ModulePath(hash), bytes), reply |-> Answer(hash)]

\* A fetch reads one page of the web; what is declared to be too large is
\* not read, and what is read and is too large is not kept.
Fetch(web, url) ==
  LET page == web[url]
  IN IF url.scheme \notin {"http", "https"} THEN Failure("Unsupported")
     ELSE IF page.status = "missing" THEN Failure("NotFound")
     ELSE IF page.status = "failing" THEN Failure("Transport")
     ELSE IF page.declared > ModuleMax THEN Failure("TooLarge")
     ELSE IF page.body = None THEN Failure("Transport")
     ELSE IF page.body.len > ModuleMax THEN Failure("TooLarge")
     ELSE Answer(page.body)

\* The `udf' argument of a node: bytes in base64 of so many characters, an
\* absolute URL, or neither.
ParseSource(arg) ==
  CASE arg.t = "inline" ->
         IF arg.characters > ((ModuleMax + 2) \div 3) * 4 THEN Failure("InvalidArgument")
         ELSE IF arg.module = None \/ arg.module.len > ModuleMax THEN Failure("InvalidArgument")
         ELSE Answer([t |-> "inline", module |-> arg.module])
    [] arg.t = "url" /\ arg.url.scheme \in {"http", "https"} -> Answer([t |-> "remote", url |-> arg.url])
    [] OTHER -> Failure("InvalidArgument")

\* The nodes that run a module and say which, in the order of the graph.
UdfArguments(graph) ==
  SelectSeq(graph, LAMBDA node : node.process = "run_udf" /\ node.udf # None)

RemoteUrls(graph) ==
  LET sources == [i \in DOMAIN UdfArguments(graph) |-> ParseSource(UdfArguments(graph)[i].udf)]
      remote == SelectSeq(sources, LAMBDA s : s.error = "none" /\ s.value.t = "remote")
  IN [i \in DOMAIN remote |-> remote[i].value.url]

\* A fresh compile: every remote module is fetched, once; the first failure
\* is the node's that names it.
Resolve(web, graph) ==
  FoldLeft(LAMBDA st, node :
             LET source == ParseSource(node.udf)
                 fetched == Fetch(web, source.value.url)
             IN IF st.error # "none" \/ source.error # "none" \/ source.value.t # "remote" THEN st
                ELSE IF source.value.url \in Range(st.asked) THEN st
                ELSE IF fetched.error # "none"
                     THEN [st EXCEPT !.error = "InvalidArgument", !.node = node.id, !.asked = Append(@, source.value.url)]
                ELSE [st EXCEPT !.asked = Append(@, source.value.url),
                                !.remote = Append(@, <<source.value.url, fetched.value>>)],
           [remote |-> <<>>, asked |-> <<>>, error |-> "none", node |-> None], UdfArguments(graph))

\* A persisted layer at a restart: the module of its hash stands for every
\* URL of its graph, and nothing is fetched.
Rehydrate(store, layer) ==
  LET urls == RemoteUrls(layer.process)
      found == GetModule(store, layer.code_hash)
  IN IF layer.code_hash = None \/ urls = <<>> THEN Answer(<<>>)
     ELSE IF found.error # "none" THEN Failure(found.error)
     ELSE IF found.value = None THEN Failure("ModuleMissing")
     ELSE Answer([i \in DOMAIN urls |-> <<urls[i], found.value>>])

\* The modules that a compile is given by their URL; a later one replaces.
Applied(remote) ==
  [url \in {remote[i][1] : i \in DOMAIN remote} |->
     remote[Max({i \in DOMAIN remote : remote[i][1] = url})][2]]

\* `rehydrate_service': a server that offers no modules asks no store.
RehydrateService(udf, store, layer) == IF udf THEN Rehydrate(store, layer) ELSE Answer(<<>>)
==============================================================================
