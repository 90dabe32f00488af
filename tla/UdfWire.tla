-------------------------------- MODULE UdfWire --------------------------------
(***************************************************************************)
(* The buffers a tile and its module exchange: a length, a header of       *)
(* unsigned fields, and planes of values and validity flags.  One codec    *)
(* serves the guest kit and the host.  A buffer is a sequence of atoms: the *)
(* length prefix, the tokens of the header without its blanks, and for     *)
(* each pixel of a plane a value and a flag, which are nine bytes.          *)
(***************************************************************************)
EXTENDS Outcome, Integers, Sequences, SequencesExt, FiniteSetsExt, Functions, TLC

CONSTANTS
  SideMax,   \* u32::MAX
  SizeMax,   \* usize::MAX of the reader
  PageSize,  \* PAGE of the guest's memory
  PageCap,   \* pages that memory.grow grants
  HeapBase   \* __heap_base

AbiNumber == 1

Prefix(n) == [t |-> "length", n |-> n]
Mark(c) == [t |-> "mark", c |-> c]
Field(key, value) == [t |-> "field", key |-> key, value |-> value]
Value(v) == [t |-> "value", v |-> v]
Flag(v) == [t |-> "flag", v |-> v]

------------------------------------------------------------------------------
\* The header, field by field from the left: a number that is none comes to
\* light before a key that is unknown, and that before one seen twice.

Scan(keys, st, token) ==
  CASE st.error # "none" -> st
    [] st.want = "{" /\ token = Mark("{") -> [st EXCEPT !.want = "field"]
    [] st.want = "field" /\ token.t = "field" ->
         IF token.value = None THEN [st EXCEPT !.error = "MalformedHeader"]
         ELSE IF token.key \notin keys THEN [st EXCEPT !.error = "UnknownField"]
         ELSE IF token.key \in DOMAIN st.got THEN [st EXCEPT !.error = "DuplicateField"]
         ELSE [st EXCEPT !.want = "delimiter", !.got = @ @@ (token.key :> token.value)]
    [] st.want = "delimiter" /\ token = Mark(",") -> [st EXCEPT !.want = "field"]
    [] st.want = "delimiter" /\ token = Mark("}") -> [st EXCEPT !.want = "end"]
    [] OTHER -> [st EXCEPT !.error = "MalformedHeader"]

Scanned(st) ==
  IF st.error # "none" THEN Failure(st.error)
  ELSE IF st.want # "end" THEN Failure("MalformedHeader")
  ELSE Answer(st.got)

ParseUintObject(tokens, keys) ==
  Scanned(FoldLeft(LAMBDA st, token : Scan(keys, st, token),
                   [want |-> "{", got |-> <<>>, error |-> "none"], tokens))

SplitFrame(buf) ==
  IF buf = <<>> \/ Len(buf) - 1 < buf[1].n THEN Failure("Truncated")
  ELSE Answer([header |-> SubSeq(buf, 2, 1 + buf[1].n), payload |-> SubSeq(buf, 2 + buf[1].n, Len(buf))])

CheckedDims(width, height, planes) ==
  /\ 0 \notin {width, height, planes}
  /\ width <= SideMax /\ height <= SideMax
  /\ width * height * 9 * planes <= SizeMax

\* The planes of a payload whose length is that of its header.
Planes(payload, pixels, planes) ==
  [p \in 1..planes |->
     LET at == (p - 1) * 2 * pixels
     IN [values |-> [i \in 1..pixels |-> payload[at + i].v],
         validity |-> [i \in 1..pixels |-> payload[at + pixels + i].v]]]

\* Variant: a payload may go on behind its last plane.
DecodePlanesLoose(payload, pixels, planes) ==
  IF Len(payload) < planes * pixels * 2 THEN Failure("PayloadLength")
  ELSE Answer(Planes(payload, pixels, planes))

DecodePlanes(payload, pixels, planes) ==
  IF Len(payload) # planes * pixels * 2 THEN Failure("PayloadLength")
  ELSE Answer(Planes(payload, pixels, planes))

\* The fields of a header that names them all and speaks this version.
Required(read, keys) ==
  IF read.error # "none" THEN read
  ELSE IF keys \ DOMAIN read.value # {} THEN Failure("MissingField")
  ELSE IF read.value["abi"] # AbiNumber THEN Failure("AbiVersion")
  ELSE read

Sized(dims, planes) ==
  IF planes.error # "none" THEN planes
  ELSE Answer([width |-> dims["width"], height |-> dims["height"], planes |-> planes.value])

DecodeAt(dims, payload) ==
  IF ~CheckedDims(dims["width"], dims["height"], dims["planes"]) THEN Failure("BadDimensions")
  ELSE Sized(dims, DecodePlanes(payload, dims["width"] * dims["height"], dims["planes"]))

Headed(header, payload, given) ==
  IF header.error # "none" THEN header ELSE DecodeAt(header.value @@ given, payload)

\* `given' are the dimensions that a response does not repeat.
Decode(parts, keys, given) ==
  IF parts.error # "none" THEN parts
  ELSE Headed(Required(ParseUintObject(parts.value.header, keys), keys), parts.value.payload, given)

DecodeRequest(buf) == Decode(SplitFrame(buf), {"abi", "width", "height", "planes"}, <<>>)
DecodeResponse(width, height, buf) ==
  Decode(SplitFrame(buf), {"abi", "planes"}, [x \in {"width", "height"} |-> IF x = "width" THEN width ELSE height])

------------------------------------------------------------------------------
\* `frame' around a header that names `fields' in this order.
Frame(fields) ==
  LET tokens == <<Mark("{")>> \o FlattenSeq([i \in DOMAIN fields |->
                  IF i = 1 THEN <<fields[i]>> ELSE <<Mark(","), fields[i]>>]) \o <<Mark("}")>>
  IN <<Prefix(Len(tokens))>> \o tokens

EncodePlanes(planes) ==
  FlattenSeq([p \in DOMAIN planes |->
    [i \in DOMAIN planes[p].values |-> Value(planes[p].values[i])]
      \o [i \in DOMAIN planes[p].validity |-> Flag(planes[p].validity[i])]])

Encode(width, height, planes, fields) ==
  IF ~CheckedDims(width, height, Len(planes)) THEN Failure("BadDimensions")
  ELSE IF \E p \in DOMAIN planes :
            Len(planes[p].values) # width * height \/ Len(planes[p].validity) # width * height
       THEN Failure("PlaneShape")
  ELSE Answer(Frame(fields) \o EncodePlanes(planes))

EncodeRequest(width, height, planes) ==
  Encode(width, height, planes, <<Field("abi", AbiNumber), Field("width", width), Field("height", height),
                                  Field("planes", Len(planes))>>)

EncodeResponse(width, height, planes) ==
  Encode(width, height, planes, <<Field("abi", AbiNumber), Field("planes", Len(planes))>>)

------------------------------------------------------------------------------
\* The guest kit's memory: each allocation lies behind the one before, and
\* memory grows by the pages that are missing.  The heap starts at HeapBase
\* as long as nothing has been allocated.

AlignUp(n) == ((n + 7) \div 8) * 8
PagesOf(bytes) == (bytes + PageSize - 1) \div PageSize

\* Variant: the memory is taken to be large enough.
AllocUngrown(heap, len) ==
  LET start == AlignUp(IF heap.next = 0 THEN HeapBase ELSE heap.next) IN
  IF len <= 0 THEN [heap EXCEPT !.given = 0] ELSE [heap EXCEPT !.next = start + len, !.given = start]

Alloc(heap, len) ==
  LET start == AlignUp(IF heap.next = 0 THEN HeapBase ELSE heap.next)
      end == start + len
      pages == Max({heap.pages, PagesOf(end)})
  IN IF len <= 0 \/ end > SizeMax \/ pages > PageCap THEN [heap EXCEPT !.given = 0]
     ELSE [next |-> end, pages |-> pages, given |-> start]

Responded(response) == IF response.error # "none" THEN None ELSE response.value

\* The module answers planes, or None.
Applied(request, module) ==
  IF request.error # "none" \/ module[request.value.planes] = None THEN None
  ELSE Responded(EncodeResponse(request.value.width, request.value.height, module[request.value.planes]))

\* What `swath_udf_run' answers: none on any failure.
KitRun(buf, module) == Applied(DecodeRequest(buf), module)

\* A tile's planes as a request; flags are 0 and 1.
Requested(inputs, buf) ==
  IF inputs = <<>> \/ buf.error # "none" THEN Failure("InvalidRequest") ELSE buf
EncodeInputs(width, height, inputs) == Requested(inputs, EncodeRequest(width, height, inputs))

Buffered(plane) == [values |-> plane.values, valid |-> [i \in DOMAIN plane.validity |-> plane.validity[i] # 0]]

Declared(response, declared) ==
  IF response.error # "none" THEN Failure("MalformedOutput")
  ELSE IF Len(response.value.planes) # declared THEN Failure("OutputPlanes")
  ELSE Answer([p \in 1..declared |-> Buffered(response.value.planes[p])])

\* The module's answer as buffers of the tile's size; any flag but 0 is valid.
DecodeOutputs(width, height, declared, buf) == Declared(DecodeResponse(width, height, buf), declared)
==============================================================================
